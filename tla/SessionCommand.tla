----------------------------- MODULE SessionCommand ----------------------------
(***************************************************************************)
(* The goroutines of one IMAP session (internal/mail/imap/session.go): the   *)
(* caller inside do, Idle, sleep or Close; the goroutine do starts for each  *)
(* command; the decoder of the client library, which answers commands,       *)
(* delivers EXISTS and fails what is pending when the connection ends; and   *)
(* the goroutine shutdown starts to close the client.  The server answers,   *)
(* refuses, stays silent, or drops the connection behind an answer.          *)
(***************************************************************************)
EXTENDS Naturals, Sequences

CONSTANTS MaxCommands,  \* bound: commands sent in the session
          MaxExists     \* bound: EXISTS the server sends

ASSUME CommandAssumption == {MaxCommands, MaxExists} \subseteq Nat

VARIABLES
  at,        \* the caller: "ready", "select" (in do), "shutdown", "grace"
             \* (do, after Closed), "idling" (in Idle, IDLE runs), "sleeping"
  kind,      \* the do that runs: "command", "idle", "done", "logout" or "none"
  then,      \* what follows the shutdown: "grace" or an outcome
  outcome,   \* of the last do, or of a wait that found the session over
  ctxOver,   \* the context has ended
  closed,    \* Session.closed
  cmd,       \* the goroutine of do: "none" or "running"
  answer,    \* how the library ends the command: "none", "ok", "no", "error"
  done,      \* the channel done of this do: "empty" or an answer
  decoder,   \* "reading", "handling" (in the Mailbox handler), "failing", "gone"
  closer,    \* shutdown's goroutine: "none", "started", "closing" or "done"
  conn,      \* the connection is open at this end
  exists,    \* Session.exists holds a signal
  inbound,   \* what the server has sent and the decoder has not read
  dropped,   \* the server has closed its end
  verdict,   \* the server's answer to the command it has: "none", "ok", "no"
  commands, pushes

caller == <<at, kind, then, outcome, closed>>
library == <<answer, decoder, conn>>
server == <<dropped, verdict>>
bounds == <<commands, pushes>>
cmdVars == <<caller, ctxOver, cmd, done, closer, exists, inbound, library,
             server, bounds>>

-------------------------------------------------------------------------------
(* shutdown: mark the session closed, let a goroutine close the client, and  *)
(* wait for it, but not for ever.                                            *)

\* Leaves the session open to the next command.
ShutdownThenFaulty(what) ==
  /\ then' = what
  /\ at' = "shutdown"
  /\ closer' = IF closed THEN closer ELSE "started"
  /\ UNCHANGED closed

ShutdownThen(what) ==
  /\ then' = what
  /\ at' = "shutdown"
  /\ closed' = TRUE
  /\ closer' = IF closed THEN closer ELSE "started"

\* The goroutine is done, IdleStop is over, or there was nothing to do: the wait
\* has no guard, since the timer may expire at any moment.
EndShutdown ==
  /\ at = "shutdown"
  /\ IF then = "grace" THEN at' = "grace" /\ UNCHANGED <<kind, outcome>>
     ELSE at' = "ready" /\ kind' = "none" /\ outcome' = then
  /\ UNCHANGED <<then, closed, ctxOver, cmd, done, closer, exists, inbound,
                 library, server, bounds>>

\* client.Close: close the connection ...
CloseClient ==
  /\ closer = "started"
  /\ conn' = FALSE /\ closer' = "closing"
  /\ UNCHANGED <<caller, ctxOver, cmd, done, exists, inbound, answer, decoder,
                 server, bounds>>

\* ... and wait for the decoder to leave.
EndClose ==
  /\ closer = "closing" /\ decoder = "gone"
  /\ closer' = "done"
  /\ UNCHANGED <<caller, ctxOver, cmd, done, exists, inbound, library, server,
                 bounds>>

-------------------------------------------------------------------------------
(* do.                                                                      *)

\* The context matters to every step but Close's LOGOUT.
CtxEnded == ctxOver /\ kind # "logout"

\* A session that is closed, or a context that is over, sends nothing.
Refuse ==
  /\ at = "ready" /\ (closed \/ ctxOver)
  /\ outcome' = IF closed THEN "closed" ELSE "ctx"
  /\ UNCHANGED <<at, kind, then, closed, ctxOver, cmd, done, closer, exists,
                 inbound, library, server, bounds>>

\* Start fn in its goroutine, with a channel and a timer of its own.
StartCommand(k) ==
  /\ at' = "select" /\ kind' = k /\ outcome' = "none"
  /\ cmd' = "running" /\ done' = "empty"
  /\ answer' = "none" /\ verdict' = "none"
  /\ UNCHANGED <<then, closed, ctxOver, closer, inbound, decoder, conn, dropped,
                 pushes>>

Counted == commands < MaxCommands /\ commands' = commands + 1

\* Any method but Idle and Close; Scan empties the channel first.
Command ==
  /\ at = "ready" /\ ~closed /\ ~ctxOver
  /\ Counted /\ StartCommand("command")
  /\ exists' \in {exists, FALSE}

\* Close sends LOGOUT even when the context is over.
Logout ==
  /\ at = "ready" /\ ~closed
  /\ Counted /\ StartCommand("logout")
  /\ UNCHANGED exists

\* Idle: a signal that is there already is taken; otherwise IDLE is sent.
Idle ==
  /\ at = "ready" /\ ~closed
  /\ \/ /\ exists /\ exists' = FALSE
        /\ UNCHANGED <<caller, ctxOver, cmd, done, closer, inbound, library,
                       server, bounds>>
     \/ /\ ~exists /\ ~ctxOver
        /\ Counted /\ StartCommand("idle")
        /\ UNCHANGED exists

\* A tagged refusal leaves the session usable; whatever else fails does not.
Classified(err) ==
  CASE err = "ok" -> "ok"
    [] err = "no" -> "rejected"
    [] err = "error" -> "closed"

\* What do makes of the result of fn, and what its caller does next: Idle waits
\* when IDLE is accepted, Close goes on to shutdown whatever LOGOUT came to.
Concluded(err) ==
  IF err = "error" THEN ShutdownThen("closed") /\ UNCHANGED <<kind, outcome>>
  ELSE /\ kind' = "none" /\ outcome' = Classified(err)
       /\ IF kind = "logout" THEN ShutdownThen(outcome')
          ELSE /\ at' = IF kind = "idle" /\ err = "ok" THEN "idling" ELSE "ready"
               /\ UNCHANGED <<then, closed, closer>>

TakeResult ==
  /\ at \in {"select", "grace"} /\ done # "empty"
  /\ Concluded(done)
  /\ done' = "empty"
  /\ UNCHANGED <<ctxOver, cmd, exists, inbound, library, server, bounds>>

\* Keeps the connection: the next command would start beside this one.
DeadlineFaulty ==
  /\ at = "select"
  /\ at' = "ready" /\ kind' = "none" /\ outcome' = "timeout"
  /\ UNCHANGED <<then, closed, closer, ctxOver, cmd, done, exists, inbound,
                 library, server, bounds>>

Deadline ==
  /\ at = "select"
  /\ ShutdownThen("timeout")
  /\ UNCHANGED <<kind, outcome, ctxOver, cmd, done, exists, inbound, library,
                 server, bounds>>

ContextEnds ==
  /\ at = "select" /\ CtxEnded
  /\ ShutdownThen("ctx")
  /\ UNCHANGED <<kind, outcome, ctxOver, cmd, done, exists, inbound, library,
                 server, bounds>>

\* A closed connection is reported as such, whatever fn has to say.
SeeClosedFaulty ==
  /\ at = "select" /\ decoder = "gone"
  /\ ShutdownThen("closed")
  /\ UNCHANGED <<kind, outcome, ctxOver, cmd, done, exists, inbound, library,
                 server, bounds>>

\* The connection has closed; fn's own result still counts, if it comes.
SeeClosed ==
  /\ at = "select" /\ decoder = "gone"
  /\ ShutdownThen("grace")
  /\ UNCHANGED <<kind, outcome, ctxOver, cmd, done, exists, inbound, library,
                 server, bounds>>

\* IdleStop is over.  A goroutine that has its answer is not kept from the
\* processor that long.
GraceEnds ==
  /\ at = "grace" /\ answer = "none"
  /\ at' = "ready" /\ kind' = "none" /\ outcome' = "closed"
  /\ UNCHANGED <<then, closed, ctxOver, cmd, done, closer, exists, inbound,
                 library, server, bounds>>

\* The goroutine of do: fn returns with what the library made of the command.
FinishCommand ==
  /\ cmd = "running" /\ answer # "none"
  /\ done' = answer
  /\ cmd' = "none"
  /\ UNCHANGED <<caller, ctxOver, closer, exists, inbound, library, server,
                 bounds>>

-------------------------------------------------------------------------------
(* Idle after its continuation, and sleep.                                   *)

\* An EXISTS, or IdleMax: send DONE, through do like every command.
EndIdle ==
  /\ at = "idling"
  /\ exists' \in {exists, FALSE}
  /\ IF closed \/ ctxOver
     THEN /\ at' = "ready"
          /\ outcome' = IF closed THEN "closed" ELSE "ctx"
          /\ UNCHANGED <<kind, then, closed, ctxOver, cmd, done, closer, inbound,
                         library, server, bounds>>
     ELSE StartCommand("done") /\ UNCHANGED commands

Sleep ==
  /\ at = "ready" /\ ~closed
  /\ at' = "sleeping"
  /\ UNCHANGED <<kind, then, outcome, closed, ctxOver, cmd, done, closer, exists,
                 inbound, library, server, bounds>>

Wake ==
  /\ at = "sleeping"
  /\ at' = "ready"
  /\ UNCHANGED <<kind, then, outcome, closed, ctxOver, cmd, done, closer, exists,
                 inbound, library, server, bounds>>

\* The wait ends because the context or, for Idle and sleep, the connection does.
WaitBroken ==
  /\ \/ at = "idling" /\ ctxOver /\ ShutdownThen("ctx")
     \/ at \in {"idling", "sleeping"} /\ decoder = "gone" /\ ShutdownThen("closed")
  /\ UNCHANGED <<kind, outcome, ctxOver, cmd, done, exists, inbound, library,
                 server, bounds>>

-------------------------------------------------------------------------------
(* The library's decoder goroutine.                                          *)

\* A tagged answer ends the command; an EXISTS calls the handler.
Decode ==
  /\ decoder = "reading" /\ inbound # <<>>
  /\ inbound' = Tail(inbound)
  /\ IF Head(inbound) = "exists"
     THEN decoder' = "handling" /\ UNCHANGED answer
     ELSE answer' = Head(inbound) /\ UNCHANGED decoder
  /\ UNCHANGED <<caller, ctxOver, cmd, done, closer, exists, conn, server, bounds>>

\* Waits while a signal is still in the channel.
SignalFaulty == ~exists /\ exists' = TRUE

\* signal: one is enough, a second is dropped; it never blocks the decoder.
Signal == exists' = TRUE

Handle ==
  /\ decoder = "handling"
  /\ Signal
  /\ decoder' = "reading"
  /\ UNCHANGED <<caller, ctxOver, cmd, done, closer, inbound, answer, conn,
                 server, bounds>>

\* The connection has ended: everything pending fails first ...
FailPending ==
  /\ decoder = "reading"
  /\ ~conn \/ (dropped /\ inbound = <<>>)
  /\ decoder' = "failing"
  /\ answer' = IF cmd = "running" /\ answer = "none" THEN "error" ELSE answer
  /\ UNCHANGED <<caller, ctxOver, cmd, done, closer, exists, inbound, conn,
                 server, bounds>>

\* ... and then Closed() is closed.
LeaveDecoder ==
  /\ decoder = "failing"
  /\ decoder' = "gone"
  /\ UNCHANGED <<caller, ctxOver, cmd, done, closer, exists, inbound, answer,
                 conn, server, bounds>>

\* A command on a connection that is gone fails when it is written.
FailToWrite ==
  /\ cmd = "running" /\ answer = "none" /\ decoder = "gone"
  /\ answer' = "error"
  /\ UNCHANGED <<caller, ctxOver, cmd, done, closer, exists, inbound, decoder,
                 conn, server, bounds>>

-------------------------------------------------------------------------------
(* The server and the context.                                               *)

ServerAnswers ==
  /\ cmd = "running" /\ verdict = "none" /\ answer = "none"
  /\ ~dropped /\ conn
  /\ verdict' \in {"ok", "no"}
  /\ inbound' = Append(inbound, verdict')
  /\ UNCHANGED <<caller, ctxOver, cmd, done, closer, exists, library, dropped,
                 bounds>>

ServerPushes ==
  /\ pushes < MaxExists /\ pushes' = pushes + 1
  /\ ~dropped /\ conn
  /\ inbound' = Append(inbound, "exists")
  /\ UNCHANGED <<caller, ctxOver, cmd, done, closer, exists, library, server,
                 commands>>

\* What the server sent before may still be read, or is lost with a reset.
ServerDrops ==
  /\ ~dropped
  /\ dropped' = TRUE
  /\ inbound' \in {inbound, <<>>}
  /\ UNCHANGED <<caller, ctxOver, cmd, done, closer, exists, library, verdict,
                 bounds>>

CancelContext ==
  /\ ~ctxOver
  /\ ctxOver' = TRUE
  /\ UNCHANGED <<caller, cmd, done, closer, exists, inbound, library, server,
                 bounds>>

-------------------------------------------------------------------------------
SessionInit ==
  /\ at = "ready" /\ kind = "none" /\ then = "none" /\ outcome = "none"
  /\ ctxOver = FALSE /\ closed = FALSE
  /\ cmd = "none" /\ answer = "none" /\ done = "empty"
  /\ decoder = "reading" /\ closer = "none" /\ conn = TRUE /\ exists = FALSE
  /\ inbound = <<>> /\ dropped = FALSE /\ verdict = "none"
  /\ commands = 0 /\ pushes = 0

CallerWaits == \/ TakeResult \/ Deadline \/ SeeClosed \/ GraceEnds
               \/ EndShutdown \/ EndIdle \/ Wake \/ WaitBroken

Caller == Refuse \/ Command \/ Logout \/ Idle \/ Sleep \/ ContextEnds \/ CallerWaits

Decoder == Decode \/ Handle \/ FailPending \/ LeaveDecoder

Server == ServerAnswers \/ ServerPushes \/ ServerDrops

SessionNext == \/ Caller \/ FinishCommand \/ FailToWrite
               \/ CloseClient \/ EndClose \/ Decoder \/ Server \/ CancelContext

SessionSpec == SessionInit /\ [][SessionNext]_cmdVars

\* Goroutines run, timers expire, and the decoder sees a connection that is
\* closed at this end.  The server owes nothing, the caller need not call.
SessionFairness ==
  /\ WF_cmdVars(CallerWaits)
  /\ WF_cmdVars(FinishCommand) /\ WF_cmdVars(FailToWrite)
  /\ WF_cmdVars(CloseClient) /\ WF_cmdVars(EndClose)
  /\ WF_cmdVars(Decoder)

FairSessionSpec == SessionSpec /\ SessionFairness
-------------------------------------------------------------------------------
(* Properties.                                                             *)

\* What MailFetch takes a command to be: an answer is the server's answer to
\* this command and no other, and every other outcome but a context that was
\* over before leaves the session closed.
SessionPromise == INSTANCE SessionContract WITH
  running <- kind # "none",
  closed  <- closed /\ kind = "none",
  result  <- outcome

KeepsSessionContract == SessionPromise!Spec

\* A goroutine that outlives its deadline never runs beside a later command,
\* and the variables fn writes are read only when fn has returned.
CommandsDoNotOverlap ==
  [][ /\ (at' = "select" /\ at # "select" => cmd = "none")
      /\ (outcome' \in {"ok", "rejected"} /\ outcome' # outcome /\ kind # "none"
            => cmd = "none") ]_cmdVars

\* A refusal the client has read is reported as a refusal, also when the server
\* disconnects behind it and do sees the closed connection first: a refused
\* LOGIN taken for a lost connection would be tried again at once.
RefusalIsSeen ==
  [][ kind # "none" /\ kind' = "none" /\ answer = "no"
        => outcome' \in {"rejected", "timeout", "ctx"} ]_cmdVars

\* Every method returns, however silent the server is, and a session that is
\* closed leaves nothing behind: neither its command's goroutine, nor the
\* decoder, nor the goroutine that waits for the decoder.
CallsEndCleanly ==
  /\ at # "ready" ~> at = "ready"
  /\ closed ~> (cmd = "none" /\ decoder = "gone" /\ closer = "done")
===============================================================================
