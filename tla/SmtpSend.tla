------------------------------- MODULE SmtpSend -------------------------------
(***************************************************************************)
(* smtp.Send and its watchdog (smtp.go): two goroutines that meet on an      *)
(* unbuffered channel, a context that may end at any moment, and a server    *)
(* that may refuse, stay silent, drop the connection, or take the mail and   *)
(* lose the answer.  A deadline may expire whenever it is running.           *)
(***************************************************************************)
EXTENDS Naturals, Sequences

CONSTANTS Recipients,  \* number of RCPT commands
          Chunks       \* number of 64 KiB chunks of the body

ASSUME SendAssumption == {Recipients, Chunks} \subseteq Nat \ {0}

VARIABLES pc,        \* where Send is: "start", "arm", "run", "disarm", "check",
                     \* "halt", "wait" or "returned"
          step,      \* index into Steps
          got,       \* what the operation of the step returned
          result,    \* what Send will return
          dog,       \* watchdog: "off", "waiting", "closing" or "exited"
          armed,     \* its timer runs
          expired,   \* w.expired
          quit,      \* channel quit is closed
          ctxDone,   \* the context has ended
          open,      \* the connection is usable
          wire       \* the end mark: "none", "written", "took" or "refused"

sendVars == <<pc, step, got, result, dog, armed, expired, quit, ctxDone, open, wire>>

Steps == <<"ehlo", "auth", "mail">> \o [i \in 1..Recipients |-> "rcpt"]
           \o <<"data">> \o [i \in 1..Chunks |-> "body"]
           \o <<"submission", "quit">>

Step == Steps[step]

LastBodyStep == Len(Steps) - 2

Failure == {"error", "4xx", "5xx"}

-------------------------------------------------------------------------------
(* The watchdog.                                                           *)

\* run, timer.C: remember why, then close the connection and leave.
Expire ==
  /\ dog = "waiting" /\ armed
  /\ expired' = TRUE
  /\ dog' = "closing"
  /\ UNCHANGED <<pc, step, got, result, armed, quit, ctxDone, open, wire>>

\* run, ctx.Done()
NoticeContext ==
  /\ dog = "waiting" /\ ctxDone
  /\ dog' = "closing"
  /\ UNCHANGED <<pc, step, got, result, armed, expired, quit, ctxDone, open, wire>>

CloseConnection ==
  /\ dog = "closing"
  /\ open' = FALSE
  /\ dog' = "exited"
  /\ UNCHANGED <<pc, step, got, result, armed, expired, quit, ctxDone, wire>>

\* run, quit
NoticeQuit ==
  /\ dog = "waiting" /\ quit
  /\ dog' = "exited"
  /\ UNCHANGED <<pc, step, got, result, armed, expired, quit, ctxDone, open, wire>>

-------------------------------------------------------------------------------
(* Send.                                                                   *)

\* Blocks for ever when the watchdog has left.
SetFaulty(running) == dog = "waiting" /\ armed' = running

\* Does not stop the timer at the end of a step.
SetNeverStops(running) ==
  \/ dog = "waiting" /\ armed' = (armed \/ running)
  \/ dog = "exited" /\ UNCHANGED armed

\* set: hand the deadline to the watchdog, or go on if it has left.
Set(running) ==
  \/ dog = "waiting" /\ armed' = running
  \/ dog = "exited" /\ UNCHANGED armed

\* Invalid arguments or an ended context: ErrNotSent without a connection.
\* Otherwise dial (at most 30 s, deaf to the context) and start the watchdog.
Start ==
  /\ pc = "start"
  /\ \/ /\ pc' = "returned" /\ result' = "not_sent"
        /\ UNCHANGED <<dog, open>>
     \/ /\ ~ctxDone
        /\ pc' = "arm" /\ dog' = "waiting" /\ open' = TRUE
        /\ UNCHANGED result
  /\ UNCHANGED <<step, got, armed, expired, quit, ctxDone, wire>>

Arm ==
  /\ pc = "arm"
  /\ Set(TRUE)
  /\ pc' = "run"
  /\ UNCHANGED <<step, got, result, dog, expired, quit, ctxDone, open, wire>>

\* The operation of a step before the submission, or QUIT, returns.  On a
\* closed connection only the buffered writes of the body can still succeed.
RunStep ==
  /\ pc = "run" /\ Step # "submission"
  /\ got' \in (IF open THEN {"ok"} \cup Failure
               ELSE IF Step = "body" THEN {"ok", "error"} ELSE {"error"})
  /\ Step = "body" => got' \in {"ok", "error"}
  /\ pc' = "disarm"
  /\ UNCHANGED <<step, result, dog, armed, expired, quit, ctxDone, open, wire>>

\* CloseWithResponse writes the end mark ...
WriteEndMark ==
  /\ pc = "run" /\ Step = "submission"
  /\ open /\ wire = "none"
  /\ wire' = "written"
  /\ UNCHANGED <<pc, step, got, result, dog, armed, expired, quit, ctxDone, open>>

\* ... the server decides, perhaps after nobody listens any more ...
ServerDecides ==
  /\ wire = "written"
  /\ wire' \in {"took", "refused"}
  /\ UNCHANGED <<pc, step, got, result, dog, armed, expired, quit, ctxDone, open>>

\* ... and CloseWithResponse reads the answer, or fails at any point.
EndSubmission ==
  /\ pc = "run" /\ Step = "submission"
  /\ \/ got' = "error"
     \/ open /\ wire = "took" /\ got' = "ok"
     \/ open /\ wire = "refused" /\ got' \in {"4xx", "5xx"}
  /\ pc' = "disarm"
  /\ UNCHANGED <<step, result, dog, armed, expired, quit, ctxDone, open, wire>>

\* What a failed step makes of the whole; a submission that is cut off is
\* taken for one that never happened.
OutcomeFaulty(s, failure) ==
  CASE s = "submission" /\ failure \in {"4xx", "5xx"} -> "rejected"
    [] s = "auth" /\ failure = "5xx"                  -> "auth"
    [] OTHER                                          -> "not_sent"

\* What a failed step makes of the whole: fail, and the two cases Send decides
\* itself (a 5xx to AUTH, an answer to the submission).
Outcome(s, failure) ==
  CASE s = "submission" /\ failure \in {"4xx", "5xx"} -> "rejected"
    [] s = "submission"                               -> "uncertain"
    [] s = "auth" /\ failure = "5xx"                  -> "auth"
    [] OTHER                                          -> "not_sent"

\* The connection may have been closed by the timer while the body was being
\* buffered: only the context is looked at.
StoppedEarlyFaulty == ctxDone

\* Before the submission: neither the context nor a deadline has ended it.
StoppedEarly == ctxDone \/ expired

\* set(0), and what Send does with the result of the step: give up, check
\* before the submission, go on, or return after QUIT.
Disarm ==
  /\ pc = "disarm"
  /\ Set(FALSE)
  /\ \/ /\ Step = "quit"
        /\ pc' = "halt"
        /\ UNCHANGED <<step, result>>
     \/ /\ Step # "quit" /\ got \in Failure
        /\ result' = Outcome(Step, got)
        /\ pc' = "halt"
        /\ UNCHANGED step
     \/ /\ Step # "quit" /\ got = "ok"
        /\ result' = IF Step = "submission" THEN "ok" ELSE result
        /\ step' = step + 1
        /\ pc' = IF step = LastBodyStep THEN "check" ELSE "arm"
     \/ /\ Step = "ehlo" /\ got = "ok"       \* no AUTH PLAIN over TLS
        /\ result' = "not_sent"
        /\ pc' = "halt"
        /\ UNCHANGED step
  /\ UNCHANGED <<got, dog, expired, quit, ctxDone, open, wire>>

Check ==
  /\ pc = "check"
  /\ IF StoppedEarly
     THEN pc' = "halt" /\ result' = "not_sent"
     ELSE pc' = "arm" /\ UNCHANGED result
  /\ UNCHANGED <<step, got, dog, armed, expired, quit, ctxDone, open, wire>>

\* halt: close quit, wait for the watchdog; then the deferred client.Close().
Halt ==
  /\ pc = "halt"
  /\ quit' = TRUE
  /\ pc' = "wait"
  /\ UNCHANGED <<step, got, result, dog, armed, expired, ctxDone, open, wire>>

Return ==
  /\ pc = "wait" /\ dog = "exited"
  /\ open' = FALSE
  /\ pc' = "returned"
  /\ UNCHANGED <<step, got, result, dog, armed, expired, quit, ctxDone, wire>>

\* The caller's context ends.
EndContext ==
  /\ ~ctxDone
  /\ ctxDone' = TRUE
  /\ UNCHANGED <<pc, step, got, result, dog, armed, expired, quit, open, wire>>

-------------------------------------------------------------------------------
Init ==
  /\ pc = "start" /\ step = 1 /\ got = "ok" /\ result = "none"
  /\ dog = "off" /\ armed = FALSE /\ expired = FALSE /\ quit = FALSE
  /\ ctxDone = FALSE /\ open = FALSE /\ wire = "none"

DogNext == Expire \/ NoticeContext \/ CloseConnection \/ NoticeQuit

SendNext == \/ Start \/ Arm \/ RunStep \/ WriteEndMark \/ EndSubmission
            \/ Disarm \/ Check \/ Halt \/ Return

Next == DogNext \/ SendNext \/ ServerDecides \/ EndContext

Spec == Init /\ [][Next]_sendVars

\* Both goroutines run, timers expire, and an operation on a closed connection
\* returns.  The server owes nobody an answer and the context need not end.
Fairness ==
  /\ WF_sendVars(Expire) /\ WF_sendVars(NoticeContext)
  /\ WF_sendVars(CloseConnection) /\ WF_sendVars(NoticeQuit)
  /\ WF_sendVars(Start) /\ WF_sendVars(Arm) /\ WF_sendVars(Disarm)
  /\ WF_sendVars(Check) /\ WF_sendVars(Halt) /\ WF_sendVars(Return)
  /\ WF_sendVars(~open /\ (RunStep \/ EndSubmission))

FairSpec == Spec /\ Fairness

-------------------------------------------------------------------------------
(* Properties.                                                             *)

\* A context or a deadline that ends before the last body step is over is never
\* reported as an uncertain delivery, although the writes it cut off may have
\* returned success into a buffer: the caller may send again without asking.
EarlyEndIsNotSent ==
  []((ctxDone \/ expired) /\ step <= LastBodyStep =>
       [](wire = "none" /\ result \in {"none", "not_sent", "auth"}))

\* A deadline only ever ends the step it was set for: between two steps, while
\* nothing is being read or written, no timer runs out.
DeadlineBelongsToStep ==
  [][~expired /\ expired' => pc \in {"run", "disarm"}]_sendVars

\* Send returns, however silent the server is and whenever the watchdog leaves:
\* neither side waits for ever on the channel, on quit or on the connection.
\* It leaves neither a goroutine nor a connection behind.
Returns ==
  (pc = "start") ~>
    (pc = "returned" /\ dog \in {"off", "exited"} /\ ~open /\ result # "none")

\* Send keeps its contract: the submission begins with the last deadline set.
Begun == /\ step > LastBodyStep
         /\ pc # "check"
         /\ ~(Step = "submission" /\ pc = "arm")
         /\ result # "not_sent"

Contract == INSTANCE SmtpContract WITH
  begun   <- Begun,
  verdict <- IF wire \in {"took", "refused"} THEN wire ELSE "none"

KeepsContract == Contract!Spec
===============================================================================
