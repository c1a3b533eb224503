----------------------------- MODULE ReplyDispatch ----------------------------
(***************************************************************************)
(* The reply queue in use: the dispatcher process that claims replies and   *)
(* hands them to the agent, the adapter that reports the agent's turns, a    *)
(* user who closes tasks, an operator who settles what a crash left in       *)
(* doubt, and crashes between any two steps.  The store operations are the   *)
(* actions of ReplyStore; the processes around them are not in the source    *)
(* and follow the contracts written on those operations.                     *)
(***************************************************************************)
EXTENDS ReplyStore

CONSTANTS MaxCrashes,    \* bound: crashes of the dispatcher
          MaxUnsent,     \* bound: hand-overs that fail without a crash
          MaxApprovals   \* bound: approvals the agent asks for

ASSUME DispatchAssumption ==
  /\ MaxCrashes \in Nat /\ MaxUnsent \in Nat /\ MaxApprovals \in Nat

VARIABLES up,        \* the dispatcher runs
          job,       \* per task, what the dispatcher knows of its hand-over
          received,  \* per reply, how often the agent got its body
          agent,     \* per task, "idle", "busy" or "asking" for an approval
          crashes, unsent, approvals

dispatchVars == <<up, job, received, agent, crashes, unsent, approvals>>
allVars == <<vars, dispatchVars>>

NoJob == [at |-> "none", seq |-> 0]

-------------------------------------------------------------------------------
(* The dispatcher.                                                         *)

\* Before its first claim a new dispatcher calls RecoverInFlight.
StartDispatcher ==
  /\ ~up
  /\ up' = TRUE
  /\ IF \E s \in Seqs : replies[s].state = "DISPATCHING"
     THEN RecoverInFlight
     ELSE UNCHANGED vars
  /\ UNCHANGED <<job, received, agent, crashes, unsent, approvals>>

Claim(t) ==
  /\ up
  /\ job[t] = NoJob
  /\ ClaimNextReply(t)
  /\ \E s \in RepliesIn(t, {"QUEUED"}) :
       /\ replies'[s].state = "DISPATCHING"
       /\ job' = [job EXCEPT ![t] = [at |-> "claimed", seq |-> s]]
  /\ UNCHANGED <<up, received, agent, crashes, unsent, approvals>>

\* The agent takes the body and starts a turn.
Receive(ts) ==
  /\ received' = [s \in 1..MaxReplies |->
                    IF \E t \in ts : job[t].seq = s THEN received[s] + 1
                                                    ELSE received[s]]
  /\ agent' = [t \in Tasks |-> IF t \in ts THEN "busy" ELSE agent[t]]

\* Handing over a claimed body either reaches the agent and is confirmed,
\* provably does not reach it, or leaves the dispatcher without an answer.
HandOver(t) ==
  /\ job[t].at = "claimed"
  /\ \/ /\ Receive({t})
        /\ job' = [job EXCEPT ![t].at = "sent"]
        /\ UNCHANGED unsent
     \/ /\ Receive({t})
        /\ job' = [job EXCEPT ![t].at = "unknown"]
        /\ UNCHANGED unsent
     \/ /\ unsent < MaxUnsent
        /\ unsent' = unsent + 1
        /\ \E at \in {"unsent", "unknown"} : job' = [job EXCEPT ![t].at = at]
        /\ UNCHANGED <<received, agent>>
  /\ UNCHANGED <<vars, up, crashes, approvals>>

\* The dispatcher records the outcome.
Report(t) ==
  /\ \/ job[t].at = "sent" /\ AcknowledgeReply(job[t].seq)
     \/ job[t].at = "unsent" /\ RequeueUnsentReply(job[t].seq)
     \/ job[t].at = "unknown" /\ MarkReplyUncertain(job[t].seq)
  /\ job' = [job EXCEPT ![t] = NoJob]
  /\ UNCHANGED <<up, received, agent, crashes, unsent, approvals>>

\* A crash forgets every job; a body being handed over may have got through.
Crash ==
  /\ up
  /\ crashes < MaxCrashes
  /\ crashes' = crashes + 1
  /\ up' = FALSE
  /\ job' = [t \in Tasks |-> NoJob]
  /\ \E ts \in SUBSET {t \in Tasks : job[t].at = "claimed"} : Receive(ts)
  /\ UNCHANGED <<vars, unsent, approvals>>

-------------------------------------------------------------------------------
(* Everyone else.                                                          *)

RecordMail(m, readable) == RecordReply(m, readable) /\ UNCHANGED dispatchVars

NewTask(t) == CreateTask(t) /\ UNCHANGED dispatchVars

\* A caller whose snapshot is stale is refused and reads again, so an event
\* that is applied carries the version current then (SnapshotIsCurrent).
Apply(t, event) == ApplyTaskEvent(t, version[t], event)

StartTurn(t) ==
  /\ StartTask(t, version[t])
  /\ agent' = [agent EXCEPT ![t] = "busy"]
  /\ UNCHANGED <<up, job, received, crashes, unsent, approvals>>

\* The adapter records the end of a turn.
EndTurn(t) ==
  /\ agent[t] = "busy"
  /\ \E e \in {"turn_completed", "input_requested"} : Apply(t, e)
  /\ agent' = [agent EXCEPT ![t] = "idle"]
  /\ UNCHANGED <<up, job, received, crashes, unsent, approvals>>

AskApproval(t) ==
  /\ agent[t] = "busy"
  /\ approvals < MaxApprovals
  /\ Apply(t, "approval_requested")
  /\ agent' = [agent EXCEPT ![t] = "asking"]
  /\ approvals' = approvals + 1
  /\ UNCHANGED <<up, job, received, crashes, unsent>>

GetApproval(t) ==
  /\ agent[t] = "asking"
  /\ Apply(t, "approval_resolved")
  /\ agent' = [agent EXCEPT ![t] = "busy"]
  /\ UNCHANGED <<up, job, received, crashes, unsent, approvals>>

StopTask(t) ==
  /\ \E e \in {"fail", "close"} : Apply(t, e)
  /\ UNCHANGED dispatchVars

\* The reply at the head of the queue cannot be opened: ClaimNextReply fails and
\* nothing behind it is claimed until someone steps in.
Blocked(t) ==
  /\ CanDispatchReply(taskState[t])
  /\ InFlight(t) = {}
  /\ \E s \in HeadOfQueue(t) : ~Readable(s)

\* The operator looks at the agent's session and reports what is there.
Settle(s) ==
  /\ ResolveUncertainReply(s, received[s] > 0)
  /\ UNCHANGED dispatchVars

-------------------------------------------------------------------------------
DispatchInit ==
  /\ Init
  /\ up = FALSE
  /\ job = [t \in Tasks |-> NoJob]
  /\ received = [s \in 1..MaxReplies |-> 0]
  /\ agent = [t \in Tasks |-> "idle"]
  /\ crashes = 0 /\ unsent = 0 /\ approvals = 0

DispatcherNext ==
  \/ StartDispatcher
  \/ \E t \in Tasks : Claim(t) \/ HandOver(t) \/ Report(t)
  \/ Crash

OthersNext ==
  \/ \E m \in Mails, readable \in BOOLEAN : RecordMail(m, readable)
  \/ \E t \in Tasks : NewTask(t) \/ StartTurn(t) \/ EndTurn(t)
                      \/ AskApproval(t) \/ GetApproval(t) \/ StopTask(t)
  \/ \E s \in Seqs : Settle(s)

DispatchNext == DispatcherNext \/ OthersNext

DispatchSpec == DispatchInit /\ [][DispatchNext]_allVars

\* The dispatcher keeps running and is restarted, the adapter reports every
\* turn the agent ends, and the operator answers and stops a task whose queue
\* is blocked by a body that cannot be opened: the store offers nothing else to
\* remove it (the manual handling that ClaimNextReply's comment asks for).
\* Nobody has to write mail, start or approve anything that was not asked for,
\* or stop a task that is not blocked.
Fairness ==
  /\ WF_allVars(StartDispatcher)
  /\ \A t \in Tasks : /\ WF_allVars(Claim(t))
                      /\ WF_allVars(HandOver(t))
                      /\ WF_allVars(Report(t))
                      /\ WF_allVars(EndTurn(t))
                      /\ WF_allVars(GetApproval(t))
                      /\ WF_allVars(Blocked(t) /\ StopTask(t))
  /\ \A s \in 1..MaxReplies : WF_allVars(s \in Seqs /\ Settle(s))

FairDispatchSpec == DispatchSpec /\ Fairness

-------------------------------------------------------------------------------
(* Properties.                                                             *)

\* No sequence of crashes, lost answers, recoveries and put-backs hands the
\* same reply to the agent twice, and no copy of a mail found later (in Junk,
\* or after a rebuild of the mailbox) reaches the agent as another reply.
AtMostOnce ==
  /\ \A s \in 1..MaxReplies : received[s] <= 1
  /\ \A s, q \in Seqs : /\ received[s] > 0 /\ received[q] > 0
                         /\ replies[s].mail.id = replies[q].mail.id
                         => s = q

\* The final state of a reply is the truth about it: acknowledged replies did
\* reach the agent and rejected ones did not.
FinalStateIsTrue ==
  \A s \in Seqs : /\ replies[s].state = "ACKNOWLEDGED" => received[s] = 1
                  /\ replies[s].state = "REJECTED" => received[s] = 0

\* An agent in the middle of a turn is never given another reply.
NeverInterrupts ==
  [][\A s \in Seqs : received'[s] # received[s] =>
       agent[replies[s].mail.task] = "idle"]_allVars

\* The truth can always be recorded: when a reply in flight never reached the
\* agent, putBack does not refuse it (task.ErrInvalidTransition), so no reply
\* is stuck between a store that rejects "unsent" and a lie.
TruthIsAccepted ==
  \A s \in Seqs :
    LET t == replies[s].mail.task
    IN  /\ replies[s].state \in ReplyInFlight
        /\ received[s] = 0
        /\ AcceptsReplies(taskState[t])
        => /\ UntouchedSinceDispatch(t, replies[s].state)
           /\ CanResume(taskState[t], replies[s].resume)

\* Every reply that enters the queue is acknowledged or rejected in the end,
\* and a task never stays in DELIVERY_UNCERTAIN.  A body that cannot be opened
\* holds up its queue for as long as its task lives; failing or closing the task
\* is then enough to end every reply behind it as well.
EveryReplyEnds ==
  \A s \in 1..MaxReplies :
    (s \in Seqs) ~> (s \in Seqs /\ replies[s].state \in ReplyTerminal)
===============================================================================
