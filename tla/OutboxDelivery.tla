---------------------------- MODULE OutboxDelivery ----------------------------
(***************************************************************************)
(* The outbox in use: the one sender process claims notifications, submits  *)
(* them over SMTP and records the outcome; the server may accept a mail      *)
(* without its answer arriving; an operator settles UNCERTAIN notifications  *)
(* from the mailbox and may abandon anything at any time; the sender crashes *)
(* anywhere.  The store operations are those of Outbox; an SMTP session is   *)
(* the contract of smtp.Send (SmtpSend shows the code keeps it); sender and  *)
(* operator are not in the source and follow the operations' comments.       *)
(***************************************************************************)
EXTENDS Outbox

CONSTANT MaxFaults     \* bound: crashes, unanswered submissions and
                       \* notifications abandoned by hand, taken together

ASSUME DeliveryAssumption == MaxFaults \in Nat

VARIABLES up,        \* the sender runs
          smtp,      \* its SMTP session: notification and phase
          accepted,  \* per notification, how often the server accepted it
          faults

senderVars == <<up, smtp, accepted, faults>>
deliveryVars == <<outboxVars, senderVars>>

Fault == faults < MaxFaults /\ faults' = faults + 1

NoSession == [id |-> 0, at |-> "none"]

-------------------------------------------------------------------------------
(* The sender.                                                             *)

\* Before it sends anything a new sender calls RecoverSendingNotifications.
StartSender ==
  /\ ~up
  /\ up' = TRUE
  /\ RecoverSendingNotifications
  /\ UNCHANGED <<smtp, accepted, faults>>

BeginNext ==
  /\ up /\ smtp = NoSession
  /\ BeginClaim
  /\ UNCHANGED senderVars

EndNext ==
  /\ up
  /\ EndClaim
  /\ LET claimed == {i \in Ids : notes[i].state = "PENDING" /\ notes'[i].state = "SENDING"}
     IN  smtp' = IF claimed = {} THEN NoSession
                 ELSE [id |-> CHOOSE i \in claimed : TRUE, at |-> "open"]
  /\ UNCHANGED <<up, accepted, faults>>

\* smtp.Send up to the submission: it fails before (ErrNotSent) or goes on.
Proceed ==
  /\ smtp.at = "open"
  /\ \E at \in {"not_sent", "submitting"} : smtp' = [smtp EXCEPT !.at = at]
  /\ UNCHANGED <<outboxVars, up, accepted, faults>>

\* The submission: accepted and confirmed, refused for now or for good
\* (ErrRejected), or unanswered (ErrUncertain) and either accepted or not.
Submit ==
  /\ smtp.at = "submitting"
  /\ \E at \in {"accepted", "refused_for_now", "refused", "unknown"},
        counts \in BOOLEAN :
       /\ at = "accepted" => counts
       /\ at \in {"refused_for_now", "refused"} => ~counts
       /\ IF at = "unknown" THEN Fault ELSE UNCHANGED faults
       /\ smtp' = [smtp EXCEPT !.at = at]
       /\ accepted' = IF counts THEN [accepted EXCEPT ![smtp.id] = @ + 1]
                                ELSE accepted
  /\ UNCHANGED <<outboxVars, up>>

\* The outcome is recorded, unless the operator abandoned the notification
\* meanwhile and the store refuses.
RecordOutcome ==
  /\ \/ smtp.at = "accepted" /\ MarkNotificationSent(smtp.id)
     \/ smtp.at = "refused" /\ notes[smtp.id].state = "SENDING"
        /\ AbandonNotification(smtp.id, "rejected")
     \/ /\ smtp.at \in {"not_sent", "refused_for_now"}
        /\ \E d \in Delays : RequeueNotification(smtp.id, d)
     \/ smtp.at = "unknown" /\ MarkNotificationUncertain(smtp.id)
     \/ /\ smtp.at \notin {"none", "open", "submitting"}
        /\ notes[smtp.id].state # "SENDING"
        /\ UNCHANGED outboxVars
  /\ smtp' = NoSession
  /\ UNCHANGED <<up, accepted, faults>>

\* A crash ends the session wherever it is; a claim that was between its two
\* transactions is forgotten.
Crash ==
  /\ up
  /\ Fault
  /\ up' = FALSE
  /\ smtp' = NoSession
  /\ claiming' = FALSE
  /\ \/ UNCHANGED accepted
     \/ smtp.at = "submitting" /\ accepted' = [accepted EXCEPT ![smtp.id] = @ + 1]
  /\ UNCHANGED <<closed, notes, contents, now>>

-------------------------------------------------------------------------------
(* Everyone else.                                                          *)

\* Bound: the clock reaches the expiry of every token.
Notify(t) ==
  /\ \E ttl \in TTLs, r \in BOOLEAN : /\ now + ttl <= MaxTime
                                      /\ CreateNotification(t, ttl, r)
  /\ UNCHANGED senderVars

Close(t) == CloseTask(t) /\ UNCHANGED senderVars

\* The operator looks into the mailbox and reports what is there.
Settle(i) ==
  /\ ResolveUncertainNotification(i, accepted[i] > 0)
  /\ UNCHANGED senderVars

GiveUp(i) ==
  /\ Fault
  /\ AbandonNotification(i, "manual")
  /\ UNCHANGED <<up, smtp, accepted>>

\* The watcher sees the mail in the mailbox, under the id it got on its way.
SeeDelivered(i) ==
  /\ accepted[i] > 0
  /\ \E id \in MessageIds : RecordDeliveredMessageID(i, id)
  /\ UNCHANGED senderVars

TimePasses == Tick /\ UNCHANGED senderVars

-------------------------------------------------------------------------------
DeliveryInit ==
  /\ OutboxInit
  /\ up = FALSE
  /\ smtp = NoSession
  /\ accepted = [i \in 1..MaxNotes |-> 0]
  /\ faults = 0

SenderNext ==
  StartSender \/ BeginNext \/ EndNext \/ Proceed \/ Submit \/ RecordOutcome \/ Crash

DeliveryNext ==
  \/ SenderNext
  \/ \E t \in Tasks : Notify(t) \/ Close(t)
  \/ \E i \in Ids : Settle(i) \/ GiveUp(i) \/ SeeDelivered(i)
  \/ TimePasses

DeliverySpec == DeliveryInit /\ [][DeliveryNext]_deliveryVars

\* The sender is restarted and keeps polling, sessions end (SmtpSend), time
\* passes and the operator answers.  Nobody has to notify, close or give up.
Fairness ==
  /\ WF_deliveryVars(StartSender)
  /\ WF_deliveryVars(BeginNext) /\ WF_deliveryVars(EndNext)
  /\ WF_deliveryVars(Proceed) /\ WF_deliveryVars(Submit)
  /\ WF_deliveryVars(RecordOutcome)
  /\ WF_deliveryVars(TimePasses)
  /\ \A i \in 1..MaxNotes : WF_deliveryVars(i \in Ids /\ Settle(i))

FairDeliverySpec == DeliverySpec /\ Fairness

-------------------------------------------------------------------------------
(* Properties.                                                             *)

\* No combination of lost answers, crashes, recovery, resolutions and manual
\* abandonment delivers a notification twice.
DeliveredAtMostOnce == \A i \in 1..MaxNotes : accepted[i] <= 1

\* The final state tells the truth: SENT was accepted by the server, and
\* ABANDONED was not unless a person gave it up by hand.
OutcomeIsTrue ==
  \A i \in Ids :
    /\ notes[i].state = "SENT" => accepted[i] = 1
    /\ notes[i].state = "ABANDONED" /\ notes[i].reason # "manual" => accepted[i] = 0

\* Every notification is sent or abandoned in the end, also when its content
\* cannot be opened and blocks the queue until its token expires.
EveryNotificationEnds ==
  \A i \in 1..MaxNotes :
    (i \in Ids) ~> (i \in Ids /\ notes[i].state \in OutboxTerminal)
===============================================================================
