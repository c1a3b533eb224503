------------------------------ MODULE QueueStates -----------------------------
(***************************************************************************)
(* The two queue state machines of internal/queue: replies waiting for the *)
(* agent (state.go) and notifications waiting for SMTP (outbox.go).        *)
(***************************************************************************)

ReplyState == {"QUEUED", "DISPATCHING", "UNCERTAIN", "ACKNOWLEDGED",
               "REJECTED"}

ReplyTransitions ==
  [QUEUED       |-> [claim |-> "DISPATCHING", reject |-> "REJECTED"],
   DISPATCHING  |-> [acknowledge |-> "ACKNOWLEDGED",
                     mark_uncertain |-> "UNCERTAIN",
                     requeue |-> "QUEUED", reject |-> "REJECTED"],
   UNCERTAIN    |-> [acknowledge |-> "ACKNOWLEDGED", requeue |-> "QUEUED",
                     reject |-> "REJECTED"],
   ACKNOWLEDGED |-> [e \in {} |-> "ACKNOWLEDGED"],
   REJECTED     |-> [e \in {} |-> "REJECTED"]]

ReplyNextFaulty(from, event) ==
  IF event = "mark_uncertain" THEN "QUEUED" ELSE ReplyTransitions[from][event]

ReplyNext(from, event) == ReplyTransitions[from][event]

\* The states whose body the triggers of 0002_mail.sql delete.
ReplyTerminal == {"ACKNOWLEDGED", "REJECTED"}

ReplyInFlight == {"DISPATCHING", "UNCERTAIN"}

OutboxState == {"PENDING", "SENDING", "UNCERTAIN", "SENT", "ABANDONED"}

OutboxTransitions ==
  [PENDING   |-> [claim |-> "SENDING", abandon |-> "ABANDONED"],
   SENDING   |-> [delivered |-> "SENT", mark_uncertain |-> "UNCERTAIN",
                  requeue |-> "PENDING", abandon |-> "ABANDONED"],
   UNCERTAIN |-> [delivered |-> "SENT", requeue |-> "PENDING",
                  abandon |-> "ABANDONED"],
   SENT      |-> [e \in {} |-> "SENT"],
   ABANDONED |-> [e \in {} |-> "ABANDONED"]]

OutboxAllows(from, event) ==
  from \in OutboxState /\ event \in DOMAIN OutboxTransitions[from]

OutboxNextFaulty(from, event) ==
  IF event = "mark_uncertain" THEN "PENDING" ELSE OutboxTransitions[from][event]

OutboxNext(from, event) == OutboxTransitions[from][event]

OutboxTerminal == {"SENT", "ABANDONED"}
===============================================================================
