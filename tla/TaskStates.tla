------------------------------ MODULE TaskStates ------------------------------
(***************************************************************************)
(* The task state machine of internal/task/state.go: the transition table, *)
(* the "not delivered" return path and the two predicates about replies.   *)
(***************************************************************************)

TaskState == {"CREATED", "RUNNING", "WAITING_INPUT", "WAITING_APPROVAL",
              "COMPLETED", "FAILED", "DELIVERY_UNCERTAIN", "CLOSED"}

TaskEvent == {"start", "turn_completed", "input_requested",
              "approval_requested", "approval_resolved", "reply_dispatched",
              "delivery_unknown", "delivery_confirmed", "fail", "close"}

\* The only source of transitions; an absent event is an invalid transition.
TaskTransitions ==
  [CREATED            |-> [start |-> "RUNNING", fail |-> "FAILED",
                           close |-> "CLOSED"],
   RUNNING            |-> [turn_completed     |-> "COMPLETED",
                           input_requested    |-> "WAITING_INPUT",
                           approval_requested |-> "WAITING_APPROVAL",
                           fail               |-> "FAILED",
                           delivery_unknown   |-> "DELIVERY_UNCERTAIN",
                           close              |-> "CLOSED"],
   WAITING_INPUT      |-> [reply_dispatched |-> "RUNNING", fail |-> "FAILED",
                           close |-> "CLOSED"],
   WAITING_APPROVAL   |-> [approval_resolved |-> "RUNNING", fail |-> "FAILED",
                           close |-> "CLOSED"],
   COMPLETED          |-> [reply_dispatched |-> "RUNNING", close |-> "CLOSED"],
   FAILED             |-> [close |-> "CLOSED"],
   DELIVERY_UNCERTAIN |-> [delivery_confirmed |-> "RUNNING",
                           close |-> "CLOSED"],
   CLOSED             |-> [e \in {} |-> "CLOSED"]]

TaskAllows(from, event) ==
  from \in TaskState /\ event \in DOMAIN TaskTransitions[from]

TaskNextFaulty(from, event) ==
  IF event = "delivery_unknown" THEN "COMPLETED" ELSE TaskTransitions[from][event]

TaskNext(from, event) == TaskTransitions[from][event]

\* The state a task returns to when its reply provably never reached the
\* agent: from RUNNING (failed while dispatching) or DELIVERY_UNCERTAIN.
CanResume(from, resume) ==
  /\ from \in {"RUNNING", "DELIVERY_UNCERTAIN"}
  /\ resume \in {"COMPLETED", "WAITING_INPUT"}

AcceptsReplies(s) ==
  s \in {"RUNNING", "WAITING_INPUT", "WAITING_APPROVAL", "COMPLETED",
         "DELIVERY_UNCERTAIN"}

CanDispatchReply(s) == s \in {"COMPLETED", "WAITING_INPUT"}
===============================================================================
