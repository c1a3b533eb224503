------------------------------ MODULE ReplyStore ------------------------------
(***************************************************************************)
(* Tasks and their reply queue in the SQLite store (tasks.go, replies.go).  *)
(*                                                                         *)
(* Every exported method is one IMMEDIATE transaction, so every action is   *)
(* one method, called by any process in any order; a failing method rolls   *)
(* back and is a stutter.  Callers keep the version they last read and act  *)
(* on it later, after other processes have moved the task.                  *)
(***************************************************************************)
EXTENDS TaskStates, QueueStates, Naturals, Sequences

CONSTANTS Tasks,        \* task ids
          Mails,        \* authenticated mails: [place, id, digest, task]
          Callers,      \* processes that act on a task version read earlier
          MaxReplies,   \* bound: rows of table replies
          MaxVersion    \* bound: version of a task

NoTask == "absent"

ASSUME StoreAssumption ==
  /\ MaxReplies \in Nat
  /\ MaxVersion \in Nat
  /\ NoTask \notin Tasks
  /\ \A m \in Mails : m.task \in Tasks

VARIABLES taskState,    \* tasks.state, NoTask before CreateTask
          version,      \* tasks.version
          session,      \* tasks.session_id is set
          recent,       \* the newest two rows of task_events of the task
          replies,      \* table replies joined with inbound_messages, by seq
          bodies,       \* seqs that have a row in reply_payloads
          seen,         \* the task snapshot a caller holds
          dispatchedAt  \* history: task version its last dispatch wrote

taskVars  == <<taskState, version, session, recent>>
replyVars == <<replies, bodies, dispatchedAt>>
vars == <<taskState, version, session, recent, replies, bodies, seen,
          dispatchedAt>>

NoState  == "none"
NoEvent  == "none"
NoReason == "none"

ManualEvent == {"turn_completed", "input_requested", "approval_requested",
                "approval_resolved", "fail", "close"}

RejectReason == {"task_not_accepting", "task_failed", "task_closed"}

Reply == [mail     : Mails,
          state    : ReplyState,
          resume   : {NoState, "COMPLETED", "WAITING_INPUT"},
          reason   : RejectReason \cup {NoReason},
          readable : BOOLEAN]   \* the dispatcher's payload key opens the body

EventName == TaskEvent \cup {"reply_unsent", NoEvent}

Seqs == DOMAIN replies

RepliesOf(t) == {s \in Seqs : replies[s].mail.task = t}

RepliesIn(t, states) == {s \in RepliesOf(t) : replies[s].state \in states}

\* The reply at the head of the queue of task t, if there is one.
HeadOfQueue(t) ==
  {s \in RepliesIn(t, {"QUEUED"}) : \A q \in RepliesIn(t, {"QUEUED"}) : s <= q}

\* openPayload succeeds: the body is there and the key opens it.
Readable(s) == s \in bodies /\ replies[s].readable

-------------------------------------------------------------------------------
(* Building blocks shared by the transactions.                             *)

\* Definitions named ...Faulty are wrong variants of the definition that follows
\* them; a property that cannot tell the two apart would say nothing.

\* Only events that come from a caller bump the version.
WriteTaskTransitionFaulty(t, event, to) ==
  /\ version[t] < MaxVersion
  /\ taskState' = [taskState EXCEPT ![t] = to]
  /\ version' = [version EXCEPT ![t] = IF event \in ManualEvent THEN @ + 1 ELSE @]
  /\ recent' = [recent EXCEPT ![t] = [before |-> @.last, last |-> event]]

\* writeTaskTransition: bump the version and append the event.
WriteTaskTransition(t, event, to) ==
  /\ version[t] < MaxVersion
  /\ taskState' = [taskState EXCEPT ![t] = to]
  /\ version' = [version EXCEPT ![t] = @ + 1]
  /\ recent' = [recent EXCEPT ![t] = [before |-> @.last, last |-> event]]

KeepTask == UNCHANGED <<taskState, version, recent>>

\* updateReply; the trigger replies_drop_payload deletes the body of a reply
\* that becomes terminal.
UpdateReply(s, reply) ==
  /\ replies' = [replies EXCEPT ![s] = reply]
  /\ bodies' = IF reply.state \in ReplyTerminal THEN bodies \ {s} ELSE bodies

\* The reason recorded on a reply that the task's state refuses.
ReasonFor(state) ==
  CASE state = "FAILED" -> "task_failed"
    [] state = "CLOSED" -> "task_closed"
    [] OTHER            -> "task_not_accepting"

\* Rejects what is already with the agent as well.
SweptFaulty(t) == RepliesIn(t, {"QUEUED", "DISPATCHING", "UNCERTAIN"})

\* The replies that fail and close reject.
Swept(t) == RepliesIn(t, {"QUEUED"})

RejectQueued(t, reason) ==
  LET queued == Swept(t)
  IN  /\ replies' = [s \in Seqs |->
                       IF s \in queued
                       THEN [replies[s] EXCEPT
                               !.state = ReplyNext("QUEUED", "reject"),
                               !.reason = reason]
                       ELSE replies[s]]
      /\ bodies' = bodies \ queued

\* Looks at the newest event only.
UntouchedSinceDispatchFaulty(t, from) ==
  \/ from = "DISPATCHING" /\ recent[t].last = "reply_dispatched"
  \/ from = "UNCERTAIN" /\ recent[t].last = "delivery_unknown"

UntouchedForgetsMark(t, from) == recent[t].last = "reply_dispatched"

\* eventsSinceDispatch: nothing has happened to the task since the dispatch
\* except what marking the reply uncertain wrote.
UntouchedSinceDispatch(t, from) ==
  \/ /\ from = "DISPATCHING"
     /\ recent[t].last = "reply_dispatched"
  \/ /\ from = "UNCERTAIN"
     /\ recent[t] = [before |-> "reply_dispatched", last |-> "delivery_unknown"]

-------------------------------------------------------------------------------
(* tasks.go                                                                *)

CreateTask(t) ==
  /\ taskState[t] = NoTask
  /\ taskState' = [taskState EXCEPT ![t] = "CREATED"]
  /\ version' = [version EXCEPT ![t] = 1]
  /\ UNCHANGED <<session, recent, replies, bodies, seen, dispatchedAt>>

\* GetTask, and the snapshot every other operation returns.
ReadTask(c, t) ==
  /\ taskState[t] # NoTask
  /\ seen' = [seen EXCEPT ![c] = [task |-> t, version |-> version[t],
                                  state |-> taskState[t]]]
  /\ UNCHANGED <<taskVars, replyVars>>

\* The version comparison precedes the state machine: ErrVersionConflict.
Current(t, v) == t \in Tasks /\ v = version[t]

StartTask(t, v) ==
  /\ Current(t, v)
  /\ TaskAllows(taskState[t], "start")
  /\ WriteTaskTransition(t, "start", TaskNext(taskState[t], "start"))
  /\ session' = [session EXCEPT ![t] = TRUE]
  /\ UNCHANGED <<replyVars, seen>>

SweepEventsFaulty == {"close"}

\* rejectReasons: the events that sweep the queue of the task.
SweepEvents == {"fail", "close"}

ApplyTaskEvent(t, v, event) ==
  /\ event \in ManualEvent
  /\ Current(t, v)
  /\ TaskAllows(taskState[t], event)
  /\ WriteTaskTransition(t, event, TaskNext(taskState[t], event))
  /\ IF event \in SweepEvents
     THEN RejectQueued(t, ReasonFor(TaskNext(taskState[t], event)))
     ELSE UNCHANGED <<replies, bodies>>
  /\ UNCHANGED <<session, seen, dispatchedAt>>

-------------------------------------------------------------------------------
(* replies.go                                                              *)

\* Looks the place up only, so a copy in another mailbox is a new mail.
FirstSeenFaulty(m) == \A s \in Seqs : replies[s].mail.place # m.place

\* Both lookups of RecordReply miss.  A hit is a duplicate (nothing written)
\* or ErrMessageConflict (rolled back); the same columns carry UNIQUE
\* constraints.
FirstSeen(m) ==
  \A s \in Seqs : /\ replies[s].mail.place # m.place
                  /\ replies[s].mail.id # m.id

RecordReply(m, readable) ==
  LET t == m.task
      n == Len(replies) + 1
  IN  /\ taskState[t] # NoTask
      /\ FirstSeen(m)
      /\ n <= MaxReplies
      /\ IF AcceptsReplies(taskState[t])
         THEN /\ replies' = Append(replies, [mail |-> m, state |-> "QUEUED",
                                   resume |-> NoState, reason |-> NoReason,
                                   readable |-> readable])
              /\ bodies' = bodies \cup {n}
         ELSE /\ replies' = Append(replies, [mail |-> m,
                                   state |-> ReplyNext("QUEUED", "reject"),
                                   resume |-> NoState,
                                   reason |-> ReasonFor(taskState[t]),
                                   readable |-> FALSE])
              /\ UNCHANGED bodies
      /\ UNCHANGED <<taskVars, seen, dispatchedAt>>

\* Forgets the replies whose outcome is unknown.
InFlightFaulty(t) == RepliesIn(t, {"DISPATCHING"})

InFlight(t) == RepliesIn(t, ReplyInFlight)

\* Only an idle task with nothing in flight, and only the oldest queued reply.
\* A body that is missing or cannot be opened (ErrPayloadMissing,
\* ErrPayloadKeyUnavailable, payload.ErrDecrypt) claims nothing, and the reply
\* stays at the head of the queue.
ClaimNextReply(t) ==
  /\ CanDispatchReply(taskState[t])
  /\ InFlight(t) = {}
  /\ \E s \in HeadOfQueue(t) :
       /\ Readable(s)
       /\ UpdateReply(s, [replies[s] EXCEPT
                            !.state = ReplyNext("QUEUED", "claim"),
                            !.resume = taskState[t]])
       /\ dispatchedAt' = [dispatchedAt EXCEPT ![s] = version[t] + 1]
  /\ WriteTaskTransition(t, "reply_dispatched",
                         TaskNext(taskState[t], "reply_dispatched"))
  /\ UNCHANGED <<session, seen>>

AcknowledgeReply(s) ==
  /\ replies[s].state = "DISPATCHING"
  /\ UpdateReply(s, [replies[s] EXCEPT
                       !.state = ReplyNext("DISPATCHING", "acknowledge")])
  /\ UNCHANGED <<taskVars, seen, dispatchedAt>>

MarkReplyUncertain(s) ==
  LET t == replies[s].mail.task
  IN  /\ replies[s].state = "DISPATCHING"
      /\ UpdateReply(s, [replies[s] EXCEPT
                           !.state = ReplyNext("DISPATCHING", "mark_uncertain")])
      /\ IF taskState[t] = "RUNNING"
         THEN WriteTaskTransition(t, "delivery_unknown",
                                  TaskNext("RUNNING", "delivery_unknown"))
         ELSE KeepTask
      /\ UNCHANGED <<session, seen, dispatchedAt>>

\* putBack: a reply that never reached the agent returns to its old place, or
\* is rejected when the task stopped accepting replies meanwhile.
PutBack(s, from) ==
  LET t == replies[s].mail.task
  IN  /\ replies[s].state = from
      /\ \/ /\ ~AcceptsReplies(taskState[t])
            /\ UpdateReply(s, [replies[s] EXCEPT
                                 !.state = ReplyNext(from, "reject"),
                                 !.reason = ReasonFor(taskState[t])])
            /\ KeepTask
         \/ /\ AcceptsReplies(taskState[t])
            /\ UntouchedSinceDispatch(t, from)
            /\ CanResume(taskState[t], replies[s].resume)
            /\ UpdateReply(s, [replies[s] EXCEPT
                                 !.state = ReplyNext(from, "requeue"),
                                 !.resume = NoState])
            /\ WriteTaskTransition(t, "reply_unsent", replies[s].resume)
      /\ UNCHANGED <<session, seen, dispatchedAt>>

RequeueUnsentReply(s) == PutBack(s, "DISPATCHING")

ConfirmDeliveryFaulty(t) == KeepTask

\* delivery_confirmed, unless the task moved on by itself or was closed.
ConfirmDelivery(t) ==
  IF taskState[t] = "DELIVERY_UNCERTAIN"
  THEN WriteTaskTransition(t, "delivery_confirmed",
                           TaskNext(taskState[t], "delivery_confirmed"))
  ELSE KeepTask

ResolveUncertainReply(s, delivered) ==
  \/ ~delivered /\ PutBack(s, "UNCERTAIN")
  \/ /\ delivered
     /\ replies[s].state = "UNCERTAIN"
     /\ UpdateReply(s, [replies[s] EXCEPT
                          !.state = ReplyNext("UNCERTAIN", "acknowledge")])
     /\ ConfirmDelivery(replies[s].mail.task)
     /\ UNCHANGED <<session, seen, dispatchedAt>>

\* At start-up, in one transaction, every DISPATCHING reply becomes UNCERTAIN
\* and its RUNNING task DELIVERY_UNCERTAIN.  A task has at most one of them.
RecoverInFlight ==
  LET dispatching == {s \in Seqs : replies[s].state = "DISPATCHING"}
      lost == {t \in Tasks : /\ taskState[t] = "RUNNING"
                             /\ \E s \in dispatching : replies[s].mail.task = t}
  IN  /\ dispatching # {}
      /\ \A t \in lost : version[t] < MaxVersion
      /\ replies' = [s \in Seqs |->
                       IF s \in dispatching
                       THEN [replies[s] EXCEPT
                         !.state = ReplyNext("DISPATCHING", "mark_uncertain")]
                       ELSE replies[s]]
      /\ taskState' = [t \in Tasks |->
                         IF t \in lost THEN TaskNext("RUNNING", "delivery_unknown")
                                       ELSE taskState[t]]
      /\ version' = [t \in Tasks |-> IF t \in lost THEN version[t] + 1
                                                   ELSE version[t]]
      /\ recent' = [t \in Tasks |->
                      IF t \in lost THEN [before |-> recent[t].last,
                                          last |-> "delivery_unknown"]
                                    ELSE recent[t]]
      /\ UNCHANGED <<session, bodies, seen, dispatchedAt>>

-------------------------------------------------------------------------------
Init ==
  /\ taskState = [t \in Tasks |-> NoTask]
  /\ version = [t \in Tasks |-> 0]
  /\ session = [t \in Tasks |-> FALSE]
  /\ recent = [t \in Tasks |-> [before |-> NoEvent, last |-> NoEvent]]
  /\ replies = <<>>
  /\ bodies = {}
  /\ seen = [c \in Callers |-> [task |-> NoTask, version |-> 0, state |-> NoTask]]
  /\ dispatchedAt = [s \in 1..MaxReplies |-> 0]

TaskStep ==
  \/ \E t \in Tasks : CreateTask(t) \/ ClaimNextReply(t)
  \/ \E c \in Callers, t \in Tasks : ReadTask(c, t)
  \/ \E c \in Callers : StartTask(seen[c].task, seen[c].version)
  \/ \E c \in Callers, e \in ManualEvent :
       ApplyTaskEvent(seen[c].task, seen[c].version, e)

ReplyStep ==
  \/ \E m \in Mails, readable \in BOOLEAN : RecordReply(m, readable)
  \/ \E s \in Seqs : \/ AcknowledgeReply(s)
                     \/ MarkReplyUncertain(s)
                     \/ RequeueUnsentReply(s)
                     \/ \E d \in BOOLEAN : ResolveUncertainReply(s, d)
  \/ RecoverInFlight

Next == TaskStep \/ ReplyStep

Spec == Init /\ [][Next]_vars

-------------------------------------------------------------------------------
(* Properties.                                                             *)

\* The shape of every table: states, versions and bodies stay in range; a
\* reason is recorded exactly on rejected replies, and a reply in flight knows
\* the state its task was dispatched from.
TypeOK ==
  /\ taskState \in [Tasks -> TaskState \cup {NoTask}]
  /\ version \in [Tasks -> Nat]
  /\ session \in [Tasks -> BOOLEAN]
  /\ recent \in [Tasks -> [before : EventName, last : EventName]]
  /\ replies \in Seq(Reply)
  /\ \A s \in Seqs :
       /\ replies[s].state = "REJECTED" <=> replies[s].reason # NoReason
       /\ replies[s].state \in ReplyInFlight => replies[s].resume # NoState
  /\ Len(replies) <= MaxReplies
  /\ bodies \subseteq Seqs
  /\ seen \in [Callers -> [task : Tasks \cup {NoTask}, version : Nat,
                           state : TaskState \cup {NoTask}]]
  /\ dispatchedAt \in [1..MaxReplies -> Nat]

\* A reply is with the agent, or was acknowledged by it, only after every
\* earlier reply to the same task has reached a final state: neither a
\* put-back nor recovery lets a later reply overtake (ClaimNextReply).
InOrder ==
  \A s, q \in Seqs :
    /\ s < q
    /\ replies[s].mail.task = replies[q].mail.task
    /\ replies[q].state \in ReplyInFlight \cup {"ACKNOWLEDGED"}
    => replies[s].state \in ReplyTerminal

\* Nobody waits in the queue of a task that will never dispatch again: fail
\* and close sweep the queue, and a put-back racing with them rejects.
QueuedOnlyWhileAccepting ==
  \A s \in Seqs : replies[s].state = "QUEUED" =>
                     AcceptsReplies(taskState[replies[s].mail.task])

\* The sealed body is kept exactly as long as the reply may still have to be
\* handed to the agent, so ErrPayloadMissing never holds up a queue (only a
\* body that cannot be opened does), and no body outlives its reply.
BodyWhileNeeded ==
  \A s \in Seqs : s \in bodies <=> replies[s].state \notin ReplyTerminal

\* DELIVERY_UNCERTAIN is left only by resolving a reply (or by close), so a
\* task is never in it without the UNCERTAIN reply that resolves it.
UncertainTaskHasReply ==
  \A t \in Tasks : taskState[t] = "DELIVERY_UNCERTAIN" =>
                      RepliesIn(t, {"UNCERTAIN"}) # {}

\* Equal versions mean nothing happened since the caller read the task, so a
\* decision is only ever applied to the state it was taken on.
SnapshotIsCurrent ==
  \A c \in Callers : Current(seen[c].task, seen[c].version) =>
                       seen[c].state = taskState[seen[c].task]

\* Where in the task's history the dispatch of a reply in flight stands: it is
\* the only reply_dispatched the newest events can show.
DispatchMarks ==
  \A s \in Seqs :
    LET t == replies[s].mail.task
    IN  replies[s].state \in ReplyInFlight =>
          /\ dispatchedAt[s] <= version[t]
          /\ recent[t].last = "reply_dispatched" => dispatchedAt[s] = version[t]
          /\ /\ recent[t].before = "reply_dispatched"
             /\ recent[t].last # "reply_dispatched"
             => dispatchedAt[s] = version[t] - 1

\* A reply is with the agent only if its task was started, and it stays started.
InFlightHasStarted ==
  \A s \in Seqs : replies[s].state \in ReplyInFlight =>
                     taskState[replies[s].mail.task] \notin {NoTask, "CREATED"}

\* Only tasks that exist are read, and versions never fall behind a snapshot.
SnapshotsNotAhead ==
  \A c \in Callers : seen[c].task \in Tasks =>
                       /\ taskState[seen[c].task] # NoTask
                       /\ seen[c].version <= version[seen[c].task]

\* One mail is one row: neither a second copy (message_id) nor a second fetch of
\* the same place (mailbox, uid_validity, uid) adds another.
OneRowPerMail ==
  \A s, q \in Seqs : s # q => /\ replies[s].mail.id # replies[q].mail.id
                              /\ replies[s].mail.place # replies[q].mail.place

\* The invariant that every step preserves, from which the others follow.
IInv ==
  /\ TypeOK
  /\ InOrder
  /\ QueuedOnlyWhileAccepting
  /\ BodyWhileNeeded
  /\ OneRowPerMail
  /\ UncertainTaskHasReply
  /\ SnapshotsNotAhead
  /\ SnapshotIsCurrent
  /\ InFlightHasStarted
  /\ DispatchMarks

\* A reply goes back to the queue only if the task recorded no event since
\* its dispatch but the one of losing track of it, and then the task is back
\* in the state the reply was dispatched from (putBack, eventsSinceDispatch).
PutBackOnlyUntouched ==
  [][\A s \in Seqs :
       LET t == replies[s].mail.task
       IN  replies[s].state \in ReplyInFlight /\ replies'[s].state = "QUEUED"
           => /\ version[t] - dispatchedAt[s] =
                   (IF replies[s].state = "UNCERTAIN" THEN 1 ELSE 0)
              /\ taskState'[t] = replies[s].resume]_vars

\* The store implements the line of ReplyLine: losing track of a reply and
\* recovering from a crash change nothing the line can see, and a mail that was
\* recorded once, whatever became of it, never joins again.
Phase(state) ==
  CASE AcceptsReplies(state)          -> "open"
    [] state \in {"FAILED", "CLOSED"} -> "shut"
    [] OTHER                          -> "new"

Arrived == {replies[s].mail : s \in Seqs}

Line == INSTANCE ReplyLine WITH
          known   <- Arrived,
          phase   <- [t \in Tasks |-> Phase(taskState[t])],
          last    <- Len(replies),
          waiting <- [t \in Tasks |-> RepliesIn(t, {"QUEUED"})],
          out     <- [t \in Tasks |-> RepliesIn(t, ReplyInFlight)],
          done    <- [t \in Tasks |-> RepliesIn(t, {"ACKNOWLEDGED"})]

ImplementsLine == Line!Spec
===============================================================================
