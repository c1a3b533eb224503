------------------------------ MODULE ReplyProofs ------------------------------
(***************************************************************************)
(* Proofs about ReplyStore, about ReplyDispatch, and that ReplyStore         *)
(* implements ReplyLine, for every set of tasks, mails and callers and every *)
(* number of crashes.                                                        *)
(***************************************************************************)
EXTENDS ReplyDispatch, SequenceTheorems, TLAPS

-------------------------------------------------------------------------------
(* The tables.                                                             *)

\* An event that a caller may apply leads to a state of the table that is not
\* DELIVERY_UNCERTAIN; unless it ends the task, replies are still accepted.
LEMMA ManualNext ==
  ASSUME NEW s \in TaskState, NEW e \in ManualEvent, TaskAllows(s, e)
  PROVE  /\ TaskNext(s, e) \in TaskState
         /\ TaskNext(s, e) # "DELIVERY_UNCERTAIN"
         /\ e \notin SweepEvents => AcceptsReplies(TaskNext(s, e))
  BY DEF TaskState, ManualEvent, TaskAllows, TaskNext, TaskTransitions,
         SweepEvents, AcceptsReplies

\* Where the store's own events lead.
LEMMA StoreNext ==
  /\ TaskAllows("CREATED", "start") /\ TaskNext("CREATED", "start") = "RUNNING"
  /\ \A s \in TaskState : TaskAllows(s, "start") => s = "CREATED"
  /\ \A s \in {"COMPLETED", "WAITING_INPUT"} :
       TaskNext(s, "reply_dispatched") = "RUNNING"
  /\ TaskNext("RUNNING", "delivery_unknown") = "DELIVERY_UNCERTAIN"
  /\ TaskNext("DELIVERY_UNCERTAIN", "delivery_confirmed") = "RUNNING"
  BY DEF TaskState, TaskAllows, TaskNext, TaskTransitions

\* Where the events of a reply lead.
LEMMA ReplyTable ==
  /\ ReplyNext("QUEUED", "claim") = "DISPATCHING"
  /\ ReplyNext("QUEUED", "reject") = "REJECTED"
  /\ ReplyNext("DISPATCHING", "mark_uncertain") = "UNCERTAIN"
  /\ \A s \in ReplyInFlight : /\ ReplyNext(s, "acknowledge") = "ACKNOWLEDGED"
                              /\ ReplyNext(s, "requeue") = "QUEUED"
                              /\ ReplyNext(s, "reject") = "REJECTED"
  BY DEF ReplyNext, ReplyTransitions, ReplyInFlight

LEMMA Reasons == \A s : ReasonFor(s) \in RejectReason
  BY DEF ReasonFor, RejectReason
-------------------------------------------------------------------------------
(* What the building blocks write.                                         *)

LEMMA FunctionIsSequence ==
  ASSUME NEW S, NEW n \in Nat, NEW f \in [1..n -> S]
  PROVE  f \in Seq(S) /\ Len(f) = n
<1>1. f \in Seq(S)
  BY SeqDef
<1>2. Len(f) \in Nat /\ DOMAIN f = 1..Len(f)
  BY <1>1, LenProperties
<1>3. 1..Len(f) = 1..n
  BY <1>2
<1>4. QED
  BY <1>1, <1>2, <1>3

\* One row of replies changes, every other row and every seq stays.
LEMMA UpdateReplyWrites ==
  ASSUME TypeOK, NEW s \in Seqs, NEW r \in Reply, UpdateReply(s, r)
  PROVE  /\ replies' \in Seq(Reply)
         /\ Len(replies') = Len(replies)
         /\ Seqs' = Seqs
         /\ replies'[s] = r
         /\ \A q \in Seqs : q # s => replies'[q] = replies[q]
         /\ bodies' = IF r.state \in ReplyTerminal THEN bodies \ {s} ELSE bodies
  BY DEF TypeOK, UpdateReply, Seqs

\* Sweeping the queue of a task rejects its queued replies and nothing else.
LEMMA RejectQueuedWrites ==
  ASSUME TypeOK, NEW t \in Tasks, NEW reason \in RejectReason,
         RejectQueued(t, reason)
  PROVE  /\ replies' \in Seq(Reply)
         /\ Len(replies') = Len(replies)
         /\ Seqs' = Seqs
         /\ \A q \in Seqs :
              IF replies[q].mail.task = t /\ replies[q].state = "QUEUED"
              THEN /\ replies'[q].mail = replies[q].mail
                   /\ replies'[q].state = "REJECTED"
                   /\ replies'[q].reason = reason
                   /\ q \notin bodies'
              ELSE /\ replies'[q] = replies[q]
                   /\ q \in bodies' <=> q \in bodies
         /\ bodies' \subseteq bodies
<1>. DEFINE swept == [q \in Seqs |->
              IF q \in Swept(t)
              THEN [replies[q] EXCEPT !.state = "REJECTED", !.reason = reason]
              ELSE replies[q]]
<1>1. replies' = swept /\ bodies' = bodies \ Swept(t)
  BY ReplyTable DEF RejectQueued
<1>2. \A q \in Seqs : q \in Swept(t) <=>
              replies[q].mail.task = t /\ replies[q].state = "QUEUED"
  BY DEF Swept, RepliesIn, RepliesOf
<1>3. \A q \in Seqs : replies[q] \in Reply
  BY DEF TypeOK, Seqs
<1>4. \A q \in Seqs : swept[q] \in Reply
  BY <1>3 DEF Reply, ReplyState
<1>5. Seqs = 1..Len(replies) /\ Len(replies) \in Nat
  BY DEF TypeOK, Seqs
<1>6. swept \in Seq(Reply) /\ Len(swept) = Len(replies)
  <2>1. swept \in [1..Len(replies) -> Reply]
    BY <1>4, <1>5
  <2>2. QED
    BY <2>1, <1>5, FunctionIsSequence
<1>7. Seqs' = Seqs
  BY <1>1, <1>5, <1>6 DEF Seqs
<1>8. QED
  BY <1>1, <1>2, <1>3, <1>6, <1>7 DEF Reply

\* A transition of the task changes that task only.
LEMMA TransitionWrites ==
  ASSUME TypeOK, NEW t \in Tasks, NEW e \in EventName, NEW to \in TaskState,
         WriteTaskTransition(t, e, to)
  PROVE  /\ taskState' \in [Tasks -> TaskState \cup {NoTask}]
         /\ version' \in [Tasks -> Nat]
         /\ recent' \in [Tasks -> [before : EventName, last : EventName]]
         /\ taskState'[t] = to
         /\ version'[t] = version[t] + 1
         /\ recent'[t].before = recent[t].last
         /\ recent'[t].last = e
         /\ \A u \in Tasks : u # t => /\ taskState'[u] = taskState[u]
                                     /\ version'[u] = version[u]
                                     /\ recent'[u] = recent[u]
  BY DEF TypeOK, WriteTaskTransition

\* Recording a mail appends one row.
LEMMA RecordWrites ==
  ASSUME TypeOK, NEW m \in Mails, NEW b \in BOOLEAN, RecordReply(m, b)
  PROVE  /\ replies' \in Seq(Reply)
         /\ Len(replies') = Len(replies) + 1
         /\ Len(replies') <= MaxReplies
         /\ Seqs' = Seqs \cup {Len(replies) + 1}
         /\ Len(replies) + 1 \notin Seqs
         /\ \A q \in Seqs : replies'[q] = replies[q] /\ (q \in bodies' <=> q \in bodies)
         /\ bodies' \subseteq bodies \cup {Len(replies) + 1}
         /\ LET n == Len(replies) + 1
            IN  /\ replies'[n].mail = m
                /\ replies'[n].resume = NoState
                /\ \/ /\ AcceptsReplies(taskState[m.task])
                      /\ replies'[n].state = "QUEUED"
                      /\ replies'[n].reason = NoReason
                      /\ n \in bodies'
                   \/ /\ ~AcceptsReplies(taskState[m.task])
                      /\ replies'[n].state = "REJECTED"
                      /\ replies'[n].reason \in RejectReason
                      /\ n \notin bodies'
<1>1. PICK r \in Reply :
         /\ replies' = Append(replies, r)
         /\ r.mail = m
         /\ r.resume = NoState
         /\ \/ /\ AcceptsReplies(taskState[m.task])
               /\ r.state = "QUEUED"
               /\ r.reason = NoReason
               /\ bodies' = bodies \cup {Len(replies) + 1}
            \/ /\ ~AcceptsReplies(taskState[m.task])
               /\ r.state = "REJECTED"
               /\ r.reason \in RejectReason
               /\ bodies' = bodies
  <2>1. CASE AcceptsReplies(taskState[m.task])
    BY <2>1 DEF RecordReply, Reply, ReplyState
  <2>2. CASE ~AcceptsReplies(taskState[m.task])
    <3>. DEFINE rd == [mail |-> m, state |-> "REJECTED", resume |-> NoState,
                       reason |-> ReasonFor(taskState[m.task]), readable |-> FALSE]
    <3>1. replies' = Append(replies, rd) /\ bodies' = bodies
      BY <2>2, ReplyTable DEF RecordReply
    <3>2. rd \in Reply
      BY Reasons DEF Reply, ReplyState
    <3>3. rd.reason \in RejectReason
      BY Reasons
    <3>4. QED
      BY <2>2, <3>1, <3>2, <3>3
  <2>3. QED
    BY <2>1, <2>2
<1>2. /\ replies' \in Seq(Reply)
      /\ Len(replies') = Len(replies) + 1
      /\ replies'[Len(replies) + 1] = r
      /\ \A q \in Seqs : replies'[q] = replies[q]
  BY <1>1, AppendProperties DEF TypeOK, Seqs
<1>3. Seqs = 1..Len(replies) /\ Len(replies) \in Nat
  BY DEF TypeOK, Seqs
<1>4. Seqs' = 1..(Len(replies) + 1)
  BY <1>2, LenProperties DEF Seqs
<1>5. Len(replies) + 1 <= MaxReplies
  BY DEF RecordReply
<1>6. bodies \subseteq Seqs
  BY DEF TypeOK
<1>7. Len(replies) + 1 \notin Seqs /\ Seqs' = Seqs \cup {Len(replies) + 1}
  BY <1>3, <1>4
<1>8. QED
  BY <1>1, <1>2, <1>5, <1>6, <1>7

\* Recovery makes every DISPATCHING reply UNCERTAIN and moves exactly the
\* RUNNING tasks that have one.
Lost(t) ==
  /\ taskState[t] = "RUNNING"
  /\ \E s \in Seqs : replies[s].mail.task = t /\ replies[s].state = "DISPATCHING"

LEMMA RecoverWrites ==
  ASSUME TypeOK, RecoverInFlight
  PROVE  /\ replies' \in Seq(Reply)
         /\ Len(replies') = Len(replies)
         /\ Seqs' = Seqs
         /\ \A q \in Seqs :
              /\ replies'[q].mail = replies[q].mail
              /\ replies'[q].resume = replies[q].resume
              /\ replies'[q].reason = replies[q].reason
              /\ replies'[q].state = IF replies[q].state = "DISPATCHING"
                                     THEN "UNCERTAIN" ELSE replies[q].state
         /\ \A t \in Tasks :
              /\ Lost(t) =>
                   /\ taskState'[t] = "DELIVERY_UNCERTAIN"
                   /\ version'[t] = version[t] + 1
                   /\ recent'[t].before = recent[t].last
                   /\ recent'[t].last = "delivery_unknown"
              /\ ~Lost(t) =>
                   /\ taskState'[t] = taskState[t]
                   /\ version'[t] = version[t]
                   /\ recent'[t] = recent[t]
         /\ taskState' \in [Tasks -> TaskState \cup {NoTask}]
         /\ version' \in [Tasks -> Nat]
         /\ recent' \in [Tasks -> [before : EventName, last : EventName]]
         /\ session' = session /\ bodies' = bodies
         /\ seen' = seen /\ dispatchedAt' = dispatchedAt
<1>. DEFINE disp == {s \in Seqs : replies[s].state = "DISPATCHING"}
            row(q) == IF q \in disp
                      THEN [replies[q] EXCEPT !.state = "UNCERTAIN"]
                      ELSE replies[q]
            rows == [q \in Seqs |-> row(q)]
<1>1. Seqs = 1..Len(replies) /\ Len(replies) \in Nat
  BY DEF TypeOK, Seqs
<1>2. replies' = rows
  BY ReplyTable DEF RecoverInFlight
<1>3. \A q \in Seqs : replies[q] \in Reply
  BY DEF TypeOK, Seqs
<1>4. \A q \in Seqs : /\ row(q) \in Reply
                      /\ row(q).mail = replies[q].mail
                      /\ row(q).resume = replies[q].resume
                      /\ row(q).reason = replies[q].reason
                      /\ row(q).state = IF replies[q].state = "DISPATCHING"
                                        THEN "UNCERTAIN" ELSE replies[q].state
  BY <1>3 DEF Reply, ReplyState
<1>5. rows \in [1..Len(replies) -> Reply]
  BY <1>4, <1>1
<1>6. rows \in Seq(Reply) /\ Len(rows) = Len(replies)
  BY <1>1, <1>5, FunctionIsSequence
<1>7. Seqs' = Seqs
  BY <1>1, <1>2, <1>5 DEF Seqs
<1>8. \A t \in Tasks :
        /\ Lost(t) =>
             /\ taskState'[t] = "DELIVERY_UNCERTAIN"
             /\ version'[t] = version[t] + 1
             /\ recent'[t] = [before |-> recent[t].last, last |-> "delivery_unknown"]
        /\ ~Lost(t) =>
             /\ taskState'[t] = taskState[t]
             /\ version'[t] = version[t]
             /\ recent'[t] = recent[t]
  BY StoreNext DEF RecoverInFlight, Lost
<1>9. /\ taskState' = [t \in Tasks |-> taskState'[t]]
      /\ version' = [t \in Tasks |-> version'[t]]
      /\ recent' = [t \in Tasks |-> recent'[t]]
  BY DEF RecoverInFlight
<1>10. \A t \in Tasks : /\ taskState'[t] \in TaskState \cup {NoTask}
                        /\ version'[t] \in Nat
                        /\ recent'[t] \in [before : EventName, last : EventName]
  <2>. TAKE t \in Tasks
  <2>1. /\ taskState[t] \in TaskState \cup {NoTask}
        /\ version[t] \in Nat
        /\ recent[t] \in [before : EventName, last : EventName]
    BY DEF TypeOK
  <2>2. "DELIVERY_UNCERTAIN" \in TaskState /\ "delivery_unknown" \in EventName
    BY DEF TaskState, EventName, TaskEvent
  <2>3. CASE Lost(t)
    <3>1. /\ taskState'[t] = "DELIVERY_UNCERTAIN"
          /\ version'[t] = version[t] + 1
          /\ recent'[t] = [before |-> recent[t].last, last |-> "delivery_unknown"]
      BY <1>8, <2>3, Zenon
    <3>2. QED
      BY <3>1, <2>1, <2>2
  <2>4. CASE ~Lost(t)
    BY <1>8, <2>1, <2>4
  <2>5. QED
    BY <2>3, <2>4
<1>11. \A q \in Seqs : replies'[q] = row(q)
  BY <1>2
<1>12. /\ session' = session /\ bodies' = bodies
       /\ seen' = seen /\ dispatchedAt' = dispatchedAt
  BY DEF RecoverInFlight
<1>13. /\ taskState' \in [Tasks -> TaskState \cup {NoTask}]
       /\ version' \in [Tasks -> Nat]
       /\ recent' \in [Tasks -> [before : EventName, last : EventName]]
  BY <1>9, <1>10
<1>14. \A q \in Seqs :
         /\ replies'[q].mail = replies[q].mail
         /\ replies'[q].resume = replies[q].resume
         /\ replies'[q].reason = replies[q].reason
         /\ replies'[q].state = IF replies[q].state = "DISPATCHING"
                                THEN "UNCERTAIN" ELSE replies[q].state
  BY <1>4, <1>11
<1>15. replies' \in Seq(Reply) /\ Len(replies') = Len(replies)
  BY <1>2, <1>6
<1>16. \A t \in Tasks :
         /\ Lost(t) =>
              /\ taskState'[t] = "DELIVERY_UNCERTAIN"
              /\ version'[t] = version[t] + 1
              /\ recent'[t].before = recent[t].last
              /\ recent'[t].last = "delivery_unknown"
         /\ ~Lost(t) =>
              /\ taskState'[t] = taskState[t]
              /\ version'[t] = version[t]
              /\ recent'[t] = recent[t]
  BY StoreNext DEF RecoverInFlight, Lost
<1>. HIDE DEF row, rows, disp
<1>17. QED
  BY <1>7, <1>12, <1>13, <1>14, <1>15, <1>16, Zenon

\* A reply row read from a well-typed table.
LEMMA RowTypes ==
  ASSUME TypeOK, NEW s \in Seqs
  PROVE  /\ replies[s] \in Reply
         /\ replies[s].mail \in Mails
         /\ replies[s].mail.task \in Tasks
         /\ replies[s].state = "REJECTED" <=> replies[s].reason # NoReason
         /\ replies[s].state \in ReplyInFlight => replies[s].resume # NoState
         /\ s \in 1..MaxReplies
<1>1. replies[s] \in Reply
  BY DEF TypeOK, Seqs
<1>2. replies[s].mail \in Mails /\ replies[s].mail.task \in Tasks
  BY <1>1, StoreAssumption DEF Reply
<1>3. s \in 1..MaxReplies
  BY StoreAssumption DEF TypeOK, Seqs
<1>4. QED
  BY <1>1, <1>2, <1>3 DEF TypeOK

\* The conjuncts of TypeOK about replies survive the update of one row.
LEMMA UpdateKeepsTypes ==
  ASSUME TypeOK, NEW s \in Seqs, NEW r \in Reply, UpdateReply(s, r),
         r.state = "REJECTED" <=> r.reason # NoReason,
         r.state \in ReplyInFlight => r.resume # NoState
  PROVE  /\ replies' \in Seq(Reply)
         /\ Len(replies') <= MaxReplies
         /\ bodies' \subseteq Seqs'
         /\ \A q \in Seqs' :
              /\ replies'[q].state = "REJECTED" <=> replies'[q].reason # NoReason
              /\ replies'[q].state \in ReplyInFlight => replies'[q].resume # NoState
<1>1. /\ replies' \in Seq(Reply) /\ Len(replies') = Len(replies) /\ Seqs' = Seqs
      /\ replies'[s] = r /\ \A q \in Seqs : q # s => replies'[q] = replies[q]
      /\ bodies' \subseteq bodies
  BY UpdateReplyWrites
<1>2. Len(replies) <= MaxReplies /\ bodies \subseteq Seqs
  BY DEF TypeOK
<1>3. \A q \in Seqs :
        /\ replies'[q].state = "REJECTED" <=> replies'[q].reason # NoReason
        /\ replies'[q].state \in ReplyInFlight => replies'[q].resume # NoState
  <2> SUFFICES ASSUME NEW q \in Seqs
               PROVE  /\ replies'[q].state = "REJECTED" <=> replies'[q].reason # NoReason
                      /\ replies'[q].state \in ReplyInFlight
                           => replies'[q].resume # NoState
    OBVIOUS
  <2>1. CASE q = s
    BY <1>1, <2>1
  <2>2. CASE q # s
    BY <1>1, <2>2, RowTypes
  <2> QED
    BY <2>1, <2>2
<1>4. QED
  BY <1>1, <1>2, <1>3

-------------------------------------------------------------------------------
(* What each operation on a reply writes.                                  *)

\* The single reply s moves to a new row; task t may move with it.
MovesReply(s, from, to) ==
  /\ s \in Seqs
  /\ replies[s].state = from
  /\ replies' \in Seq(Reply)
  /\ Len(replies') <= MaxReplies
  /\ Seqs' = Seqs
  /\ Len(replies') = Len(replies)
  /\ replies'[s].mail = replies[s].mail
  /\ replies'[s].state = to
  /\ \A q \in Seqs : q # s => replies'[q] = replies[q]
  /\ bodies' = IF to \in ReplyTerminal THEN bodies \ {s} ELSE bodies
  /\ \A q \in Seqs' :
       /\ replies'[q].state = "REJECTED" <=> replies'[q].reason # NoReason
       /\ replies'[q].state \in ReplyInFlight => replies'[q].resume # NoState

LEMMA MoveFromUpdate ==
  ASSUME TypeOK, NEW s \in Seqs, NEW r \in Reply, UpdateReply(s, r),
         r.state = "REJECTED" <=> r.reason # NoReason,
         r.state \in ReplyInFlight => r.resume # NoState,
         r.mail = replies[s].mail
  PROVE  MovesReply(s, replies[s].state, r.state) /\ replies'[s] = r
  BY UpdateReplyWrites, UpdateKeepsTypes DEF MovesReply, TypeOK

LEMMA ClaimWrites ==
  ASSUME TypeOK, NEW t \in Tasks, ClaimNextReply(t)
  PROVE  \E s \in Seqs :
           /\ MovesReply(s, "QUEUED", "DISPATCHING")
           /\ replies[s].mail.task = t
           /\ replies'[s].resume = taskState[t]
           /\ \A q \in RepliesIn(t, {"QUEUED"}) : s <= q
           /\ RepliesIn(t, ReplyInFlight) = {}
           /\ taskState[t] \in {"COMPLETED", "WAITING_INPUT"}
           /\ WriteTaskTransition(t, "reply_dispatched", "RUNNING")
           /\ dispatchedAt' = [dispatchedAt EXCEPT ![s] = version[t] + 1]
           /\ session' = session /\ seen' = seen
<1>1. PICK s \in RepliesIn(t, {"QUEUED"}) :
         /\ \A q \in RepliesIn(t, {"QUEUED"}) : s <= q
         /\ UpdateReply(s, [replies[s] EXCEPT !.state = "DISPATCHING",
                                              !.resume = taskState[t]])
         /\ dispatchedAt' = [dispatchedAt EXCEPT ![s] = version[t] + 1]
  BY ReplyTable DEF ClaimNextReply, HeadOfQueue
<1>2. s \in Seqs /\ replies[s].mail.task = t /\ replies[s].state = "QUEUED"
  BY DEF RepliesIn, RepliesOf
<1>3. taskState[t] \in {"COMPLETED", "WAITING_INPUT"}
  BY DEF ClaimNextReply, CanDispatchReply
<1>. DEFINE r == [replies[s] EXCEPT !.state = "DISPATCHING", !.resume = taskState[t]]
<1>4. /\ r \in Reply /\ r.mail = replies[s].mail /\ r.state = "DISPATCHING"
      /\ r.resume = taskState[t] /\ r.reason = NoReason
  <2>1. replies[s] \in Reply /\ replies[s].reason = NoReason
    BY <1>2, RowTypes
  <2>2. QED
    BY <2>1, <1>2, <1>3 DEF Reply, ReplyState
<1>5. UpdateReply(s, r)
  BY <1>1
<1>. HIDE DEF r
<1>6. r.resume # NoState
  BY <1>3, <1>4 DEF NoState
<1>7. MovesReply(s, "QUEUED", "DISPATCHING") /\ replies'[s] = r
  BY <1>2, <1>4, <1>5, <1>6, MoveFromUpdate
<1>8. RepliesIn(t, ReplyInFlight) = {}
  BY DEF ClaimNextReply, InFlight
<1>9. /\ WriteTaskTransition(t, "reply_dispatched", "RUNNING")
      /\ session' = session /\ seen' = seen
  BY <1>3, StoreNext DEF ClaimNextReply
<1>10. QED
  BY <1>1, <1>2, <1>3, <1>4, <1>7, <1>8, <1>9

\* A reply in flight that changes its state only.
LEMMA StateChange ==
  ASSUME TypeOK, NEW s \in Seqs, replies[s].state \in ReplyInFlight,
         NEW st \in {"ACKNOWLEDGED", "UNCERTAIN"},
         UpdateReply(s, [replies[s] EXCEPT !.state = st])
  PROVE  /\ MovesReply(s, replies[s].state, st)
         /\ replies'[s].resume = replies[s].resume
<1>. DEFINE r == [replies[s] EXCEPT !.state = st]
<1>1. /\ replies[s] \in Reply
      /\ replies[s].reason = NoReason
      /\ replies[s].resume # NoState
  BY RowTypes DEF ReplyInFlight
<1>2. /\ r \in Reply /\ r.mail = replies[s].mail /\ r.state = st
      /\ r.resume = replies[s].resume /\ r.reason = NoReason
  BY <1>1 DEF Reply, ReplyState
<1>3. UpdateReply(s, r)
  OBVIOUS
<1>. HIDE DEF r
<1>4. st # "REJECTED"
  OBVIOUS
<1>5. MovesReply(s, replies[s].state, st) /\ replies'[s] = r
  BY <1>1, <1>2, <1>3, <1>4, MoveFromUpdate
<1>6. QED
  BY <1>2, <1>5

LEMMA AcknowledgeWrites ==
  ASSUME TypeOK, NEW s \in Seqs, AcknowledgeReply(s)
  PROVE  /\ MovesReply(s, "DISPATCHING", "ACKNOWLEDGED")
         /\ UNCHANGED taskVars /\ seen' = seen /\ dispatchedAt' = dispatchedAt
<1>1. replies[s].state = "DISPATCHING" /\ "DISPATCHING" \in ReplyInFlight
  BY DEF AcknowledgeReply, ReplyInFlight
<1>2. UpdateReply(s, [replies[s] EXCEPT !.state = "ACKNOWLEDGED"])
  BY <1>1, ReplyTable DEF AcknowledgeReply
<1>3. MovesReply(s, "DISPATCHING", "ACKNOWLEDGED")
  BY <1>1, <1>2, StateChange
<1>4. QED
  BY <1>3 DEF AcknowledgeReply

LEMMA MarkUncertainWrites ==
  ASSUME TypeOK, NEW s \in Seqs, MarkReplyUncertain(s)
  PROVE  LET t == replies[s].mail.task
         IN  /\ MovesReply(s, "DISPATCHING", "UNCERTAIN")
             /\ replies'[s].resume = replies[s].resume
             /\ \/ /\ taskState[t] = "RUNNING"
                   /\ WriteTaskTransition(t, "delivery_unknown", "DELIVERY_UNCERTAIN")
                \/ /\ taskState[t] # "RUNNING"
                   /\ KeepTask
             /\ session' = session /\ seen' = seen /\ dispatchedAt' = dispatchedAt
<1>1. replies[s].state = "DISPATCHING" /\ "DISPATCHING" \in ReplyInFlight
  BY DEF MarkReplyUncertain, ReplyInFlight
<1>2. UpdateReply(s, [replies[s] EXCEPT !.state = "UNCERTAIN"])
  BY <1>1, ReplyTable DEF MarkReplyUncertain
<1>3. /\ MovesReply(s, "DISPATCHING", "UNCERTAIN")
      /\ replies'[s].resume = replies[s].resume
  BY <1>1, <1>2, StateChange
<1>4. QED
  BY <1>3, StoreNext DEF MarkReplyUncertain

\* Putting back either rejects the reply and leaves the task alone, or requeues
\* it and takes the task to where the reply was dispatched from.
LEMMA PutBackWrites ==
  ASSUME TypeOK, NEW s \in Seqs, NEW from \in ReplyInFlight, PutBack(s, from)
  PROVE  LET t == replies[s].mail.task
         IN  /\ \/ /\ ~AcceptsReplies(taskState[t])
                   /\ MovesReply(s, from, "REJECTED")
                   /\ KeepTask
                \/ /\ AcceptsReplies(taskState[t])
                   /\ MovesReply(s, from, "QUEUED")
                   /\ UntouchedSinceDispatch(t, from)
                   /\ CanResume(taskState[t], replies[s].resume)
                   /\ WriteTaskTransition(t, "reply_unsent", replies[s].resume)
             /\ session' = session /\ seen' = seen /\ dispatchedAt' = dispatchedAt
<1>. DEFINE t == replies[s].mail.task
<1>1. replies[s].state = from
  BY DEF PutBack
<1>2. /\ replies[s] \in Reply
      /\ replies[s].reason = NoReason
  BY <1>1, RowTypes DEF ReplyInFlight
<1>3. CASE /\ ~AcceptsReplies(taskState[t])
           /\ UpdateReply(s, [replies[s] EXCEPT !.state = ReplyNext(from, "reject"),
                                                !.reason = ReasonFor(taskState[t])])
           /\ KeepTask
  <2>. DEFINE why == ReasonFor(taskState[t])
              r == [replies[s] EXCEPT !.state = "REJECTED", !.reason = why]
  <2>1. why \in RejectReason /\ why # NoReason
    BY Reasons DEF RejectReason, NoReason
  <2>. HIDE DEF why
  <2>2. /\ r \in Reply /\ r.mail = replies[s].mail /\ r.state = "REJECTED"
        /\ r.reason = why
    BY <1>2, <2>1 DEF Reply, ReplyState
  <2>3. UpdateReply(s, r)
    BY <1>3, ReplyTable DEF why
  <2>. HIDE DEF r
  <2>4. r.state \notin ReplyInFlight
    BY <2>2 DEF ReplyInFlight
  <2>5. MovesReply(s, from, "REJECTED")
    BY <1>1, <2>1, <2>2, <2>3, <2>4, MoveFromUpdate
  <2>6. QED
    BY <1>3, <2>5 DEF PutBack
<1>4. CASE /\ AcceptsReplies(taskState[t])
           /\ UntouchedSinceDispatch(t, from)
           /\ CanResume(taskState[t], replies[s].resume)
           /\ UpdateReply(s, [replies[s] EXCEPT !.state = ReplyNext(from, "requeue"),
                                                !.resume = NoState])
           /\ WriteTaskTransition(t, "reply_unsent", replies[s].resume)
  <2>. DEFINE r == [replies[s] EXCEPT !.state = "QUEUED", !.resume = NoState]
  <2>1. /\ r \in Reply /\ r.mail = replies[s].mail /\ r.state = "QUEUED"
        /\ r.reason = NoReason
    BY <1>2 DEF Reply, ReplyState
  <2>2. UpdateReply(s, r)
    BY <1>4, ReplyTable
  <2>. HIDE DEF r
  <2>3. r.state \notin ReplyInFlight
    BY <2>1 DEF ReplyInFlight
  <2>4. MovesReply(s, from, "QUEUED")
    BY <1>1, <2>1, <2>2, <2>3, MoveFromUpdate
  <2>5. QED
    BY <1>4, <2>4 DEF PutBack
<1>5. QED
  BY <1>3, <1>4 DEF PutBack

LEMMA ConfirmWrites ==
  ASSUME TypeOK, NEW s \in Seqs, ResolveUncertainReply(s, TRUE)
  PROVE  LET t == replies[s].mail.task
         IN  /\ MovesReply(s, "UNCERTAIN", "ACKNOWLEDGED")
             /\ \/ /\ taskState[t] = "DELIVERY_UNCERTAIN"
                   /\ WriteTaskTransition(t, "delivery_confirmed", "RUNNING")
                \/ /\ taskState[t] # "DELIVERY_UNCERTAIN"
                   /\ KeepTask
             /\ session' = session /\ seen' = seen /\ dispatchedAt' = dispatchedAt
<1>1. replies[s].state = "UNCERTAIN" /\ "UNCERTAIN" \in ReplyInFlight
  BY DEF ResolveUncertainReply, ReplyInFlight
<1>2. UpdateReply(s, [replies[s] EXCEPT !.state = "ACKNOWLEDGED"])
  BY <1>1, ReplyTable DEF ResolveUncertainReply
<1>3. MovesReply(s, "UNCERTAIN", "ACKNOWLEDGED")
  BY <1>1, <1>2, StateChange
<1>4. QED
  BY <1>3, StoreNext DEF ResolveUncertainReply, ConfirmDelivery

\* An event applied by a caller moves its task and, if it ends the task, sweeps
\* the queue.
LEMMA EventWrites ==
  ASSUME TypeOK, NEW t, NEW v, NEW e \in ManualEvent, ApplyTaskEvent(t, v, e)
  PROVE  /\ t \in Tasks /\ v = version[t]
         /\ TaskAllows(taskState[t], e)
         /\ TaskNext(taskState[t], e) \in TaskState
         /\ TaskNext(taskState[t], e) # "DELIVERY_UNCERTAIN"
         /\ e \in EventName /\ e # "reply_dispatched"
         /\ WriteTaskTransition(t, e, TaskNext(taskState[t], e))
         /\ \/ /\ e \in SweepEvents
               /\ \E why \in RejectReason : RejectQueued(t, why)
            \/ /\ AcceptsReplies(TaskNext(taskState[t], e))
               /\ replies' = replies /\ bodies' = bodies
         /\ session' = session /\ seen' = seen /\ dispatchedAt' = dispatchedAt
<1>1. taskState[t] \in TaskState /\ TaskAllows(taskState[t], e)
  BY DEF ApplyTaskEvent, TaskAllows
<1>2. e \in EventName /\ e # "reply_dispatched"
  BY DEF ManualEvent, EventName, TaskEvent
<1>3. QED
  BY <1>1, <1>2, ManualNext, Reasons DEF ApplyTaskEvent, Current

LEMMA StartWrites ==
  ASSUME TypeOK, NEW t, NEW v, StartTask(t, v)
  PROVE  /\ t \in Tasks /\ v = version[t]
         /\ taskState[t] = "CREATED"
         /\ WriteTaskTransition(t, "start", "RUNNING")
         /\ session' = [session EXCEPT ![t] = TRUE]
         /\ replies' = replies /\ bodies' = bodies
         /\ seen' = seen /\ dispatchedAt' = dispatchedAt
<1>1. taskState[t] = "CREATED"
  BY StoreNext DEF StartTask, TaskAllows
<1>2. QED
  BY <1>1, StoreNext DEF StartTask, Current, replyVars

-------------------------------------------------------------------------------
(* Type correctness.                                                       *)

RepliesTyped ==
  /\ replies \in Seq(Reply)
  /\ \A s \in Seqs :
       /\ replies[s].state = "REJECTED" <=> replies[s].reason # NoReason
       /\ replies[s].state \in ReplyInFlight => replies[s].resume # NoState
  /\ Len(replies) <= MaxReplies
  /\ bodies \subseteq Seqs

TasksTyped ==
  /\ taskState \in [Tasks -> TaskState \cup {NoTask}]
  /\ version \in [Tasks -> Nat]
  /\ recent \in [Tasks -> [before : EventName, last : EventName]]

LEMMA MoveKeepsRepliesTyped ==
  ASSUME TypeOK, NEW s, NEW from, NEW to, MovesReply(s, from, to)
  PROVE  RepliesTyped'
  BY DEF TypeOK, MovesReply, RepliesTyped

LEMMA SweepKeepsRepliesTyped ==
  ASSUME TypeOK, NEW t \in Tasks, NEW why \in RejectReason, RejectQueued(t, why)
  PROVE  RepliesTyped'
<1>1. why # NoReason
  BY DEF RejectReason, NoReason
<1>2. /\ replies' \in Seq(Reply) /\ Len(replies') = Len(replies) /\ Seqs' = Seqs
      /\ bodies' \subseteq bodies
  BY RejectQueuedWrites
<1>3. ASSUME NEW q \in Seqs
      PROVE  /\ replies'[q].state = "REJECTED" <=> replies'[q].reason # NoReason
             /\ replies'[q].state \in ReplyInFlight => replies'[q].resume # NoState
  <2>1. CASE replies[q].mail.task = t /\ replies[q].state = "QUEUED"
    BY <1>1, <2>1, RejectQueuedWrites DEF ReplyInFlight
  <2>2. CASE ~(replies[q].mail.task = t /\ replies[q].state = "QUEUED")
    <3>1. replies'[q] = replies[q]
      BY <2>2, RejectQueuedWrites
    <3>2. QED
      BY <3>1, RowTypes
  <2>3. QED
    BY <2>1, <2>2
<1>4. QED
  BY <1>2, <1>3 DEF RepliesTyped, TypeOK

LEMMA TransitionKeepsTasksTyped ==
  ASSUME TypeOK, NEW t \in Tasks, NEW e \in EventName, NEW to \in TaskState,
         WriteTaskTransition(t, e, to)
  PROVE  TasksTyped'
  BY TransitionWrites DEF TasksTyped

LEMMA KeepTaskTyped == ASSUME TypeOK, KeepTask PROVE TasksTyped'
  BY DEF TypeOK, KeepTask, TasksTyped

LEMMA StoreEventNames ==
  /\ {"start", "reply_dispatched", "delivery_unknown", "delivery_confirmed",
      "reply_unsent"} \subseteq EventName
  /\ {"RUNNING", "DELIVERY_UNCERTAIN", "COMPLETED", "WAITING_INPUT"} \subseteq TaskState
  BY DEF EventName, TaskEvent, TaskState

LEMMA TypeFromParts ==
  ASSUME TypeOK, RepliesTyped', TasksTyped',
         session' = session \/ (\E t \in Tasks : session' = [session EXCEPT ![t] = TRUE]),
         seen' = seen,
         \/ dispatchedAt' = dispatchedAt
         \/ \E s \in Seqs, t \in Tasks :
               dispatchedAt' = [dispatchedAt EXCEPT ![s] = version[t] + 1]
  PROVE  TypeOK'
<1>1. dispatchedAt' \in [1..MaxReplies -> Nat]
  <2>1. CASE dispatchedAt' = dispatchedAt
    BY <2>1 DEF TypeOK
  <2>2. ASSUME NEW s \in Seqs, NEW t \in Tasks,
               dispatchedAt' = [dispatchedAt EXCEPT ![s] = version[t] + 1]
        PROVE  dispatchedAt' \in [1..MaxReplies -> Nat]
    <3>1. version[t] + 1 \in Nat
      BY DEF TypeOK
    <3>2. QED
      BY <2>2, <3>1 DEF TypeOK
  <2>3. QED
    BY <2>1, <2>2
<1>2. session' \in [Tasks -> BOOLEAN]
  BY DEF TypeOK
<1>3. seen' \in [Callers -> [task : Tasks \cup {NoTask}, version : Nat,
                            state : TaskState \cup {NoTask}]]
  BY DEF TypeOK
<1>4. QED
  BY <1>1, <1>2, <1>3 DEF TypeOK, RepliesTyped, TasksTyped

\* Any call of the store: an event comes with whatever version is current,
\* whoever kept it (Current admits no other).
StoreCall ==
  \/ \E t \in Tasks : CreateTask(t) \/ ClaimNextReply(t) \/ StartTask(t, version[t])
  \/ \E c \in Callers, t \in Tasks : ReadTask(c, t)
  \/ \E t \in Tasks, e \in ManualEvent : ApplyTaskEvent(t, version[t], e)
  \/ \E m \in Mails, b \in BOOLEAN : RecordReply(m, b)
  \/ \E s \in Seqs : \/ AcknowledgeReply(s)
                     \/ MarkReplyUncertain(s)
                     \/ RequeueUnsentReply(s)
                     \/ \E d \in BOOLEAN : ResolveUncertainReply(s, d)
  \/ RecoverInFlight

LEMMA NextIsCall == [Next]_vars => [StoreCall]_vars
  BY Zenon DEF Next, TaskStep, ReplyStep, StoreCall, StartTask, ApplyTaskEvent, Current

LEMMA TypeStep == TypeOK /\ [StoreCall]_vars => TypeOK'
<1>. SUFFICES ASSUME TypeOK, [StoreCall]_vars PROVE TypeOK'
  OBVIOUS
<1>. USE StoreEventNames
<1>0. RepliesTyped /\ TasksTyped
  BY DEF TypeOK, RepliesTyped, TasksTyped
<1>1. ASSUME NEW t \in Tasks, CreateTask(t) PROVE TypeOK'
  BY <1>1 DEF CreateTask, TypeOK, TaskState, Seqs
<1>2. ASSUME NEW c \in Callers, NEW t \in Tasks, ReadTask(c, t) PROVE TypeOK'
  <2>1. [task |-> t, version |-> version[t], state |-> taskState[t]]
          \in [task : Tasks \cup {NoTask}, version : Nat,
               state : TaskState \cup {NoTask}]
    BY DEF TypeOK
  <2>2. seen' \in [Callers -> [task : Tasks \cup {NoTask}, version : Nat,
                              state : TaskState \cup {NoTask}]]
    BY <1>2, <2>1 DEF ReadTask, TypeOK
  <2>3. QED
    BY <1>2, <2>2 DEF ReadTask, TypeOK, taskVars, replyVars, Seqs
<1>3. ASSUME NEW t, NEW v, StartTask(t, v) PROVE TypeOK'
  <2>1. RepliesTyped'
    BY <1>0, <1>3, StartWrites DEF RepliesTyped, Seqs
  <2>2. TasksTyped'
    BY <1>3, StartWrites, TransitionKeepsTasksTyped
  <2>3. QED
    BY <1>3, <2>1, <2>2, StartWrites, TypeFromParts
<1>4. ASSUME NEW t, NEW v, NEW e \in ManualEvent, ApplyTaskEvent(t, v, e)
      PROVE  TypeOK'
  <2>1. RepliesTyped'
    <3>1. CASE replies' = replies /\ bodies' = bodies
      BY <1>0, <3>1 DEF RepliesTyped, Seqs
    <3>2. CASE \E why \in RejectReason : RejectQueued(t, why)
      BY <1>4, <3>2, EventWrites, SweepKeepsRepliesTyped
    <3>3. QED
      BY <1>4, <3>1, <3>2, EventWrites
  <2>2. TasksTyped'
    BY <1>4, EventWrites, TransitionKeepsTasksTyped
  <2>3. QED
    BY <1>4, <2>1, <2>2, EventWrites, TypeFromParts
<1>5. ASSUME NEW m \in Mails, NEW b \in BOOLEAN, RecordReply(m, b) PROVE TypeOK'
  <2>1. RepliesTyped'
    <3>1. ASSUME NEW q \in Seqs'
          PROVE  /\ replies'[q].state = "REJECTED" <=> replies'[q].reason # NoReason
                 /\ replies'[q].state \in ReplyInFlight => replies'[q].resume # NoState
      <4>1. CASE q \in Seqs
        BY <1>5, <4>1, RecordWrites, RowTypes
      <4>2. CASE q = Len(replies) + 1
        BY <1>5, <4>2, RecordWrites DEF ReplyInFlight, RejectReason, NoReason
      <4>3. QED
        BY <1>5, <4>1, <4>2, RecordWrites
    <3>2. bodies' \subseteq Seqs'
      BY <1>5, RecordWrites DEF TypeOK
    <3>3. QED
      BY <1>5, <3>1, <3>2, RecordWrites DEF RepliesTyped
  <2>2. TasksTyped' /\ UNCHANGED <<session, seen, dispatchedAt>>
    BY <1>0, <1>5 DEF RecordReply, taskVars, TasksTyped
  <2>3. QED
    BY <2>1, <2>2, TypeFromParts
<1>6. ASSUME NEW t \in Tasks, ClaimNextReply(t) PROVE TypeOK'
  <2>1. RepliesTyped'
    BY <1>6, ClaimWrites, MoveKeepsRepliesTyped
  <2>2. TasksTyped'
    BY <1>6, ClaimWrites, TransitionKeepsTasksTyped
  <2>3. QED
    BY <1>6, <2>1, <2>2, ClaimWrites, TypeFromParts
<1>7. ASSUME NEW s \in Seqs, AcknowledgeReply(s) PROVE TypeOK'
  <2>1. RepliesTyped'
    BY <1>7, AcknowledgeWrites, MoveKeepsRepliesTyped
  <2>2. TasksTyped' /\ session' = session
    BY <1>0, <1>7, AcknowledgeWrites DEF taskVars, TasksTyped
  <2>3. QED
    BY <1>7, <2>1, <2>2, AcknowledgeWrites, TypeFromParts
<1>8. ASSUME NEW s \in Seqs, MarkReplyUncertain(s) PROVE TypeOK'
  <2>1. RepliesTyped'
    BY <1>8, MarkUncertainWrites, MoveKeepsRepliesTyped
  <2>2. TasksTyped'
    BY <1>8, MarkUncertainWrites, TransitionKeepsTasksTyped, KeepTaskTyped, RowTypes
  <2>3. QED
    BY <1>8, <2>1, <2>2, MarkUncertainWrites, TypeFromParts
<1>9. ASSUME NEW s \in Seqs, NEW from \in ReplyInFlight, PutBack(s, from)
      PROVE  TypeOK'
  <2>1. RepliesTyped'
    BY <1>9, PutBackWrites, MoveKeepsRepliesTyped
  <2>2. CanResume(taskState[replies[s].mail.task], replies[s].resume)
          => replies[s].resume \in TaskState
    BY DEF CanResume, TaskState
  <2>3. TasksTyped'
    BY <1>9, <2>2, PutBackWrites, TransitionKeepsTasksTyped, KeepTaskTyped, RowTypes
  <2>4. QED
    BY <1>9, <2>1, <2>3, PutBackWrites, TypeFromParts
<1>10. ASSUME NEW s \in Seqs, ResolveUncertainReply(s, TRUE) PROVE TypeOK'
  <2>1. RepliesTyped'
    BY <1>10, ConfirmWrites, MoveKeepsRepliesTyped
  <2>2. TasksTyped'
    BY <1>10, ConfirmWrites, TransitionKeepsTasksTyped, KeepTaskTyped, RowTypes
  <2>3. QED
    BY <1>10, <2>1, <2>2, ConfirmWrites, TypeFromParts
<1>11. ASSUME RecoverInFlight PROVE TypeOK'
  <2>1. RepliesTyped'
    <3>1. ASSUME NEW q \in Seqs
          PROVE  /\ replies'[q].state = "REJECTED" <=> replies'[q].reason # NoReason
                 /\ replies'[q].state \in ReplyInFlight => replies'[q].resume # NoState
      BY <1>11, RecoverWrites, RowTypes DEF ReplyInFlight
    <3>2. /\ replies' \in Seq(Reply) /\ Len(replies') = Len(replies)
          /\ Seqs' = Seqs /\ bodies' = bodies
      BY <1>11, RecoverWrites
    <3>3. QED
      BY <3>1, <3>2 DEF RepliesTyped, TypeOK
  <2>2. TasksTyped'
    BY <1>11, RecoverWrites DEF TasksTyped
  <2>3. session' = session /\ seen' = seen /\ dispatchedAt' = dispatchedAt
    BY <1>11, RecoverWrites
  <2>4. QED
    BY <2>1, <2>2, <2>3, TypeFromParts
<1>12. CASE UNCHANGED vars
  BY <1>12 DEF vars, TypeOK, Seqs
<1>13. QED
  BY <1>1, <1>2, <1>3, <1>4, <1>5, <1>6, <1>7, <1>8, <1>9, <1>10, <1>11, <1>12
     DEF StoreCall, RequeueUnsentReply, ResolveUncertainReply,
         ReplyInFlight

LEMMA InitTyped == Init => TypeOK
<1>. SUFFICES ASSUME Init PROVE TypeOK
  OBVIOUS
<1>1. Seqs = {} /\ Len(replies) = 0 /\ replies \in Seq(Reply)
  BY DEF Init, Seqs
<1>2. QED
  BY <1>1, StoreAssumption DEF Init, TypeOK, EventName, NoTask, NoEvent

\* TypeOK holds in every reachable state of the store, whatever the tasks,
\* mails and callers: the rows stay in range, a reason is recorded exactly on
\* rejected replies, and a reply in flight knows where to resume.
THEOREM TypeCorrect == Spec => []TypeOK
<1>1. Init => TypeOK
  BY InitTyped
<1>2. TypeOK /\ [Next]_vars => TypeOK'
  BY TypeStep, NextIsCall
<1>3. QED
  BY <1>1, <1>2, PTL DEF Spec

-------------------------------------------------------------------------------
(* What a step may do to the queue and to the tasks, whatever the action.    *)

\* Every change of the queue is one of five.
LEMMA QueueEffect ==
  ASSUME TypeOK, [StoreCall]_vars
  PROVE  \/ replies' = replies /\ bodies' = bodies
         \/ \E t \in Tasks, why \in RejectReason : RejectQueued(t, why)
         \/ \E m \in Mails, b \in BOOLEAN : RecordReply(m, b)
         \/ \E t \in Tasks : ClaimNextReply(t)
         \/ \E s \in Seqs, from \in ReplyInFlight,
               to \in {"QUEUED", "UNCERTAIN", "ACKNOWLEDGED", "REJECTED"} :
               MovesReply(s, from, to)
         \/ RecoverInFlight
<1>. USE DEF ReplyInFlight
<1>1. ASSUME NEW t \in Tasks, CreateTask(t) PROVE replies' = replies /\ bodies' = bodies
  BY <1>1 DEF CreateTask
<1>2. ASSUME NEW c \in Callers, NEW t \in Tasks, ReadTask(c, t)
      PROVE  replies' = replies /\ bodies' = bodies
  BY <1>2 DEF ReadTask, replyVars
<1>3. ASSUME NEW t, NEW v, StartTask(t, v) PROVE replies' = replies /\ bodies' = bodies
  BY <1>3, StartWrites
<1>4. ASSUME NEW t, NEW v, NEW e \in ManualEvent, ApplyTaskEvent(t, v, e)
      PROVE  \/ replies' = replies /\ bodies' = bodies
             \/ t \in Tasks /\ \E why \in RejectReason : RejectQueued(t, why)
  BY <1>4, EventWrites
<1>5. ASSUME NEW s \in Seqs, AcknowledgeReply(s)
      PROVE  MovesReply(s, "DISPATCHING", "ACKNOWLEDGED")
  BY <1>5, AcknowledgeWrites
<1>6. ASSUME NEW s \in Seqs, MarkReplyUncertain(s)
      PROVE  MovesReply(s, "DISPATCHING", "UNCERTAIN")
  BY <1>6, MarkUncertainWrites
<1>7. ASSUME NEW s \in Seqs, NEW from \in ReplyInFlight, PutBack(s, from)
      PROVE  MovesReply(s, from, "REJECTED") \/ MovesReply(s, from, "QUEUED")
  BY <1>7, PutBackWrites
<1>8. ASSUME NEW s \in Seqs, ResolveUncertainReply(s, TRUE)
      PROVE  MovesReply(s, "UNCERTAIN", "ACKNOWLEDGED")
  BY <1>8, ConfirmWrites
<1>9. CASE UNCHANGED vars
  BY <1>9 DEF vars
<1>10. QED
  BY <1>1, <1>2, <1>3, <1>4, <1>5, <1>6, <1>7, <1>8, <1>9
     DEF StoreCall, RequeueUnsentReply, ResolveUncertainReply

-------------------------------------------------------------------------------
(* The queue by itself: order and bodies.                                  *)

LEMMA OrderStep ==
  ASSUME TypeOK, InOrder, [StoreCall]_vars
  PROVE  InOrder'
<1>. USE DEF ReplyInFlight, ReplyTerminal
<1>1. CASE replies' = replies /\ bodies' = bodies
  BY <1>1 DEF InOrder, Seqs
<1>2. ASSUME NEW t \in Tasks, NEW why \in RejectReason, RejectQueued(t, why)
      PROVE  InOrder'
  <2>1. \A q \in Seqs : /\ replies'[q].mail = replies[q].mail
                        /\ \/ replies'[q].state = replies[q].state
                           \/ replies'[q].state = "REJECTED"
    BY <1>2, RejectQueuedWrites
  <2>2. QED
    BY <1>2, <2>1, RejectQueuedWrites DEF InOrder
<1>3. ASSUME NEW m \in Mails, NEW b \in BOOLEAN, RecordReply(m, b) PROVE InOrder'
  <2>. DEFINE n == Len(replies) + 1
  <2>1. /\ Seqs' = Seqs \cup {n}
        /\ replies'[n].state \in {"QUEUED", "REJECTED"}
        /\ \A q \in Seqs : replies'[q] = replies[q]
    BY <1>3, RecordWrites
  <2>2. \A q \in Seqs : q < n
    BY LenProperties DEF TypeOK, Seqs
  <2>3. \A q \in Seqs : q \in Nat
    BY DEF TypeOK, Seqs
  <2>. HIDE DEF n
  <2>4. n \in Nat
    BY LenProperties DEF TypeOK, n
  <2>5. QED
    BY <2>1, <2>2, <2>3, <2>4 DEF InOrder
<1>4. ASSUME NEW t \in Tasks, ClaimNextReply(t) PROVE InOrder'
  <2>1. PICK s \in Seqs :
           /\ MovesReply(s, "QUEUED", "DISPATCHING")
           /\ replies[s].mail.task = t
           /\ \A q \in RepliesIn(t, {"QUEUED"}) : s <= q
           /\ RepliesIn(t, ReplyInFlight) = {}
    BY <1>4, ClaimWrites
  <2>2. /\ Seqs' = Seqs
        /\ \A q \in Seqs : q # s => replies'[q] = replies[q]
        /\ replies'[s].mail = replies[s].mail
        /\ replies[s].state = "QUEUED"
    BY <2>1 DEF MovesReply
  <2>3. \A q \in Seqs : q < s /\ replies[q].mail.task = t =>
                         replies[q].state \in ReplyTerminal
    <3>1. \A q \in Seqs : replies[q].state \in ReplyState
      BY RowTypes DEF Reply
    <3>2. \A q \in Seqs : replies[q].mail.task = t /\ q < s =>
                          replies[q].state \notin {"QUEUED", "DISPATCHING", "UNCERTAIN"}
      <4>. TAKE q \in Seqs
      <4>1. q \in Int /\ s \in Int
        BY DEF TypeOK, Seqs
      <4>2. QED
        BY <2>1, <4>1 DEF RepliesIn, RepliesOf
    <3>3. QED
      BY <3>1, <3>2 DEF ReplyState
  <2>4. QED
    BY <2>1, <2>2, <2>3 DEF InOrder
<1>5. ASSUME NEW s \in Seqs, NEW from \in ReplyInFlight,
             NEW to \in {"QUEUED", "UNCERTAIN", "ACKNOWLEDGED", "REJECTED"},
             MovesReply(s, from, to)
      PROVE  InOrder'
  <2>1. /\ Seqs' = Seqs
        /\ \A q \in Seqs : q # s => replies'[q] = replies[q]
        /\ replies'[s].mail = replies[s].mail
        /\ replies[s].state = from
    BY <1>5 DEF MovesReply
  <2>2. QED
    BY <2>1 DEF InOrder
<1>6. ASSUME RecoverInFlight PROVE InOrder'
  <2>1. \A q \in Seqs : /\ replies'[q].mail = replies[q].mail
                        /\ replies'[q].state = IF replies[q].state = "DISPATCHING"
                                               THEN "UNCERTAIN" ELSE replies[q].state
    BY <1>6, RecoverWrites
  <2>2. QED
    BY <1>6, <2>1, RecoverWrites DEF InOrder
<1>7. QED
  BY <1>1, <1>2, <1>3, <1>4, <1>5, <1>6, QueueEffect

\* The mails of the rows never change; only RecordReply adds one.
LEMMA MailsEffect ==
  ASSUME TypeOK, [StoreCall]_vars
  PROVE  \/ Seqs' = Seqs /\ \A q \in Seqs : replies'[q].mail = replies[q].mail
         \/ \E m \in Mails, b \in BOOLEAN : RecordReply(m, b)
<1>1. CASE replies' = replies
  BY <1>1 DEF Seqs
<1>2. ASSUME NEW t \in Tasks, NEW why \in RejectReason, RejectQueued(t, why)
      PROVE  Seqs' = Seqs /\ \A q \in Seqs : replies'[q].mail = replies[q].mail
  BY <1>2, RejectQueuedWrites
<1>3. ASSUME NEW s \in Seqs, NEW from, NEW to, MovesReply(s, from, to)
      PROVE  Seqs' = Seqs /\ \A q \in Seqs : replies'[q].mail = replies[q].mail
  BY <1>3 DEF MovesReply
<1>4. ASSUME NEW t \in Tasks, ClaimNextReply(t)
      PROVE  Seqs' = Seqs /\ \A q \in Seqs : replies'[q].mail = replies[q].mail
  BY <1>3, <1>4, ClaimWrites
<1>5. ASSUME RecoverInFlight
      PROVE  Seqs' = Seqs /\ \A q \in Seqs : replies'[q].mail = replies[q].mail
  BY <1>5, RecoverWrites
<1>6. QED
  BY <1>1, <1>2, <1>3, <1>4, <1>5, QueueEffect

LEMMA RowPerMailStep ==
  ASSUME TypeOK, OneRowPerMail, [StoreCall]_vars
  PROVE  OneRowPerMail'
<1>1. CASE Seqs' = Seqs /\ \A q \in Seqs : replies'[q].mail = replies[q].mail
  BY <1>1 DEF OneRowPerMail
<1>2. ASSUME NEW m \in Mails, NEW b \in BOOLEAN, RecordReply(m, b)
      PROVE  OneRowPerMail'
  <2>. DEFINE n == Len(replies) + 1
  <2>1. /\ Seqs' = Seqs \cup {n}
        /\ replies'[n].mail = m
        /\ \A q \in Seqs : replies'[q] = replies[q]
    BY <1>2, RecordWrites
  <2>2. \A q \in Seqs : replies[q].mail.place # m.place /\ replies[q].mail.id # m.id
    BY <1>2 DEF RecordReply, FirstSeen
  <2>. HIDE DEF n
  <2>3. QED
    BY <2>1, <2>2 DEF OneRowPerMail
<1>3. QED
  BY <1>1, <1>2, MailsEffect

LEMMA BodyStep ==
  ASSUME TypeOK, BodyWhileNeeded, [StoreCall]_vars
  PROVE  BodyWhileNeeded'
<1>. USE DEF ReplyInFlight, ReplyTerminal
<1>1. CASE replies' = replies /\ bodies' = bodies
  BY <1>1 DEF BodyWhileNeeded, Seqs
<1>2. ASSUME NEW t \in Tasks, NEW why \in RejectReason, RejectQueued(t, why)
      PROVE  BodyWhileNeeded'
  <2>1. \A q \in Seqs : \/ replies'[q].state = replies[q].state /\ (q \in bodies' <=> q \in bodies)
                        \/ replies'[q].state = "REJECTED" /\ q \notin bodies'
    BY <1>2, RejectQueuedWrites
  <2>2. QED
    BY <1>2, <2>1, RejectQueuedWrites DEF BodyWhileNeeded
<1>3. ASSUME NEW m \in Mails, NEW b \in BOOLEAN, RecordReply(m, b) PROVE BodyWhileNeeded'
  BY <1>3, RecordWrites DEF BodyWhileNeeded
<1>4. ASSUME NEW t \in Tasks, ClaimNextReply(t) PROVE BodyWhileNeeded'
  BY <1>4, ClaimWrites DEF BodyWhileNeeded, MovesReply
<1>5. ASSUME NEW s \in Seqs, NEW from \in ReplyInFlight,
             NEW to \in {"QUEUED", "UNCERTAIN", "ACKNOWLEDGED", "REJECTED"},
             MovesReply(s, from, to)
      PROVE  BodyWhileNeeded'
  BY <1>5 DEF BodyWhileNeeded, MovesReply
<1>6. ASSUME RecoverInFlight PROVE BodyWhileNeeded'
  BY <1>6, RecoverWrites DEF BodyWhileNeeded
<1>7. QED
  BY <1>1, <1>2, <1>3, <1>4, <1>5, <1>6, QueueEffect

-------------------------------------------------------------------------------
(* Tasks and their snapshots.                                              *)

\* A step leaves a task alone or moves it one version up; only CreateTask
\* concerns a task that did not exist, and no task ceases to exist.
Moves(t) ==
  \/ taskState'[t] = taskState[t] /\ version'[t] = version[t] /\ recent'[t] = recent[t]
  \/ /\ version'[t] = version[t] + 1
     /\ taskState'[t] \in TaskState \ {"CREATED"}
     /\ recent'[t].before = recent[t].last
     /\ taskState[t] # NoTask

LEMMA StatesAreNames ==
  /\ NoTask \notin TaskState
  /\ \A s : AcceptsReplies(s) => s \in TaskState \ {NoTask, "CREATED"}
  /\ "RUNNING" \in TaskState /\ "DELIVERY_UNCERTAIN" \in TaskState
  BY DEF NoTask, TaskState, AcceptsReplies

LEMMA NotCreatedAgain ==
  \A s \in TaskState, e \in ManualEvent : TaskAllows(s, e) => TaskNext(s, e) # "CREATED"
  BY DEF TaskState, ManualEvent, TaskAllows, TaskNext, TaskTransitions

LEMMA TransitionMoves ==
  ASSUME TypeOK, NEW t \in Tasks, NEW e \in EventName, NEW to \in TaskState \ {"CREATED"},
         taskState[t] # NoTask, WriteTaskTransition(t, e, to)
  PROVE  \A u \in Tasks : Moves(u)
  BY TransitionWrites DEF Moves

LEMMA TaskEffect ==
  ASSUME TypeOK, InFlightHasStarted, [StoreCall]_vars,
         NEW t \in Tasks
  PROVE  \/ Moves(t)
         \/ taskState[t] = NoTask /\ taskState'[t] = "CREATED"
<1>. USE StoreEventNames, StatesAreNames
<1>1. ASSUME NEW u \in Tasks, CreateTask(u)
      PROVE  Moves(t) \/ (taskState[t] = NoTask /\ taskState'[t] = "CREATED")
  BY <1>1 DEF CreateTask, Moves, TypeOK
<1>2. ASSUME NEW c \in Callers, NEW u \in Tasks, ReadTask(c, u) PROVE Moves(t)
  BY <1>2 DEF ReadTask, taskVars, Moves
<1>3. ASSUME NEW u, NEW v, StartTask(u, v) PROVE Moves(t)
  <2>1. u \in Tasks /\ taskState[u] = "CREATED" /\ WriteTaskTransition(u, "start", "RUNNING")
    BY <1>3, StartWrites
  <2>2. QED
    BY <2>1, TransitionMoves DEF NoTask
<1>4. ASSUME NEW u, NEW v, NEW e \in ManualEvent, ApplyTaskEvent(u, v, e) PROVE Moves(t)
  <2>1. /\ u \in Tasks /\ TaskAllows(taskState[u], e)
        /\ TaskNext(taskState[u], e) \in TaskState
        /\ e \in EventName
        /\ WriteTaskTransition(u, e, TaskNext(taskState[u], e))
    BY <1>4, EventWrites
  <2>2. taskState[u] \in TaskState
    BY <2>1 DEF TaskAllows
  <2>3. TaskNext(taskState[u], e) # "CREATED" /\ taskState[u] # NoTask
    BY <2>1, <2>2, NotCreatedAgain
  <2>4. QED
    BY <2>1, <2>3, TransitionMoves
<1>5. ASSUME NEW m \in Mails, NEW b \in BOOLEAN, RecordReply(m, b) PROVE Moves(t)
  BY <1>5 DEF RecordReply, taskVars, Moves
<1>6. ASSUME NEW u \in Tasks, ClaimNextReply(u) PROVE Moves(t)
  <2>1. /\ taskState[u] \in {"COMPLETED", "WAITING_INPUT"}
        /\ WriteTaskTransition(u, "reply_dispatched", "RUNNING")
    BY <1>6, ClaimWrites
  <2>2. QED
    BY <2>1, TransitionMoves DEF NoTask
<1>7. ASSUME NEW s \in Seqs, AcknowledgeReply(s) PROVE Moves(t)
  BY <1>7 DEF AcknowledgeReply, taskVars, Moves
<1>8. ASSUME NEW s \in Seqs, MarkReplyUncertain(s) PROVE Moves(t)
  <2>. DEFINE u == replies[s].mail.task
  <2>1. CASE /\ taskState[u] = "RUNNING"
             /\ WriteTaskTransition(u, "delivery_unknown", "DELIVERY_UNCERTAIN")
    BY <2>1, RowTypes, TransitionMoves DEF NoTask
  <2>2. CASE KeepTask
    BY <2>2 DEF KeepTask, Moves
  <2>3. QED
    BY <1>8, <2>1, <2>2, MarkUncertainWrites
<1>9. ASSUME NEW s \in Seqs, NEW from \in ReplyInFlight, PutBack(s, from) PROVE Moves(t)
  <2>. DEFINE u == replies[s].mail.task
  <2>1. CASE /\ CanResume(taskState[u], replies[s].resume)
             /\ WriteTaskTransition(u, "reply_unsent", replies[s].resume)
    <3>1. replies[s].resume \in TaskState \ {"CREATED"} /\ taskState[u] # NoTask
      BY <2>1 DEF CanResume, NoTask
    <3>2. QED
      BY <2>1, <3>1, RowTypes, TransitionMoves
  <2>2. CASE KeepTask
    BY <2>2 DEF KeepTask, Moves
  <2>3. QED
    BY <1>9, <2>1, <2>2, PutBackWrites
<1>10. ASSUME NEW s \in Seqs, ResolveUncertainReply(s, TRUE) PROVE Moves(t)
  <2>. DEFINE u == replies[s].mail.task
  <2>1. CASE /\ taskState[u] = "DELIVERY_UNCERTAIN"
             /\ WriteTaskTransition(u, "delivery_confirmed", "RUNNING")
    BY <2>1, RowTypes, TransitionMoves DEF NoTask
  <2>2. CASE KeepTask
    BY <2>2 DEF KeepTask, Moves
  <2>3. QED
    BY <1>10, <2>1, <2>2, ConfirmWrites
<1>11. ASSUME RecoverInFlight PROVE Moves(t)
  <2>1. CASE Lost(t)
    <3>1. /\ taskState'[t] = "DELIVERY_UNCERTAIN"
          /\ version'[t] = version[t] + 1
          /\ recent'[t].before = recent[t].last
      BY <1>11, <2>1, RecoverWrites, Zenon
    <3>2. taskState[t] # NoTask
      BY <2>1 DEF Lost, NoTask
    <3>3. QED
      BY <3>1, <3>2 DEF Moves
  <2>2. CASE ~Lost(t)
    BY <1>11, <2>2, RecoverWrites DEF Moves
  <2>3. QED
    BY <2>1, <2>2
<1>12. CASE UNCHANGED vars
  BY <1>12 DEF vars, Moves
<1>13. QED
  BY <1>1, <1>2, <1>3, <1>4, <1>5, <1>6, <1>7, <1>8, <1>9, <1>10, <1>11, <1>12
     DEF StoreCall, RequeueUnsentReply, ResolveUncertainReply,
         ReplyInFlight

\* A caller's snapshot changes only by reading a task as it is.
LEMMA SeenEffect ==
  ASSUME TypeOK, [StoreCall]_vars, NEW c \in Callers
  PROVE  \/ seen'[c] = seen[c]
         \/ \E t \in Tasks : /\ taskState[t] # NoTask
                             /\ seen'[c].task = t
                             /\ seen'[c].version = version[t]
                             /\ seen'[c].state = taskState[t]
                             /\ taskState' = taskState /\ version' = version
<1>. USE DEF TypeOK
<1>1. ASSUME NEW d \in Callers, NEW t \in Tasks, ReadTask(d, t)
      PROVE  \/ seen'[c] = seen[c]
             \/ /\ taskState[t] # NoTask
                /\ seen'[c].task = t
                /\ seen'[c].version = version[t]
                /\ seen'[c].state = taskState[t]
                /\ taskState' = taskState /\ version' = version
  BY <1>1 DEF ReadTask, taskVars
<1>2. CASE seen' = seen
  BY <1>2
<1>3. \/ seen' = seen
      \/ \E d \in Callers, t \in Tasks : ReadTask(d, t)
  BY DEF StoreCall, CreateTask, StartTask, ApplyTaskEvent,
         RecordReply, ClaimNextReply, AcknowledgeReply, MarkReplyUncertain,
         RequeueUnsentReply, ResolveUncertainReply, PutBack, RecoverInFlight, vars
<1>4. QED
  BY <1>1, <1>2, <1>3

LEMMA SnapshotStep ==
  ASSUME TypeOK, SnapshotsNotAhead, SnapshotIsCurrent, InFlightHasStarted, [StoreCall]_vars
  PROVE  SnapshotsNotAhead' /\ SnapshotIsCurrent'
<1>. SUFFICES ASSUME NEW c \in Callers, seen'[c].task \in Tasks
             PROVE  /\ taskState'[seen'[c].task] # NoTask
                    /\ seen'[c].version <= version'[seen'[c].task]
                    /\ seen'[c].version = version'[seen'[c].task] =>
                         seen'[c].state = taskState'[seen'[c].task]
  BY DEF SnapshotsNotAhead, SnapshotIsCurrent, Current
<1>1. CASE seen'[c] = seen[c]
  <2>. DEFINE t == seen[c].task
  <2>1. /\ t \in Tasks
        /\ taskState[t] # NoTask
        /\ seen[c].version <= version[t]
        /\ seen[c].version = version[t] => seen[c].state = taskState[t]
    BY <1>1 DEF SnapshotsNotAhead, SnapshotIsCurrent, Current
  <2>2. Moves(t)
    BY <2>1, TaskEffect
  <2>3. seen[c].version \in Nat /\ version[t] \in Nat
    BY <2>1 DEF TypeOK
  <2>. HIDE DEF t
  <2>4. seen'[c].task = t
    BY <1>1 DEF t
  <2>5. /\ taskState'[t] # NoTask
        /\ seen[c].version <= version'[t]
        /\ seen[c].version = version'[t] => seen[c].state = taskState'[t]
    BY <2>1, <2>2, <2>3, StatesAreNames DEF Moves
  <2>6. QED
    BY <1>1, <2>4, <2>5
<1>2. ASSUME NEW t \in Tasks, taskState[t] # NoTask, seen'[c].task = t,
             seen'[c].version = version[t], seen'[c].state = taskState[t],
             taskState' = taskState, version' = version
      PROVE  /\ taskState'[seen'[c].task] # NoTask
             /\ seen'[c].version <= version'[seen'[c].task]
             /\ seen'[c].version = version'[seen'[c].task] =>
                  seen'[c].state = taskState'[seen'[c].task]
  <2>1. version[t] \in Nat
    BY DEF TypeOK
  <2>2. QED
    BY <1>2, <2>1
<1>3. QED
  BY <1>1, <1>2, SeenEffect

-------------------------------------------------------------------------------
(* The queue and the tasks together.                                       *)

\* A reply is in flight after a step because it was before, or because the
\* step claims it.
LEMMA InFlightOrigin ==
  ASSUME TypeOK, [StoreCall]_vars, NEW q \in Seqs', replies'[q].state \in ReplyInFlight
  PROVE  /\ q \in Seqs
         /\ replies'[q].mail = replies[q].mail
         /\ \/ replies[q].state \in ReplyInFlight
            \/ LET t == replies[q].mail.task
               IN  /\ RepliesIn(t, ReplyInFlight) = {}
                   /\ taskState'[t] = "RUNNING"
                   /\ version'[t] = version[t] + 1
                   /\ recent'[t].last = "reply_dispatched"
                   /\ dispatchedAt'[q] = version[t] + 1
<1>. USE DEF ReplyInFlight
<1>1. CASE replies' = replies
  BY <1>1 DEF Seqs
<1>2. ASSUME NEW t \in Tasks, NEW why \in RejectReason, RejectQueued(t, why)
      PROVE  q \in Seqs /\ replies'[q] = replies[q]
  BY <1>2, RejectQueuedWrites
<1>3. ASSUME NEW m \in Mails, NEW b \in BOOLEAN, RecordReply(m, b)
      PROVE  q \in Seqs /\ replies'[q] = replies[q]
  BY <1>3, RecordWrites
<1>4. ASSUME NEW t \in Tasks, ClaimNextReply(t)
      PROVE  /\ q \in Seqs
             /\ replies'[q].mail = replies[q].mail
             /\ \/ replies[q].state \in ReplyInFlight
                \/ /\ t = replies[q].mail.task
                   /\ RepliesIn(t, ReplyInFlight) = {}
                   /\ taskState'[t] = "RUNNING"
                   /\ version'[t] = version[t] + 1
                   /\ recent'[t].last = "reply_dispatched"
                   /\ dispatchedAt'[q] = version[t] + 1
  <2>1. PICK s \in Seqs :
           /\ MovesReply(s, "QUEUED", "DISPATCHING")
           /\ replies[s].mail.task = t
           /\ RepliesIn(t, ReplyInFlight) = {}
           /\ WriteTaskTransition(t, "reply_dispatched", "RUNNING")
           /\ dispatchedAt' = [dispatchedAt EXCEPT ![s] = version[t] + 1]
    BY <1>4, ClaimWrites
  <2>2. /\ Seqs' = Seqs
        /\ \A p \in Seqs : p # s => replies'[p] = replies[p]
        /\ replies'[s].mail = replies[s].mail
    BY <2>1 DEF MovesReply
  <2>3. /\ taskState'[t] = "RUNNING"
        /\ version'[t] = version[t] + 1
        /\ recent'[t].last = "reply_dispatched"
    BY <2>1, TransitionWrites, StoreEventNames
  <2>4. dispatchedAt'[s] = version[t] + 1
    BY <2>1, RowTypes DEF TypeOK
  <2>5. QED
    BY <2>1, <2>2, <2>3, <2>4
<1>5. ASSUME NEW s \in Seqs, NEW from \in ReplyInFlight,
             NEW to \in {"QUEUED", "UNCERTAIN", "ACKNOWLEDGED", "REJECTED"},
             MovesReply(s, from, to)
      PROVE  /\ q \in Seqs
             /\ replies'[q].mail = replies[q].mail
             /\ replies[q].state \in ReplyInFlight
  BY <1>5 DEF MovesReply
<1>6. ASSUME RecoverInFlight
      PROVE  /\ q \in Seqs
             /\ replies'[q].mail = replies[q].mail
             /\ replies[q].state \in ReplyInFlight
  BY <1>6, RecoverWrites
<1>7. QED
  BY <1>1, <1>2, <1>3, <1>4, <1>5, <1>6, QueueEffect

LEMMA StartedStep ==
  ASSUME TypeOK, InFlightHasStarted, [StoreCall]_vars
  PROVE  InFlightHasStarted'
<1>. SUFFICES ASSUME NEW q \in Seqs', replies'[q].state \in ReplyInFlight
             PROVE  taskState'[replies'[q].mail.task] \notin {NoTask, "CREATED"}
  BY DEF InFlightHasStarted
<1>. DEFINE t == replies[q].mail.task
<1>1. q \in Seqs /\ replies'[q].mail = replies[q].mail
  BY InFlightOrigin
<1>2. CASE replies[q].state \in ReplyInFlight
  <2>1. t \in Tasks /\ taskState[t] \notin {NoTask, "CREATED"}
    BY <1>1, <1>2, RowTypes DEF InFlightHasStarted
  <2>2. Moves(t)
    BY <2>1, TaskEffect
  <2>3. QED
    BY <1>1, <2>1, <2>2, StatesAreNames DEF Moves
<1>3. CASE taskState'[t] = "RUNNING"
  BY <1>1, <1>3, StatesAreNames
<1>4. QED
  BY <1>2, <1>3, InFlightOrigin

\* A task moves by the event reply_dispatched only when a reply is claimed.
LEMMA OnlyClaimDispatches ==
  ASSUME TypeOK, [StoreCall]_vars, NEW t \in Tasks, taskState[t] # NoTask,
         version'[t] # version[t],
         recent'[t].last = "reply_dispatched"
  PROVE  ClaimNextReply(t)
<1>. USE StoreEventNames
<1>0. \A u \in Tasks, e \in EventName, to \in TaskState :
        WriteTaskTransition(u, e, to) => u = t /\ e = "reply_dispatched"
  BY TransitionWrites
<1>1. ASSUME NEW u \in Tasks, CreateTask(u) PROVE FALSE
  BY <1>1 DEF CreateTask, TypeOK
<1>2. ASSUME NEW c \in Callers, NEW u \in Tasks, ReadTask(c, u) PROVE FALSE
  BY <1>2 DEF ReadTask, taskVars
<1>3. ASSUME NEW u, NEW v, StartTask(u, v) PROVE FALSE
  BY <1>0, <1>3, StartWrites
<1>4. ASSUME NEW u, NEW v, NEW e \in ManualEvent, ApplyTaskEvent(u, v, e) PROVE FALSE
  BY <1>0, <1>4, EventWrites
<1>5. ASSUME NEW m \in Mails, NEW b \in BOOLEAN, RecordReply(m, b) PROVE FALSE
  BY <1>5 DEF RecordReply, taskVars
<1>6. ASSUME NEW u \in Tasks, ClaimNextReply(u) PROVE u = t
  BY <1>0, <1>6, ClaimWrites
<1>7. ASSUME NEW s \in Seqs, AcknowledgeReply(s) PROVE FALSE
  BY <1>7 DEF AcknowledgeReply, taskVars
<1>8. ASSUME NEW s \in Seqs, MarkReplyUncertain(s) PROVE FALSE
  BY <1>0, <1>8, MarkUncertainWrites, RowTypes DEF KeepTask
<1>9. ASSUME NEW s \in Seqs, NEW from \in ReplyInFlight, PutBack(s, from) PROVE FALSE
  <2>1. CanResume(taskState[replies[s].mail.task], replies[s].resume)
          => replies[s].resume \in TaskState
    BY DEF CanResume
  <2>2. QED
    BY <1>0, <1>9, <2>1, PutBackWrites, RowTypes DEF KeepTask
<1>10. ASSUME NEW s \in Seqs, ResolveUncertainReply(s, TRUE) PROVE FALSE
  BY <1>0, <1>10, ConfirmWrites, RowTypes DEF KeepTask
<1>11. ASSUME RecoverInFlight PROVE FALSE
  <2>1. CASE Lost(t)
    <3>1. recent'[t].last = "delivery_unknown"
      BY <1>11, <2>1, RecoverWrites, Zenon
    <3>2. QED
      BY <3>1
  <2>2. CASE ~Lost(t)
    BY <1>11, <2>2, RecoverWrites
  <2>3. QED
    BY <2>1, <2>2
<1>12. CASE UNCHANGED vars
  BY <1>12 DEF vars
<1>13. QED
  BY <1>1, <1>2, <1>3, <1>4, <1>5, <1>6, <1>7, <1>8, <1>9, <1>10, <1>11, <1>12
     DEF StoreCall, RequeueUnsentReply, ResolveUncertainReply,
         ReplyInFlight

\* Only a claim writes the version a reply was dispatched at.
LEMMA DispatchedAtEffect ==
  ASSUME TypeOK, [StoreCall]_vars, NEW q \in Seqs, replies[q].state \in ReplyInFlight
  PROVE  dispatchedAt'[q] = dispatchedAt[q]
<1>1. ASSUME NEW t \in Tasks, ClaimNextReply(t) PROVE dispatchedAt'[q] = dispatchedAt[q]
  <2>1. PICK s \in Seqs : /\ MovesReply(s, "QUEUED", "DISPATCHING")
                         /\ dispatchedAt' = [dispatchedAt EXCEPT ![s] = version[t] + 1]
    BY <1>1, ClaimWrites
  <2>2. s # q
    BY <2>1 DEF MovesReply, ReplyInFlight
  <2>3. QED
    BY <2>1, <2>2, RowTypes DEF TypeOK
<1>2. dispatchedAt' = dispatchedAt \/ \E t \in Tasks : ClaimNextReply(t)
  BY DEF StoreCall, CreateTask, ReadTask, StartTask, ApplyTaskEvent,
         RecordReply, AcknowledgeReply, MarkReplyUncertain, replyVars,
         RequeueUnsentReply, ResolveUncertainReply, PutBack, RecoverInFlight, vars
<1>3. QED
  BY <1>1, <1>2

LEMMA MarksStep ==
  ASSUME TypeOK, InFlightHasStarted, DispatchMarks, [StoreCall]_vars
  PROVE  DispatchMarks'
<1>. SUFFICES ASSUME NEW q \in Seqs', replies'[q].state \in ReplyInFlight
             PROVE  LET t == replies'[q].mail.task
                    IN  /\ dispatchedAt'[q] <= version'[t]
                        /\ recent'[t].last = "reply_dispatched"
                             => dispatchedAt'[q] = version'[t]
                        /\ /\ recent'[t].before = "reply_dispatched"
                           /\ recent'[t].last # "reply_dispatched"
                           => dispatchedAt'[q] = version'[t] - 1
  BY DEF DispatchMarks
<1>. DEFINE t == replies[q].mail.task
<1>1. q \in Seqs /\ replies'[q].mail = replies[q].mail /\ t \in Tasks
  BY InFlightOrigin, RowTypes
<1>2. version[t] \in Nat /\ dispatchedAt[q] \in Nat
  BY <1>1, RowTypes DEF TypeOK
<1>3. CASE replies[q].state \in ReplyInFlight
  <2>1. /\ dispatchedAt[q] <= version[t]
        /\ recent[t].last = "reply_dispatched" => dispatchedAt[q] = version[t]
        /\ /\ recent[t].before = "reply_dispatched"
           /\ recent[t].last # "reply_dispatched"
           => dispatchedAt[q] = version[t] - 1
    BY <1>1, <1>3 DEF DispatchMarks
  <2>2. dispatchedAt'[q] = dispatchedAt[q]
    BY <1>1, <1>3, DispatchedAtEffect
  <2>3. taskState[t] # NoTask /\ q \in RepliesIn(t, ReplyInFlight)
    BY <1>1, <1>3 DEF InFlightHasStarted, RepliesIn, RepliesOf
  <2>4. Moves(t)
    BY <1>1, <2>3, TaskEffect
  <2>5. version'[t] # version[t] => recent'[t].last # "reply_dispatched"
    BY <1>1, <2>3, OnlyClaimDispatches DEF ClaimNextReply, InFlight
  <2>. HIDE DEF t
  <2>6. QED
    BY <1>1, <1>2, <2>1, <2>2, <2>4, <2>5 DEF Moves, t
<1>4. CASE /\ version'[t] = version[t] + 1
           /\ recent'[t].last = "reply_dispatched"
           /\ dispatchedAt'[q] = version[t] + 1
  BY <1>1, <1>2, <1>4
<1>5. QED
  BY <1>3, <1>4, InFlightOrigin

\* A task stops accepting replies only in a step that sweeps its queue.
LEMMA AcceptingKept ==
  ASSUME TypeOK, [StoreCall]_vars, NEW t \in Tasks, AcceptsReplies(taskState[t])
  PROVE  \/ AcceptsReplies(taskState'[t])
         \/ \E why \in RejectReason : RejectQueued(t, why)
<1>. USE StoreEventNames
<1>a. \A u \in Tasks, e \in EventName, to \in TaskState :
        WriteTaskTransition(u, e, to) /\ AcceptsReplies(to) => AcceptsReplies(taskState'[t])
  BY TransitionWrites
<1>b. /\ AcceptsReplies("RUNNING") /\ AcceptsReplies("DELIVERY_UNCERTAIN")
      /\ AcceptsReplies("COMPLETED") /\ AcceptsReplies("WAITING_INPUT")
      /\ ~AcceptsReplies(NoTask)
  BY DEF AcceptsReplies, NoTask
<1>1. ASSUME NEW u \in Tasks, CreateTask(u) PROVE AcceptsReplies(taskState'[t])
  <2>1. u # t
    BY <1>1, <1>b DEF CreateTask
  <2>2. QED
    BY <1>1, <2>1 DEF CreateTask, TypeOK
<1>2. ASSUME taskState' = taskState PROVE AcceptsReplies(taskState'[t])
  BY <1>2
<1>3. ASSUME NEW u, NEW v, StartTask(u, v) PROVE AcceptsReplies(taskState'[t])
  BY <1>3, <1>a, <1>b, StartWrites
<1>4. ASSUME NEW u, NEW v, NEW e \in ManualEvent, ApplyTaskEvent(u, v, e)
      PROVE  \/ AcceptsReplies(taskState'[t])
             \/ \E why \in RejectReason : RejectQueued(t, why)
  <2>1. /\ u \in Tasks /\ TaskNext(taskState[u], e) \in TaskState
        /\ e \in EventName
        /\ WriteTaskTransition(u, e, TaskNext(taskState[u], e))
        /\ \/ \E why \in RejectReason : RejectQueued(u, why)
           \/ AcceptsReplies(TaskNext(taskState[u], e))
    BY <1>4, EventWrites
  <2>2. CASE u = t
    BY <1>a, <2>1, <2>2
  <2>3. CASE u # t
    <3>1. taskState'[t] = taskState[t]
      BY <2>1, <2>3, TransitionWrites
    <3>2. QED
      BY <3>1
  <2>4. QED
    BY <2>2, <2>3
<1>6. ASSUME NEW u \in Tasks, ClaimNextReply(u) PROVE AcceptsReplies(taskState'[t])
  BY <1>6, <1>a, <1>b, ClaimWrites
<1>8. ASSUME NEW s \in Seqs, MarkReplyUncertain(s) PROVE AcceptsReplies(taskState'[t])
  BY <1>8, <1>a, <1>b, MarkUncertainWrites, RowTypes DEF KeepTask
<1>9. ASSUME NEW s \in Seqs, NEW from \in ReplyInFlight, PutBack(s, from)
      PROVE  AcceptsReplies(taskState'[t])
  <2>1. CanResume(taskState[replies[s].mail.task], replies[s].resume)
          => AcceptsReplies(replies[s].resume) /\ replies[s].resume \in TaskState
    BY <1>b DEF CanResume
  <2>2. QED
    BY <1>9, <1>a, <2>1, PutBackWrites, RowTypes DEF KeepTask
<1>10. ASSUME NEW s \in Seqs, ResolveUncertainReply(s, TRUE)
       PROVE  AcceptsReplies(taskState'[t])
  BY <1>10, <1>a, <1>b, ConfirmWrites, RowTypes DEF KeepTask
<1>11. ASSUME RecoverInFlight PROVE AcceptsReplies(taskState'[t])
  <2>1. CASE Lost(t)
    <3>1. taskState'[t] = "DELIVERY_UNCERTAIN"
      BY <1>11, <2>1, RecoverWrites, Zenon
    <3>2. QED
      BY <1>b, <3>1
  <2>2. CASE ~Lost(t)
    BY <1>11, <2>2, RecoverWrites
  <2>3. QED
    BY <2>1, <2>2
<1>12. ASSUME \/ \E c \in Callers, u \in Tasks : ReadTask(c, u)
              \/ \E m \in Mails, b \in BOOLEAN : RecordReply(m, b)
              \/ \E s \in Seqs : AcknowledgeReply(s)
              \/ UNCHANGED vars
       PROVE  taskState' = taskState
  BY <1>12 DEF ReadTask, RecordReply, AcknowledgeReply, vars, taskVars
<1>13. QED
  BY <1>1, <1>2, <1>3, <1>4, <1>6, <1>8, <1>9, <1>10, <1>11, <1>12
     DEF StoreCall, RequeueUnsentReply, ResolveUncertainReply,
         ReplyInFlight

\* A reply that returns to the queue was put back, and its task has returned
\* to the state it was dispatched from.
LEMMA BackInQueue ==
  ASSUME TypeOK, [StoreCall]_vars, NEW q \in Seqs,
         replies[q].state # "QUEUED", replies'[q].state = "QUEUED"
  PROVE  LET t == replies[q].mail.task
         IN  /\ replies[q].state \in ReplyInFlight
             /\ replies'[q].mail = replies[q].mail
             /\ UntouchedSinceDispatch(t, replies[q].state)
             /\ CanResume(taskState[t], replies[q].resume)
             /\ taskState'[t] = replies[q].resume
<1>. USE DEF ReplyInFlight
<1>. DEFINE Goal == LET t == replies[q].mail.task
                    IN  /\ replies[q].state \in ReplyInFlight
                        /\ replies'[q].mail = replies[q].mail
                        /\ UntouchedSinceDispatch(t, replies[q].state)
                        /\ CanResume(taskState[t], replies[q].resume)
                        /\ taskState'[t] = replies[q].resume
<1>1. ASSUME NEW t \in Tasks, NEW why \in RejectReason, RejectQueued(t, why) PROVE FALSE
  BY <1>1, RejectQueuedWrites
<1>2. ASSUME NEW m \in Mails, NEW b \in BOOLEAN, RecordReply(m, b) PROVE FALSE
  BY <1>2, RecordWrites
<1>3. ASSUME NEW t \in Tasks, ClaimNextReply(t) PROVE FALSE
  BY <1>3, ClaimWrites DEF MovesReply
<1>4. ASSUME NEW s \in Seqs, NEW from, NEW to \in {"UNCERTAIN", "ACKNOWLEDGED", "REJECTED"},
             MovesReply(s, from, to)
      PROVE  FALSE
  BY <1>4 DEF MovesReply
<1>5. ASSUME RecoverInFlight PROVE FALSE
  BY <1>5, RecoverWrites
<1>6. ASSUME NEW s \in Seqs, NEW from \in ReplyInFlight, PutBack(s, from) PROVE Goal
  <2>1. CASE MovesReply(s, from, "REJECTED")
    BY <1>4, <2>1
  <2>2. CASE LET t == replies[s].mail.task
             IN  /\ MovesReply(s, from, "QUEUED")
                 /\ UntouchedSinceDispatch(t, from)
                 /\ CanResume(taskState[t], replies[s].resume)
                 /\ WriteTaskTransition(t, "reply_unsent", replies[s].resume)
    <3>1. q = s /\ replies[q].state = from /\ replies'[q].mail = replies[q].mail
      BY <2>2 DEF MovesReply
    <3>2. replies[s].resume \in TaskState /\ "reply_unsent" \in EventName
      BY <2>2 DEF CanResume, TaskState, EventName
    <3>3. taskState'[replies[s].mail.task] = replies[s].resume
      BY <2>2, <3>2, RowTypes, TransitionWrites
    <3>4. QED
      BY <2>2, <3>1, <3>3
  <2>3. QED
    BY <1>6, <2>1, <2>2, PutBackWrites
<1>7. ASSUME replies' = replies PROVE FALSE
  BY <1>7
<1>8. ASSUME NEW t, NEW v, NEW e \in ManualEvent, ApplyTaskEvent(t, v, e) PROVE FALSE
  BY <1>1, <1>7, <1>8, EventWrites
<1>9. ASSUME \/ \E c \in Callers, u \in Tasks : ReadTask(c, u)
             \/ \E u \in Tasks : CreateTask(u)
             \/ UNCHANGED vars
      PROVE  replies' = replies
  BY <1>9 DEF ReadTask, CreateTask, vars, replyVars
<1>10. ASSUME NEW t, NEW v, StartTask(t, v) PROVE FALSE
  BY <1>7, <1>10, StartWrites
<1>11. ASSUME NEW s \in Seqs, AcknowledgeReply(s) PROVE FALSE
  BY <1>4, <1>11, AcknowledgeWrites
<1>12. ASSUME NEW s \in Seqs, MarkReplyUncertain(s) PROVE FALSE
  BY <1>4, <1>12, MarkUncertainWrites
<1>13. ASSUME NEW s \in Seqs, ResolveUncertainReply(s, TRUE) PROVE FALSE
  BY <1>4, <1>13, ConfirmWrites
<1>. HIDE DEF Goal
<1>14. Goal
  BY <1>2, <1>3, <1>5, <1>6, <1>7, <1>8, <1>9, <1>10, <1>11, <1>12, <1>13
     DEF StoreCall, RequeueUnsentReply, ResolveUncertainReply
<1>15. QED
  BY <1>14 DEF Goal

LEMMA QueuedStep ==
  ASSUME TypeOK, QueuedOnlyWhileAccepting, [StoreCall]_vars
  PROVE  QueuedOnlyWhileAccepting'
<1>. SUFFICES ASSUME NEW q \in Seqs', replies'[q].state = "QUEUED"
             PROVE  AcceptsReplies(taskState'[replies'[q].mail.task])
  BY DEF QueuedOnlyWhileAccepting
<1>. DEFINE t == replies[q].mail.task
<1>1. CASE q \in Seqs /\ replies[q].state = "QUEUED" /\ replies'[q].mail = replies[q].mail
  <2>1. t \in Tasks /\ AcceptsReplies(taskState[t])
    BY <1>1, RowTypes DEF QueuedOnlyWhileAccepting
  <2>2. ASSUME NEW why \in RejectReason, RejectQueued(t, why) PROVE FALSE
    BY <1>1, <2>1, <2>2, RejectQueuedWrites
  <2>3. QED
    BY <1>1, <2>1, <2>2, AcceptingKept
<1>2. CASE q \in Seqs /\ replies[q].state # "QUEUED"
  <2>1. AcceptsReplies(taskState'[t]) /\ replies'[q].mail = replies[q].mail
    BY <1>2, BackInQueue DEF CanResume, AcceptsReplies
  <2>2. QED
    BY <2>1
<1>3. CASE q \notin Seqs
  <2>1. PICK m \in Mails, b \in BOOLEAN : RecordReply(m, b)
    <3>1. Seqs' # Seqs
      BY <1>3
    <3>2. QED
      BY <3>1, QueueEffect, RejectQueuedWrites, ClaimWrites, RecoverWrites
         DEF MovesReply, Seqs
  <2>2. /\ replies'[q].mail = m
        /\ AcceptsReplies(taskState[m.task])
    BY <1>3, <2>1, RecordWrites
  <2>3. taskState' = taskState
    BY <2>1 DEF RecordReply, taskVars
  <2>4. QED
    BY <2>2, <2>3
<1>4. \A p \in Seqs : replies'[p].mail = replies[p].mail
  <2>1. \A m \in Mails, b \in BOOLEAN : RecordReply(m, b) => \A p \in Seqs : replies'[p] = replies[p]
    BY RecordWrites
  <2>2. \A u \in Tasks, why \in RejectReason :
          RejectQueued(u, why) => \A p \in Seqs : replies'[p].mail = replies[p].mail
    BY RejectQueuedWrites
  <2>3. \A u \in Tasks : ClaimNextReply(u) =>
                         \A p \in Seqs : replies'[p].mail = replies[p].mail
    BY ClaimWrites DEF MovesReply
  <2>4. RecoverInFlight => \A p \in Seqs : replies'[p].mail = replies[p].mail
    BY RecoverWrites
  <2>5. \A s, from, to : MovesReply(s, from, to) =>
                         \A p \in Seqs : replies'[p].mail = replies[p].mail
    BY DEF MovesReply
  <2>6. QED
    BY <2>1, <2>2, <2>3, <2>4, <2>5, QueueEffect
<1>5. QED
  BY <1>1, <1>2, <1>3, <1>4

\* While a task is DELIVERY_UNCERTAIN and no step moves it, its UNCERTAIN
\* replies stay.
LEMMA UncertainStays ==
  ASSUME TypeOK, [StoreCall]_vars, NEW q \in Seqs, replies[q].state = "UNCERTAIN",
         LET t == replies[q].mail.task
         IN  taskState[t] = "DELIVERY_UNCERTAIN" /\ taskState'[t] = "DELIVERY_UNCERTAIN"
  PROVE  q \in Seqs' /\ replies'[q].state = "UNCERTAIN"
                     /\ replies'[q].mail = replies[q].mail
<1>. USE DEF ReplyInFlight
<1>. DEFINE Goal == q \in Seqs' /\ replies'[q].state = "UNCERTAIN"
                                /\ replies'[q].mail = replies[q].mail
<1>1. ASSUME NEW t \in Tasks, NEW why \in RejectReason, RejectQueued(t, why) PROVE Goal
  BY <1>1, RejectQueuedWrites
<1>2. ASSUME NEW m \in Mails, NEW b \in BOOLEAN, RecordReply(m, b) PROVE Goal
  BY <1>2, RecordWrites
<1>3. ASSUME NEW s \in Seqs, NEW from \in {"QUEUED", "DISPATCHING"}, NEW to,
             MovesReply(s, from, to)
      PROVE  Goal
  BY <1>3 DEF MovesReply
<1>4. ASSUME NEW t \in Tasks, ClaimNextReply(t) PROVE Goal
  BY <1>3, <1>4, ClaimWrites
<1>5. ASSUME RecoverInFlight PROVE Goal
  BY <1>5, RecoverWrites
<1>6. ASSUME replies' = replies PROVE Goal
  BY <1>6 DEF Seqs
<1>7. ASSUME NEW s \in Seqs, NEW from \in ReplyInFlight, NEW to, MovesReply(s, from, to),
             s # q
      PROVE  Goal
  BY <1>7 DEF MovesReply
<1>8. ASSUME NEW s \in Seqs, NEW from \in ReplyInFlight, PutBack(s, from) PROVE s # q
  <2>. SUFFICES ASSUME s = q PROVE FALSE
    OBVIOUS
  <2>1. AcceptsReplies("DELIVERY_UNCERTAIN")
    BY DEF AcceptsReplies
  <2>2. /\ CanResume(taskState[replies[s].mail.task], replies[s].resume)
        /\ WriteTaskTransition(replies[s].mail.task, "reply_unsent", replies[s].resume)
    BY <1>8, <2>1, PutBackWrites
  <2>3. /\ replies[s].resume \in TaskState
        /\ replies[s].resume # "DELIVERY_UNCERTAIN"
        /\ "reply_unsent" \in EventName
    BY <2>2 DEF CanResume, TaskState, EventName
  <2>4. QED
    BY <2>2, <2>3, RowTypes, TransitionWrites
<1>9. ASSUME NEW s \in Seqs, ResolveUncertainReply(s, TRUE) PROVE s # q
  <2>. SUFFICES ASSUME s = q PROVE FALSE
    OBVIOUS
  <2>1. WriteTaskTransition(replies[s].mail.task, "delivery_confirmed", "RUNNING")
    BY <1>9, ConfirmWrites
  <2>2. taskState'[replies[s].mail.task] = "RUNNING"
    BY <2>1, RowTypes, TransitionWrites, StoreEventNames
  <2>3. QED
    BY <2>2
<1>10. ASSUME \/ \E c \in Callers, u \in Tasks : ReadTask(c, u)
              \/ \E u \in Tasks : CreateTask(u)
              \/ UNCHANGED vars
       PROVE  replies' = replies
  BY <1>10 DEF ReadTask, CreateTask, vars, replyVars
<1>11. ASSUME NEW t, NEW v, StartTask(t, v) PROVE Goal
  BY <1>6, <1>11, StartWrites
<1>12. ASSUME NEW t, NEW v, NEW e \in ManualEvent, ApplyTaskEvent(t, v, e) PROVE Goal
  BY <1>1, <1>6, <1>12, EventWrites
<1>13. ASSUME NEW s \in Seqs, AcknowledgeReply(s) \/ MarkReplyUncertain(s) PROVE Goal
  BY <1>3, <1>13, AcknowledgeWrites, MarkUncertainWrites
<1>14. ASSUME NEW s \in Seqs, NEW from \in ReplyInFlight, PutBack(s, from) PROVE Goal
  BY <1>7, <1>8, <1>14, PutBackWrites
<1>15. ASSUME NEW s \in Seqs, ResolveUncertainReply(s, TRUE) PROVE Goal
  BY <1>7, <1>9, <1>15, ConfirmWrites
<1>. HIDE DEF Goal
<1>16. Goal
  BY <1>2, <1>4, <1>5, <1>6, <1>10, <1>11, <1>12, <1>13, <1>14, <1>15
     DEF StoreCall, RequeueUnsentReply, ResolveUncertainReply
<1>17. QED
  BY <1>16 DEF Goal

\* A task becomes DELIVERY_UNCERTAIN only with one of its replies.
LEMMA BecomesUncertain ==
  ASSUME TypeOK, [StoreCall]_vars, NEW t \in Tasks,
         taskState[t] # "DELIVERY_UNCERTAIN", taskState'[t] = "DELIVERY_UNCERTAIN"
  PROVE  \E q \in Seqs' : replies'[q].mail.task = t /\ replies'[q].state = "UNCERTAIN"
<1>. USE StoreEventNames
<1>. DEFINE Goal == \E q \in Seqs' : /\ replies'[q].mail.task = t
                                    /\ replies'[q].state = "UNCERTAIN"
<1>1. ASSUME NEW u \in Tasks, NEW e \in EventName, NEW to \in TaskState,
             WriteTaskTransition(u, e, to)
      PROVE  u = t /\ to = "DELIVERY_UNCERTAIN"
  BY <1>1, TransitionWrites
<1>2. ASSUME NEW u \in Tasks, CreateTask(u) PROVE FALSE
  BY <1>2 DEF CreateTask, TypeOK
<1>3. ASSUME NEW u, NEW v, StartTask(u, v) PROVE FALSE
  BY <1>1, <1>3, StartWrites
<1>4. ASSUME NEW u, NEW v, NEW e \in ManualEvent, ApplyTaskEvent(u, v, e) PROVE FALSE
  BY <1>1, <1>4, EventWrites
<1>5. ASSUME NEW u \in Tasks, ClaimNextReply(u) PROVE FALSE
  BY <1>1, <1>5, ClaimWrites
<1>6. ASSUME NEW s \in Seqs, MarkReplyUncertain(s) PROVE Goal
  <2>1. CASE KeepTask
    BY <2>1 DEF KeepTask
  <2>2. CASE WriteTaskTransition(replies[s].mail.task, "delivery_unknown",
                                 "DELIVERY_UNCERTAIN")
    <3>1. replies[s].mail.task = t
      BY <1>1, <2>2, RowTypes
    <3>2. s \in Seqs' /\ replies'[s].mail = replies[s].mail /\ replies'[s].state = "UNCERTAIN"
      BY <1>6, MarkUncertainWrites DEF MovesReply
    <3>3. QED
      BY <3>1, <3>2
  <2>3. QED
    BY <1>6, <2>1, <2>2, MarkUncertainWrites
<1>7. ASSUME NEW s \in Seqs, NEW from \in ReplyInFlight, PutBack(s, from) PROVE FALSE
  <2>1. CanResume(taskState[replies[s].mail.task], replies[s].resume)
          => /\ replies[s].resume \in TaskState
             /\ replies[s].resume # "DELIVERY_UNCERTAIN"
    BY DEF CanResume
  <2>2. QED
    BY <1>1, <1>7, <2>1, PutBackWrites, RowTypes DEF KeepTask
<1>8. ASSUME NEW s \in Seqs, ResolveUncertainReply(s, TRUE) PROVE FALSE
  BY <1>1, <1>8, ConfirmWrites, RowTypes DEF KeepTask
<1>9. ASSUME RecoverInFlight PROVE Goal
  <2>1. CASE Lost(t)
    <3>1. PICK s \in Seqs : replies[s].mail.task = t /\ replies[s].state = "DISPATCHING"
      BY <2>1 DEF Lost
    <3>2. s \in Seqs' /\ replies'[s].mail = replies[s].mail /\ replies'[s].state = "UNCERTAIN"
      BY <1>9, <3>1, RecoverWrites
    <3>3. QED
      BY <3>1, <3>2
  <2>2. CASE ~Lost(t)
    BY <1>9, <2>2, RecoverWrites
  <2>3. QED
    BY <2>1, <2>2
<1>10. ASSUME \/ \E c \in Callers, u \in Tasks : ReadTask(c, u)
              \/ \E m \in Mails, b \in BOOLEAN : RecordReply(m, b)
              \/ \E s \in Seqs : AcknowledgeReply(s)
              \/ UNCHANGED vars
       PROVE  FALSE
  <2>1. taskState' = taskState
    BY <1>10 DEF ReadTask, RecordReply, AcknowledgeReply, vars, taskVars
  <2>2. QED
    BY <2>1
<1>. HIDE DEF Goal
<1>11. Goal
  BY <1>2, <1>3, <1>4, <1>5, <1>6, <1>7, <1>8, <1>9, <1>10
     DEF StoreCall, RequeueUnsentReply, ResolveUncertainReply,
         ReplyInFlight
<1>12. QED
  BY <1>11 DEF Goal

LEMMA UncertainStep ==
  ASSUME TypeOK, UncertainTaskHasReply, [StoreCall]_vars
  PROVE  UncertainTaskHasReply'
<1>. SUFFICES ASSUME NEW t \in Tasks, taskState'[t] = "DELIVERY_UNCERTAIN"
             PROVE  \E q \in Seqs' : /\ replies'[q].mail.task = t
                                     /\ replies'[q].state = "UNCERTAIN"
  BY DEF UncertainTaskHasReply, RepliesIn, RepliesOf
<1>1. CASE taskState[t] = "DELIVERY_UNCERTAIN"
  <2>1. PICK q \in Seqs : replies[q].mail.task = t /\ replies[q].state = "UNCERTAIN"
    BY <1>1 DEF UncertainTaskHasReply, RepliesIn, RepliesOf
  <2>2. QED
    BY <1>1, <2>1, UncertainStays
<1>2. CASE taskState[t] # "DELIVERY_UNCERTAIN"
  BY <1>2, BecomesUncertain
<1>3. QED
  BY <1>1, <1>2

-------------------------------------------------------------------------------
(* The theorems.                                                           *)

LEMMA InvariantInit == Init => IInv
<1>. SUFFICES ASSUME Init PROVE IInv
  OBVIOUS
<1>1. TypeOK
  BY InitTyped
<1>2. Seqs = {} /\ bodies = {}
  BY DEF Init, Seqs
<1>3. \A c \in Callers : seen[c].task \notin Tasks
  BY StoreAssumption DEF Init
<1>4. \A t \in Tasks : taskState[t] # "DELIVERY_UNCERTAIN"
  BY DEF Init, NoTask
<1>5. QED
  BY <1>1, <1>2, <1>3, <1>4
     DEF IInv, InOrder, QueuedOnlyWhileAccepting, BodyWhileNeeded,
         OneRowPerMail, UncertainTaskHasReply, SnapshotsNotAhead, SnapshotIsCurrent, Current,
         InFlightHasStarted, DispatchMarks

LEMMA InvariantStep == IInv /\ [StoreCall]_vars => IInv'
  BY TypeStep, OrderStep, QueuedStep, BodyStep, RowPerMailStep, UncertainStep, SnapshotStep,
     StartedStep, MarksStep
     DEF IInv

\* The inductive invariant of the store, for every set of tasks, mails and
\* callers: order in the queue, no reply waiting for a task that will not
\* dispatch, bodies, uncertain tasks, snapshots and dispatch marks, whatever
\* the order in which processes call the operations of tasks.go and replies.go.
THEOREM StoreInvariant == Spec => []IInv
<1>1. Init => IInv
  BY InvariantInit
<1>2. IInv /\ [Next]_vars => IInv'
  BY InvariantStep, NextIsCall
<1>3. QED
  BY <1>1, <1>2, PTL DEF Spec

\* No reply overtakes an earlier one of its task (ClaimNextReply): a reply that
\* the agent has, or had, has no unfinished predecessor.
THEOREM RepliesInOrder == Spec => []InOrder
<1>1. IInv => InOrder
  BY DEF IInv
<1>2. QED
  BY <1>1, StoreInvariant, PTL

\* A queued reply always belongs to a task that still accepts replies
\* (writes of fail and close, putBack and RecordReply).
THEOREM NobodyWaitsInVain == Spec => []QueuedOnlyWhileAccepting
<1>1. IInv => QueuedOnlyWhileAccepting
  BY DEF IInv
<1>2. QED
  BY <1>1, StoreInvariant, PTL

\* A sealed body exists exactly while its reply is unfinished (the triggers and
\* the writers of replies.state).
THEOREM BodiesKept == Spec => []BodyWhileNeeded
<1>1. IInv => BodyWhileNeeded
  BY DEF IInv
<1>2. QED
  BY <1>1, StoreInvariant, PTL

\* A task in DELIVERY_UNCERTAIN always has the reply whose resolution leads it
\* out (MarkReplyUncertain, RecoverInFlight, ResolveUncertainReply).
THEOREM UncertaintyHasCause == Spec => []UncertainTaskHasReply
<1>1. IInv => UncertainTaskHasReply
  BY DEF IInv
<1>2. QED
  BY <1>1, StoreInvariant, PTL

\* Optimistic locking works: a caller whose version is accepted acts on the
\* state it read (applyEvent, writeTaskTransition).
THEOREM NoStaleDecision == Spec => []SnapshotIsCurrent
<1>1. IInv => SnapshotIsCurrent
  BY DEF IInv
<1>2. QED
  BY <1>1, StoreInvariant, PTL

\* A reply is put back only if nothing but the loss of its dispatch happened to
\* the task since that dispatch (eventsSinceDispatch, putBack).
THEOREM PutBackIsSafe == Spec => PutBackOnlyUntouched
<1>. DEFINE Step == \A s \in Seqs :
              LET t == replies[s].mail.task
              IN  replies[s].state \in ReplyInFlight /\ replies'[s].state = "QUEUED"
                  => /\ version[t] - dispatchedAt[s] =
                          (IF replies[s].state = "UNCERTAIN" THEN 1 ELSE 0)
                     /\ taskState'[t] = replies[s].resume
<1>1. ASSUME IInv, [Next]_vars PROVE [Step]_vars
  <2>. SUFFICES ASSUME NEW s \in Seqs, replies[s].state \in ReplyInFlight,
                      replies'[s].state = "QUEUED"
               PROVE  LET t == replies[s].mail.task
                      IN  /\ version[t] - dispatchedAt[s] =
                               (IF replies[s].state = "UNCERTAIN" THEN 1 ELSE 0)
                          /\ taskState'[t] = replies[s].resume
    OBVIOUS
  <2>. DEFINE t == replies[s].mail.task
  <2>1. TypeOK /\ DispatchMarks
    BY <1>1 DEF IInv
  <2>2. UntouchedSinceDispatch(t, replies[s].state) /\ taskState'[t] = replies[s].resume
    BY <1>1, <2>1, NextIsCall, BackInQueue DEF ReplyInFlight
  <2>3. version[t] \in Nat /\ dispatchedAt[s] \in Nat
    BY <2>1, RowTypes DEF TypeOK
  <2>4. /\ replies[s].state = "DISPATCHING" => dispatchedAt[s] = version[t]
        /\ replies[s].state = "UNCERTAIN" => dispatchedAt[s] = version[t] - 1
    BY <2>1, <2>2 DEF DispatchMarks, UntouchedSinceDispatch
  <2>5. QED
    BY <2>2, <2>3, <2>4 DEF ReplyInFlight
<1>2. QED
  BY <1>1, StoreInvariant, PTL DEF Spec, PutBackOnlyUntouched

-------------------------------------------------------------------------------
(* The inductive invariant of the dispatcher and its surroundings.         *)

JobStage == {"claimed", "sent", "unsent", "unknown"}

DispatchTyped ==
  /\ up \in BOOLEAN
  /\ job \in [Tasks -> [at : JobStage \cup {"none"}, seq : Nat]]
  /\ received \in [1..MaxReplies -> {0, 1}]
  /\ agent \in [Tasks -> {"idle", "busy", "asking"}]

\* What the state of a reply says about the agent.
ReceivedTrue(s) ==
  /\ s \notin Seqs => received[s] = 0
  /\ s \in Seqs /\ replies[s].state \in {"QUEUED", "REJECTED"} => received[s] = 0
  /\ s \in Seqs /\ replies[s].state = "ACKNOWLEDGED" => received[s] = 1

\* What the dispatcher remembers of a hand-over.
JobTrue(t) ==
  job[t] # NoJob =>
    LET s == job[t].seq
    IN  /\ up
        /\ job[t].at \in JobStage
        /\ s \in Seqs
        /\ replies[s].mail.task = t
        /\ replies[s].state = "DISPATCHING"
        /\ job[t].at \in {"claimed", "unsent"} => received[s] = 0
        /\ job[t].at = "sent" => received[s] = 1

\* While a reply in flight has not reached the agent, the agent rests and the
\* task stands where the dispatch, or losing track of it, has put it, unless it
\* was stopped.
Undisturbed(s) ==
  LET t == replies[s].mail.task
  IN  replies[s].state \in ReplyInFlight /\ received[s] = 0 =>
        /\ agent[t] = "idle"
        /\ \/ taskState[t] \in {"FAILED", "CLOSED"}
           \/ /\ taskState[t] = IF replies[s].state = "DISPATCHING"
                                THEN "RUNNING" ELSE "DELIVERY_UNCERTAIN"
              /\ UntouchedSinceDispatch(t, replies[s].state)

\* What the agent does agrees with the state of the task.
AgentFollows(t) ==
  /\ agent[t] = "busy" =>
       taskState[t] \in {"RUNNING", "DELIVERY_UNCERTAIN", "FAILED", "CLOSED"}
  /\ agent[t] = "asking" => taskState[t] \in {"WAITING_APPROVAL", "FAILED", "CLOSED"}

Agreement ==
  /\ DispatchTyped
  /\ \A s \in 1..MaxReplies : ReceivedTrue(s)
  /\ \A t \in Tasks : JobTrue(t)
  /\ \A s \in Seqs : Undisturbed(s)
  /\ \A t \in Tasks : AgentFollows(t)

DispatchInv == IInv /\ Agreement

-------------------------------------------------------------------------------
(* Lemmas.                                                                 *)

\* A step of the dispatcher or of anyone around it is a call of the store or
\* leaves the database alone.
LEMMA DispatchIsCall ==
  ASSUME Agreement, [DispatchNext]_allVars
  PROVE  [StoreCall]_vars
<1>1. CASE StartDispatcher
  BY <1>1 DEF StartDispatcher, StoreCall
<1>2. ASSUME NEW t \in Tasks, Claim(t) PROVE StoreCall
  BY <1>2 DEF Claim, StoreCall
<1>3. ASSUME NEW t \in Tasks, HandOver(t) PROVE UNCHANGED vars
  BY <1>3 DEF HandOver
<1>4. ASSUME NEW t \in Tasks, Report(t) PROVE StoreCall
  <2>1. job[t].at # "none"
    BY <1>4 DEF Report
  <2>2. job[t].seq \in Seqs
    BY <2>1 DEF Agreement, JobTrue, NoJob
  <2>3. QED
    BY <1>4, <2>2 DEF Report, StoreCall
<1>5. CASE Crash
  BY <1>5 DEF Crash
<1>6. ASSUME NEW m \in Mails, NEW b \in BOOLEAN, RecordMail(m, b) PROVE StoreCall
  BY <1>6 DEF RecordMail, StoreCall
<1>7. ASSUME NEW t \in Tasks, NewTask(t) \/ StartTurn(t) PROVE StoreCall
  BY <1>7 DEF NewTask, StartTurn, StoreCall
<1>8. ASSUME NEW t \in Tasks, NEW e, Apply(t, e) PROVE StoreCall
  BY <1>8 DEF Apply, ApplyTaskEvent, StoreCall
<1>9. ASSUME NEW t \in Tasks,
             EndTurn(t) \/ AskApproval(t) \/ GetApproval(t) \/ StopTask(t)
      PROVE  StoreCall
  BY <1>8, <1>9 DEF EndTurn, AskApproval, GetApproval, StopTask
<1>10. ASSUME NEW s \in Seqs, Settle(s) PROVE StoreCall
  <2>1. ResolveUncertainReply(s, received[s] > 0) /\ (received[s] > 0) \in BOOLEAN
    BY <1>10 DEF Settle
  <2>2. QED
    BY <2>1 DEF StoreCall
<1>11. CASE UNCHANGED allVars
  BY <1>11 DEF allVars
<1>12. QED
  BY <1>1, <1>2, <1>3, <1>4, <1>5, <1>6, <1>7, <1>9, <1>10, <1>11
     DEF DispatchNext, DispatcherNext, OthersNext

\* Two replies in flight to the same task are the same reply.
LEMMA OneInFlight ==
  ASSUME TypeOK, InOrder, NEW s \in Seqs, NEW q \in Seqs,
         replies[s].mail.task = replies[q].mail.task,
         replies[s].state \in ReplyInFlight, replies[q].state \in ReplyInFlight
  PROVE  s = q
<1>1. s \in Nat /\ q \in Nat
  BY DEF TypeOK, Seqs
<1>2. \A r \in ReplyInFlight : r \notin ReplyTerminal
  BY DEF ReplyInFlight, ReplyTerminal
<1>3. ~(s < q) /\ ~(q < s)
  BY <1>2 DEF InOrder
<1>4. QED
  BY <1>1, <1>3

\* A row whose reply, task and agent stay as they are.
LEMMA RowKept ==
  ASSUME NEW s \in Seqs, s \in Seqs', Undisturbed(s),
         replies'[s].mail = replies[s].mail, replies'[s].state = replies[s].state,
         received'[s] = received[s],
         LET t == replies[s].mail.task
         IN  /\ taskState'[t] = taskState[t]
             /\ recent'[t] = recent[t]
             /\ agent'[t] = agent[t]
  PROVE  Undisturbed(s)'
  BY DEF Undisturbed, UntouchedSinceDispatch

\* A job whose reply stays as it is.
LEMMA JobKept ==
  ASSUME NEW t \in Tasks, JobTrue(t), job'[t] = job[t], up' = up,
         job[t] # NoJob =>
           LET s == job[t].seq
           IN  /\ s \in Seqs'
               /\ replies'[s].mail = replies[s].mail
               /\ replies'[s].state = replies[s].state
               /\ received'[s] = received[s]
  PROVE  JobTrue(t)'
  BY DEF JobTrue

\* A body handed over now was never handed over before, to a resting agent.
LEMMA ReceiveWrites ==
  ASSUME IInv, Agreement, UNCHANGED vars, NEW ts \in SUBSET Tasks,
         \A t \in ts : job[t].at = "claimed", Receive(ts)
  PROVE  /\ received' \in [1..MaxReplies -> {0, 1}]
         /\ \A s \in 1..MaxReplies :
              \/ received'[s] = received[s]
              \/ /\ s \in Seqs
                 /\ replies[s].state = "DISPATCHING"
                 /\ received[s] = 0 /\ received'[s] = 1
                 /\ replies[s].mail.task \in ts
                 /\ job[replies[s].mail.task].seq = s
                 /\ agent[replies[s].mail.task] = "idle"
         /\ agent' \in [Tasks -> {"idle", "busy", "asking"}]
         /\ \A t \in ts : agent'[t] = "busy" /\ received'[job[t].seq] = 1
         /\ \A t \in Tasks \ ts : agent'[t] = agent[t]
<1>. USE DEF ReplyInFlight
<1>1. \A t \in ts :
        LET s == job[t].seq
        IN  /\ s \in Seqs /\ s \in 1..MaxReplies
            /\ replies[s].mail.task = t /\ replies[s].state = "DISPATCHING"
            /\ received[s] = 0 /\ agent[t] = "idle"
  <2>. SUFFICES ASSUME NEW t \in ts
                PROVE  LET s == job[t].seq
                       IN  /\ s \in Seqs /\ s \in 1..MaxReplies
                           /\ replies[s].mail.task = t
                           /\ replies[s].state = "DISPATCHING"
                           /\ received[s] = 0 /\ agent[t] = "idle"
    OBVIOUS
  <2>1. t \in Tasks /\ job[t].at = "claimed" /\ job[t] # NoJob
    BY DEF NoJob
  <2>2. /\ job[t].seq \in Seqs /\ replies[job[t].seq].mail.task = t
        /\ replies[job[t].seq].state = "DISPATCHING" /\ received[job[t].seq] = 0
    BY <2>1 DEF Agreement, JobTrue
  <2>3. job[t].seq \in 1..MaxReplies
    BY <2>2, RowTypes DEF IInv
  <2>4. agent[t] = "idle"
    BY <2>2 DEF Agreement, Undisturbed
  <2>5. QED
    BY <2>2, <2>3, <2>4
<1>2. received \in [1..MaxReplies -> {0, 1}] /\ agent \in [Tasks -> {"idle", "busy", "asking"}]
  BY DEF Agreement, DispatchTyped
<1>3. \A s \in 1..MaxReplies :
        received'[s] = IF \E t \in ts : job[t].seq = s THEN received[s] + 1
                                                       ELSE received[s]
  BY DEF Receive
<1>4. \A s \in 1..MaxReplies :
         \/ received'[s] = received[s]
         \/ /\ s \in Seqs
            /\ replies[s].state = "DISPATCHING"
            /\ received[s] = 0 /\ received'[s] = 1
            /\ replies[s].mail.task \in ts
            /\ job[replies[s].mail.task].seq = s
            /\ agent[replies[s].mail.task] = "idle"
  BY <1>1, <1>3
<1>5. received' \in [1..MaxReplies -> {0, 1}]
  BY <1>2, <1>4 DEF Receive
<1>6. \A t \in Tasks : agent'[t] = IF t \in ts THEN "busy" ELSE agent[t]
  BY DEF Receive
<1>7. agent' \in [Tasks -> {"idle", "busy", "asking"}]
  BY <1>2, <1>6 DEF Receive
<1>8. \A t \in ts : received'[job[t].seq] = 1
  BY <1>1, <1>3
<1>9. QED
  BY <1>4, <1>5, <1>6, <1>7, <1>8

-------------------------------------------------------------------------------
(* Every action keeps the agreement: the dispatcher.                       *)

\* One step of the store keeps its invariant.
LEMMA StoreStep ==
  ASSUME DispatchInv, [DispatchNext]_allVars
  PROVE  IInv'
  BY DispatchIsCall, InvariantStep DEF DispatchInv

LEMMA StartStep ==
  ASSUME DispatchInv, StartDispatcher
  PROVE  Agreement'
<1>. USE DEF ReplyInFlight
<1>1. /\ up' = TRUE /\ job' = job /\ received' = received /\ agent' = agent
      /\ RecoverInFlight \/ UNCHANGED vars
  BY DEF StartDispatcher
<1>2. IInv /\ TypeOK /\ InOrder /\ Agreement
  BY DEF DispatchInv, IInv
<1>3. \A t \in Tasks : job[t] = NoJob
  BY <1>2 DEF StartDispatcher, Agreement, JobTrue
<1>4. DispatchTyped' /\ \A t \in Tasks : JobTrue(t)'
  BY <1>1, <1>2, <1>3 DEF Agreement, DispatchTyped, JobTrue
<1>5. CASE UNCHANGED vars
  <2>1. /\ replies' = replies /\ taskState' = taskState /\ recent' = recent
        /\ Seqs' = Seqs
    BY <1>5 DEF vars, Seqs
  <2>2. QED
    BY <1>1, <1>2, <1>4, <2>1
       DEF Agreement, ReceivedTrue, Undisturbed, AgentFollows, UntouchedSinceDispatch
<1>6. CASE RecoverInFlight
  <2>1. Seqs' = Seqs
    BY <1>2, <1>6, RecoverWrites
  <2>2. \A q \in Seqs : /\ replies'[q].mail = replies[q].mail
                        /\ replies'[q].state = IF replies[q].state = "DISPATCHING"
                                               THEN "UNCERTAIN" ELSE replies[q].state
    BY <1>2, <1>6, RecoverWrites
  <2>3. \A t \in Tasks :
           /\ Lost(t) => /\ taskState'[t] = "DELIVERY_UNCERTAIN"
                         /\ recent'[t].before = recent[t].last
                         /\ recent'[t].last = "delivery_unknown"
           /\ ~Lost(t) => taskState'[t] = taskState[t] /\ recent'[t] = recent[t]
    BY <1>2, <1>6, RecoverWrites
  <2>4. recent' \in [Tasks -> [before : EventName, last : EventName]]
    BY <1>2, <1>6, RecoverWrites
  <2>5. \A s \in 1..MaxReplies : ReceivedTrue(s)'
    BY <1>1, <1>2, <2>1, <2>2 DEF Agreement, ReceivedTrue
  <2>6. \A t \in Tasks : AgentFollows(t)'
    BY <1>1, <1>2, <2>3 DEF Agreement, AgentFollows, Lost
  <2>7. ASSUME NEW q \in Seqs PROVE Undisturbed(q)'
    <3>. DEFINE t == replies[q].mail.task
    <3>1. t \in Tasks /\ Undisturbed(q) /\ q \in 1..MaxReplies
      BY <1>2, RowTypes DEF Agreement
    <3>2. CASE replies[q].state = "DISPATCHING"
      <4>1. taskState[t] = "RUNNING" <=> Lost(t)
        BY <3>1, <3>2 DEF Lost
      <4>2. replies'[q].state = "UNCERTAIN" /\ replies'[q].mail.task = t
        BY <2>2, <3>2
      <4>3. CASE Lost(t)
        <5>1. recent'[t] = [before |-> recent[t].last, last |-> "delivery_unknown"]
          BY <2>3, <2>4, <3>1, <4>3
        <5>2. QED
          BY <1>1, <2>3, <3>1, <3>2, <4>1, <4>2, <4>3, <5>1
             DEF Undisturbed, UntouchedSinceDispatch
      <4>4. CASE ~Lost(t)
        BY <1>1, <2>3, <3>1, <3>2, <4>1, <4>2, <4>4 DEF Undisturbed
      <4>5. QED
        BY <4>3, <4>4
    <3>3. CASE replies[q].state = "UNCERTAIN"
      <4>1. ~Lost(t)
        BY <1>2, <3>3, OneInFlight DEF Lost
      <4>2. taskState'[t] = taskState[t] /\ recent'[t] = recent[t]
        BY <2>3, <3>1, <4>1
      <4>3. replies'[q].state = replies[q].state /\ replies'[q].mail = replies[q].mail
        BY <2>2, <3>3
      <4>4. QED
        BY <1>1, <2>1, <3>1, <4>2, <4>3, RowKept
    <3>4. CASE replies[q].state \notin ReplyInFlight
      BY <2>2, <3>4 DEF Undisturbed
    <3>5. QED
      BY <3>2, <3>3, <3>4
  <2>8. QED
    BY <1>4, <2>1, <2>5, <2>6, <2>7 DEF Agreement
<1>7. QED
  BY <1>1, <1>5, <1>6

LEMMA ClaimStep ==
  ASSUME DispatchInv, NEW t \in Tasks, Claim(t)
  PROVE  Agreement'
<1>. USE DEF ReplyInFlight
<1>1. /\ ClaimNextReply(t)
      /\ up /\ up' = up /\ received' = received /\ agent' = agent
  BY DEF Claim
<1>2. TypeOK /\ Agreement
  BY DEF DispatchInv, IInv
<1>3. PICK s \in Seqs :
           /\ MovesReply(s, "QUEUED", "DISPATCHING")
           /\ replies[s].mail.task = t
           /\ RepliesIn(t, ReplyInFlight) = {}
           /\ taskState[t] \in {"COMPLETED", "WAITING_INPUT"}
           /\ WriteTaskTransition(t, "reply_dispatched", "RUNNING")
  BY <1>1, <1>2, ClaimWrites
<1>4. /\ Seqs' = Seqs /\ replies'[s].mail = replies[s].mail
      /\ replies[s].state = "QUEUED" /\ replies'[s].state = "DISPATCHING"
      /\ \A q \in Seqs : q # s => replies'[q] = replies[q]
  BY <1>3 DEF MovesReply
<1>5. job' = [job EXCEPT ![t] = [at |-> "claimed", seq |-> s]]
  <2>1. PICK q \in RepliesIn(t, {"QUEUED"}) :
              /\ replies'[q].state = "DISPATCHING"
              /\ job' = [job EXCEPT ![t] = [at |-> "claimed", seq |-> q]]
    BY DEF Claim
  <2>2. q \in Seqs /\ replies[q].state = "QUEUED"
    BY <2>1 DEF RepliesIn, RepliesOf
  <2>3. QED
    BY <1>4, <2>1, <2>2
<1>6. received[s] = 0 /\ agent[t] = "idle" /\ s \in 1..MaxReplies /\ s \in Nat
  <2>1. s \in 1..MaxReplies
    BY <1>2, RowTypes
  <2>2. received[s] = 0
    BY <1>2, <1>4, <2>1 DEF Agreement, ReceivedTrue
  <2>3. agent[t] = "idle"
    BY <1>2, <1>3 DEF Agreement, AgentFollows, DispatchTyped
  <2>4. QED
    BY <2>1, <2>2, <2>3
<1>7. /\ taskState'[t] = "RUNNING" /\ recent'[t].last = "reply_dispatched"
      /\ \A u \in Tasks : u # t => taskState'[u] = taskState[u] /\ recent'[u] = recent[u]
  BY <1>2, <1>3, StatesAreNames, StoreEventNames, TransitionWrites
<1>8. DispatchTyped'
  BY <1>1, <1>2, <1>5, <1>6 DEF Agreement, DispatchTyped, JobStage
<1>9. \A q \in 1..MaxReplies : ReceivedTrue(q)'
  BY <1>1, <1>2, <1>4, <1>6 DEF Agreement, ReceivedTrue
<1>10. ASSUME NEW u \in Tasks PROVE JobTrue(u)'
  <2>1. CASE u = t
    BY <1>1, <1>2, <1>3, <1>4, <1>5, <1>6, <2>1 DEF JobTrue, JobStage, Agreement, DispatchTyped
  <2>2. CASE u # t
    <3>1. job'[u] = job[u] /\ JobTrue(u)
      BY <1>2, <1>5, <2>2 DEF Agreement, DispatchTyped
    <3>2. QED
      BY <1>1, <1>3, <1>4, <2>2, <3>1, JobKept DEF JobTrue
  <2>3. QED
    BY <2>1, <2>2
<1>11. ASSUME NEW q \in Seqs PROVE Undisturbed(q)'
  <2>1. CASE q = s
    BY <1>1, <1>3, <1>4, <1>6, <1>7, <2>1 DEF Undisturbed, UntouchedSinceDispatch
  <2>2. CASE q # s /\ replies[q].mail.task = t
    BY <1>3, <1>4, <2>2 DEF Undisturbed, RepliesIn, RepliesOf
  <2>3. CASE replies[q].mail.task # t
    BY <1>1, <1>2, <1>3, <1>4, <1>7, <2>3, RowKept, RowTypes DEF Agreement
  <2>4. QED
    BY <2>1, <2>2, <2>3
<1>12. \A u \in Tasks : AgentFollows(u)'
  BY <1>1, <1>2, <1>6, <1>7 DEF Agreement, AgentFollows
<1>13. QED
  BY <1>4, <1>8, <1>9, <1>10, <1>11, <1>12 DEF Agreement

\* The agent takes the bodies of the tasks ts: true of HandOver and of Crash.
LEMMA ReceiveStep ==
  ASSUME DispatchInv, UNCHANGED vars, NEW ts \in SUBSET Tasks,
         \A t \in ts : job[t].at = "claimed", Receive(ts)
  PROVE  /\ received' \in [1..MaxReplies -> {0, 1}]
         /\ agent' \in [Tasks -> {"idle", "busy", "asking"}]
         /\ \A s \in 1..MaxReplies : ReceivedTrue(s)'
         /\ \A s \in Seqs' : Undisturbed(s)'
         /\ \A t \in Tasks : AgentFollows(t)'
<1>. USE DEF ReplyInFlight
<1>1. IInv /\ TypeOK /\ InOrder /\ Agreement
  BY DEF DispatchInv, IInv
<1>2. /\ replies' = replies /\ taskState' = taskState /\ recent' = recent
      /\ Seqs' = Seqs
  BY DEF vars, Seqs
<1>3. /\ received' \in [1..MaxReplies -> {0, 1}]
      /\ agent' \in [Tasks -> {"idle", "busy", "asking"}]
      /\ \A t \in ts : agent'[t] = "busy" /\ received'[job[t].seq] = 1
      /\ \A t \in Tasks \ ts : agent'[t] = agent[t]
  BY <1>1, ReceiveWrites
<1>4. \A s \in 1..MaxReplies :
         \/ received'[s] = received[s]
         \/ s \in Seqs /\ replies[s].state = "DISPATCHING" /\ received'[s] = 1
  BY <1>1, ReceiveWrites
<1>5. \A s \in 1..MaxReplies : ReceivedTrue(s)'
  BY <1>1, <1>2, <1>4 DEF Agreement, ReceivedTrue
<1>6. \A t \in ts : LET s == job[t].seq
                    IN  /\ s \in Seqs /\ replies[s].mail.task = t
                        /\ replies[s].state = "DISPATCHING" /\ received[s] = 0
  BY <1>1 DEF Agreement, JobTrue, NoJob
<1>7. ASSUME NEW s \in Seqs PROVE Undisturbed(s)'
  <2>. DEFINE t == replies[s].mail.task
  <2>1. t \in Tasks /\ s \in 1..MaxReplies
    BY <1>1, RowTypes
  <2>2. CASE t \in ts
    <3>1. replies[s].state \in ReplyInFlight => s = job[t].seq
      BY <1>1, <1>6, <2>2, OneInFlight
    <3>2. QED
      BY <1>2, <1>3, <2>2, <3>1 DEF Undisturbed
  <2>3. CASE t \notin ts
    <3>1. agent'[t] = agent[t] /\ Undisturbed(s)
      BY <1>1, <1>3, <2>1, <2>3 DEF Agreement
    <3>2. CASE received'[s] = received[s]
      BY <1>2, <3>1, <3>2, RowKept
    <3>3. CASE received'[s] = 1
      BY <1>2, <3>3 DEF Undisturbed
    <3>4. QED
      BY <1>4, <2>1, <3>2, <3>3
  <2>4. QED
    BY <2>2, <2>3
<1>8. ASSUME NEW t \in Tasks PROVE AgentFollows(t)'
  <2>1. CASE t \in ts
    <3>1. Undisturbed(job[t].seq)
      BY <1>1, <1>6, <2>1 DEF Agreement
    <3>2. taskState[t] \in {"FAILED", "CLOSED", "RUNNING"}
      BY <1>6, <2>1, <3>1 DEF Undisturbed
    <3>3. QED
      BY <1>2, <1>3, <2>1, <3>2 DEF AgentFollows
  <2>2. CASE t \notin ts
    BY <1>1, <1>2, <1>3, <2>2 DEF Agreement, AgentFollows
  <2>3. QED
    BY <2>1, <2>2
<1>9. QED
  BY <1>2, <1>3, <1>5, <1>7, <1>8

LEMMA HandOverStep ==
  ASSUME DispatchInv, NEW t \in Tasks, HandOver(t)
  PROVE  Agreement'
<1>1. /\ TypeOK /\ Agreement /\ UNCHANGED vars /\ up' = up /\ Seqs' = Seqs
      /\ replies' = replies /\ taskState' = taskState /\ recent' = recent
      /\ job[t].at = "claimed"
  BY DEF DispatchInv, IInv, HandOver, vars, Seqs
<1>2. job \in [Tasks -> [at : JobStage \cup {"none"}, seq : Nat]]
  BY <1>1 DEF Agreement, DispatchTyped
<1>3. LET s == job[t].seq
      IN  /\ up /\ s \in Seqs /\ replies[s].mail.task = t
          /\ replies[s].state = "DISPATCHING" /\ received[s] = 0
  BY <1>1 DEF Agreement, JobTrue, NoJob
<1>4. ASSUME NEW at \in {"sent", "unknown", "unsent"}, job' = [job EXCEPT ![t].at = at],
             \A u \in Tasks : u # t /\ job[u] # NoJob =>
                                 received'[job[u].seq] = received[job[u].seq],
             at = "sent" => received'[job[t].seq] = 1,
             at = "unsent" => received'[job[t].seq] = 0
      PROVE  /\ job' \in [Tasks -> [at : JobStage \cup {"none"}, seq : Nat]]
             /\ \A u \in Tasks : JobTrue(u)'
  <2>1. /\ job'[t].at = at /\ job'[t].seq = job[t].seq
        /\ \A u \in Tasks : u # t => job'[u] = job[u]
        /\ job' \in [Tasks -> [at : JobStage \cup {"none"}, seq : Nat]]
    BY <1>2, <1>4 DEF JobStage
  <2>2. JobTrue(t)'
    BY <1>1, <1>3, <1>4, <2>1 DEF JobTrue, JobStage
  <2>3. ASSUME NEW u \in Tasks, u # t PROVE JobTrue(u)'
    BY <1>1, <1>4, <2>1, <2>3, JobKept DEF Agreement, JobTrue
  <2>4. QED
    BY <2>1, <2>2, <2>3
<1>5. CASE Receive({t})
  <2>1. /\ received' \in [1..MaxReplies -> {0, 1}]
        /\ agent' \in [Tasks -> {"idle", "busy", "asking"}]
        /\ \A s \in 1..MaxReplies : ReceivedTrue(s)'
        /\ \A s \in Seqs' : Undisturbed(s)'
        /\ \A u \in Tasks : AgentFollows(u)'
    BY <1>1, <1>5, ReceiveStep
  <2>2. received'[job[t].seq] = 1
    BY <1>1, <1>5, ReceiveWrites DEF DispatchInv
  <2>3. ASSUME NEW u \in Tasks, u # t, job[u] # NoJob
        PROVE  received'[job[u].seq] = received[job[u].seq]
    <3>1. job[u].seq \in Seqs /\ replies[job[u].seq].mail.task = u
      BY <1>1, <2>3 DEF Agreement, JobTrue
    <3>2. job[u].seq \in 1..MaxReplies
      BY <1>1, <3>1, RowTypes
    <3>3. QED
      BY <1>1, <1>5, <2>3, <3>1, <3>2, ReceiveWrites DEF DispatchInv
  <2>4. \E at \in {"sent", "unknown", "unsent"} :
           job' = [job EXCEPT ![t].at = at] /\ at # "unsent"
    BY <1>3, <2>2 DEF HandOver
  <2>5. QED
    BY <1>1, <1>4, <2>1, <2>2, <2>3, <2>4 DEF Agreement, DispatchTyped
<1>6. CASE received' = received /\ agent' = agent
  <2>1. \E at \in {"sent", "unknown", "unsent"} :
           job' = [job EXCEPT ![t].at = at] /\ at # "sent"
    <3>1. received' # received \/ \E at \in {"unsent", "unknown"} : job' = [job EXCEPT ![t].at = at]
      <4>1. ASSUME Receive({t}) PROVE received'[job[t].seq] = 1
        BY <1>1, <4>1, ReceiveWrites DEF DispatchInv
      <4>2. QED
        BY <1>3, <4>1 DEF HandOver
    <3>2. QED
      BY <1>6, <3>1
  <2>2. PICK at \in {"sent", "unknown", "unsent"} :
           job' = [job EXCEPT ![t].at = at] /\ at # "sent"
    BY <2>1
  <2>3. /\ job' \in [Tasks -> [at : JobStage \cup {"none"}, seq : Nat]]
        /\ \A u \in Tasks : JobTrue(u)'
    BY <1>3, <1>4, <1>6, <2>2
  <2>4. \A s \in Seqs : Undisturbed(s)'
    BY <1>1, <1>6 DEF Agreement, Undisturbed, UntouchedSinceDispatch
  <2>5. (\A s \in 1..MaxReplies : ReceivedTrue(s)') /\ \A u \in Tasks : AgentFollows(u)'
    BY <1>1, <1>6 DEF Agreement, ReceivedTrue, AgentFollows
  <2>6. QED
    BY <1>1, <1>6, <2>3, <2>4, <2>5 DEF Agreement, DispatchTyped
<1>7. QED
  BY <1>5, <1>6 DEF HandOver

LEMMA CrashStep ==
  ASSUME DispatchInv, Crash
  PROVE  Agreement'
<1>1. /\ Agreement /\ UNCHANGED vars /\ up' = FALSE
      /\ job' = [t \in Tasks |-> NoJob]
  BY DEF DispatchInv, Crash
<1>2. PICK ts \in SUBSET {t \in Tasks : job[t].at = "claimed"} : Receive(ts)
  BY DEF Crash
<1>3. ts \in SUBSET Tasks /\ \A t \in ts : job[t].at = "claimed"
  BY <1>2
<1>4. /\ received' \in [1..MaxReplies -> {0, 1}]
      /\ agent' \in [Tasks -> {"idle", "busy", "asking"}]
      /\ \A s \in 1..MaxReplies : ReceivedTrue(s)'
      /\ \A s \in Seqs' : Undisturbed(s)'
      /\ \A u \in Tasks : AgentFollows(u)'
  BY <1>1, <1>2, <1>3, ReceiveStep
<1>5. job' \in [Tasks -> [at : JobStage \cup {"none"}, seq : Nat]]
  BY <1>1 DEF NoJob
<1>6. \A t \in Tasks : JobTrue(t)'
  BY <1>1 DEF JobTrue
<1>7. QED
  BY <1>1, <1>4, <1>5, <1>6 DEF Agreement, DispatchTyped

\* A reply in flight moves on, perhaps with its task; the other rows, tasks and
\* jobs have nothing to do with it.
LEMMA MoveKeepsOthers ==
  ASSUME DispatchInv, NEW s \in Seqs, NEW from \in ReplyInFlight,
         NEW to \in {"QUEUED", "UNCERTAIN", "ACKNOWLEDGED", "REJECTED"},
         MovesReply(s, from, to),
         received' = received, agent' = agent, up' = up,
         \A u \in Tasks : u # replies[s].mail.task =>
                            taskState'[u] = taskState[u] /\ recent'[u] = recent[u],
         to \in {"QUEUED", "REJECTED"} => received[s] = 0,
         to = "ACKNOWLEDGED" => received[s] = 1
  PROVE  /\ Seqs' = Seqs
         /\ replies'[s].mail = replies[s].mail /\ replies'[s].state = to
         /\ \A q \in 1..MaxReplies : ReceivedTrue(q)'
         /\ \A q \in Seqs : q # s => Undisturbed(q)'
         /\ \A u \in Tasks : u # replies[s].mail.task => AgentFollows(u)'
         /\ \A u \in Tasks : /\ job'[u] = job[u]
                             /\ job[u] # NoJob => job[u].seq # s
                             => JobTrue(u)'
<1>. USE DEF ReplyInFlight
<1>1. IInv /\ TypeOK /\ InOrder /\ Agreement
  BY DEF DispatchInv, IInv
<1>2. /\ Seqs' = Seqs /\ replies'[s].mail = replies[s].mail
      /\ replies[s].state = from /\ replies'[s].state = to
      /\ \A q \in Seqs : q # s => replies'[q] = replies[q]
  BY DEF MovesReply
<1>3. \A q \in 1..MaxReplies : ReceivedTrue(q)'
  BY <1>1, <1>2 DEF Agreement, ReceivedTrue
<1>4. ASSUME NEW q \in Seqs, q # s PROVE Undisturbed(q)'
  <2>1. CASE replies[q].mail.task = replies[s].mail.task
    <3>1. replies[q].state \notin ReplyInFlight
      BY <1>1, <1>2, <1>4, <2>1, OneInFlight
    <3>2. QED
      BY <1>2, <1>4, <3>1 DEF Undisturbed
  <2>2. CASE replies[q].mail.task # replies[s].mail.task
    BY <1>1, <1>2, <1>4, <2>2, RowKept, RowTypes DEF Agreement
  <2>3. QED
    BY <2>1, <2>2
<1>5. \A u \in Tasks : u # replies[s].mail.task => AgentFollows(u)'
  BY <1>1 DEF Agreement, AgentFollows
<1>6. ASSUME NEW u \in Tasks, job'[u] = job[u], job[u] # NoJob => job[u].seq # s
      PROVE  JobTrue(u)'
  BY <1>1, <1>2, <1>6, JobKept DEF Agreement, JobTrue
<1>7. QED
  BY <1>2, <1>3, <1>4, <1>5, <1>6

\* The job whose outcome is reported is that of a reply of this task, and no
\* other job has the same reply.
LEMMA ReportedJob ==
  ASSUME DispatchInv, NEW t \in Tasks, Report(t)
  PROVE  /\ job[t].seq \in Seqs /\ job[t].seq \in 1..MaxReplies
         /\ replies[job[t].seq].mail.task = t
         /\ replies[job[t].seq].state = "DISPATCHING"
         /\ job[t].at = "unsent" => received[job[t].seq] = 0
         /\ job[t].at = "sent" => received[job[t].seq] = 1
         /\ \A u \in Tasks : u # t /\ job[u] # NoJob => job[u].seq # job[t].seq
         /\ job' = [job EXCEPT ![t] = NoJob]
         /\ up' = up /\ received' = received /\ agent' = agent
<1>1. TypeOK /\ Agreement
  BY DEF DispatchInv, IInv
<1>2. job[t] # NoJob
  BY DEF Report, NoJob
<1>3. QED
  BY <1>1, <1>2, RowTypes DEF Report, Agreement, JobTrue

\* What is left to show once the reported reply and its task are known.
LEMMA ReportRest ==
  ASSUME DispatchInv, NEW t \in Tasks, Report(t), NEW s \in Seqs, s = job[t].seq,
         Seqs' = Seqs,
         \A q \in 1..MaxReplies : ReceivedTrue(q)',
         \A q \in Seqs : q # s => Undisturbed(q)',
         \A u \in Tasks : u # t => AgentFollows(u)',
         \A u \in Tasks : /\ job'[u] = job[u]
                          /\ job[u] # NoJob => job[u].seq # s
                          => JobTrue(u)',
         Undisturbed(s)', AgentFollows(t)'
  PROVE  Agreement'
<1>1. DispatchTyped
  BY DEF DispatchInv, Agreement
<1>2. job' \in [Tasks -> [at : JobStage \cup {"none"}, seq : Nat]]
  BY <1>1, ReportedJob DEF DispatchTyped, NoJob
<1>3. job'[t] = NoJob /\ \A u \in Tasks : u # t => job'[u] = job[u]
  BY <1>1, ReportedJob DEF DispatchTyped
<1>4. \A u \in Tasks : JobTrue(u)'
  BY <1>3, ReportedJob DEF JobTrue
<1>5. DispatchTyped'
  BY <1>1, <1>2, ReportedJob DEF DispatchTyped
<1>6. QED
  BY <1>4, <1>5 DEF Agreement

LEMMA ReportStep ==
  ASSUME DispatchInv, NEW t \in Tasks, Report(t)
  PROVE  Agreement'
<1>. USE DEF ReplyInFlight
<1>. PICK s \in Seqs : s = job[t].seq
  BY ReportedJob
<1>1. TypeOK /\ Agreement
  BY DEF DispatchInv, IInv
<1>2. /\ s \in Seqs /\ s \in 1..MaxReplies /\ replies[s].mail.task = t
      /\ replies[s].state = "DISPATCHING"
      /\ job[t].at = "unsent" => received[s] = 0
      /\ job[t].at = "sent" => received[s] = 1
      /\ up' = up /\ received' = received /\ agent' = agent
  BY ReportedJob
<1>3. Undisturbed(s) /\ AgentFollows(t)
  BY <1>1, <1>2 DEF Agreement
<1>4. CASE job[t].at = "sent" /\ AcknowledgeReply(s)
  <2>1. MovesReply(s, "DISPATCHING", "ACKNOWLEDGED") /\ UNCHANGED taskVars
    BY <1>1, <1>2, <1>4, AcknowledgeWrites
  <2>2. taskState' = taskState /\ recent' = recent
    BY <2>1 DEF taskVars
  <2>3. /\ Seqs' = Seqs
        /\ replies'[s].mail = replies[s].mail /\ replies'[s].state = "ACKNOWLEDGED"
        /\ \A q \in 1..MaxReplies : ReceivedTrue(q)'
        /\ \A q \in Seqs : q # s => Undisturbed(q)'
        /\ \A u \in Tasks : u # t => AgentFollows(u)'
        /\ \A u \in Tasks : /\ job'[u] = job[u]
                            /\ job[u] # NoJob => job[u].seq # s
                            => JobTrue(u)'
    BY <1>2, <1>4, <2>1, <2>2, MoveKeepsOthers
  <2>4. Undisturbed(s)' /\ AgentFollows(t)'
    BY <1>2, <1>3, <2>2, <2>3 DEF Undisturbed, AgentFollows
  <2>5. QED
    BY <2>3, <2>4, ReportRest
<1>5. CASE job[t].at = "unknown" /\ MarkReplyUncertain(s)
  <2>1. /\ MovesReply(s, "DISPATCHING", "UNCERTAIN")
        /\ \/ /\ taskState[t] = "RUNNING"
              /\ WriteTaskTransition(t, "delivery_unknown", "DELIVERY_UNCERTAIN")
           \/ taskState[t] # "RUNNING" /\ KeepTask
    BY <1>1, <1>2, <1>5, MarkUncertainWrites
  <2>2. /\ \A u \in Tasks : u # t => taskState'[u] = taskState[u] /\ recent'[u] = recent[u]
        /\ \/ /\ taskState[t] = "RUNNING" /\ taskState'[t] = "DELIVERY_UNCERTAIN"
              /\ recent'[t] = [before |-> recent[t].last, last |-> "delivery_unknown"]
           \/ /\ taskState[t] # "RUNNING"
              /\ taskState'[t] = taskState[t] /\ recent'[t] = recent[t]
    <3>1. CASE taskState[t] = "RUNNING"
      <4>1. /\ taskState'[t] = "DELIVERY_UNCERTAIN"
            /\ recent'[t].before = recent[t].last /\ recent'[t].last = "delivery_unknown"
            /\ recent'[t] \in [before : EventName, last : EventName]
            /\ \A u \in Tasks : u # t => taskState'[u] = taskState[u] /\ recent'[u] = recent[u]
        BY <1>1, <2>1, <3>1, StoreEventNames, TransitionWrites
      <4>2. QED
        BY <3>1, <4>1
    <3>2. CASE taskState[t] # "RUNNING"
      BY <2>1, <3>2 DEF KeepTask
    <3>3. QED
      BY <3>1, <3>2
  <2>3. /\ Seqs' = Seqs
        /\ replies'[s].mail = replies[s].mail /\ replies'[s].state = "UNCERTAIN"
        /\ \A q \in 1..MaxReplies : ReceivedTrue(q)'
        /\ \A q \in Seqs : q # s => Undisturbed(q)'
        /\ \A u \in Tasks : u # t => AgentFollows(u)'
        /\ \A u \in Tasks : /\ job'[u] = job[u]
                            /\ job[u] # NoJob => job[u].seq # s
                            => JobTrue(u)'
    BY <1>2, <2>1, <2>2, MoveKeepsOthers
  <2>4. AgentFollows(t)'
    BY <1>2, <1>3, <2>2 DEF AgentFollows
  <2>5. Undisturbed(s)'
    BY <1>2, <1>3, <2>2, <2>3 DEF Undisturbed, UntouchedSinceDispatch
  <2>6. QED
    BY <2>3, <2>4, <2>5, ReportRest
<1>6. CASE job[t].at = "unsent" /\ RequeueUnsentReply(s)
  <2>1. \/ /\ MovesReply(s, "DISPATCHING", "REJECTED")
           /\ KeepTask
        \/ /\ MovesReply(s, "DISPATCHING", "QUEUED")
           /\ CanResume(taskState[t], replies[s].resume)
           /\ WriteTaskTransition(t, "reply_unsent", replies[s].resume)
    BY <1>1, <1>2, <1>6, PutBackWrites DEF RequeueUnsentReply
  <2>2. \A u \in Tasks : u # t => taskState'[u] = taskState[u] /\ recent'[u] = recent[u]
    <3>1. CASE KeepTask
      BY <3>1 DEF KeepTask
    <3>2. CASE CanResume(taskState[t], replies[s].resume)
               /\ WriteTaskTransition(t, "reply_unsent", replies[s].resume)
      <4>1. replies[s].resume \in TaskState
        BY <3>2, StoreEventNames DEF CanResume
      <4>2. QED
        BY <1>1, <3>2, <4>1, StoreEventNames, TransitionWrites
    <3>3. QED
      BY <2>1, <3>1, <3>2
  <2>3. PICK to \in {"QUEUED", "REJECTED"} : MovesReply(s, "DISPATCHING", to)
    BY <2>1
  <2>4. received[s] = 0 /\ to # "ACKNOWLEDGED"
        /\ to \in {"QUEUED", "UNCERTAIN", "ACKNOWLEDGED", "REJECTED"}
    BY <1>2, <1>6
  <2>5. /\ Seqs' = Seqs
        /\ replies'[s].mail = replies[s].mail /\ replies'[s].state = to
        /\ \A q \in 1..MaxReplies : ReceivedTrue(q)'
        /\ \A q \in Seqs : q # s => Undisturbed(q)'
        /\ \A u \in Tasks : u # t => AgentFollows(u)'
        /\ \A u \in Tasks : /\ job'[u] = job[u]
                            /\ job[u] # NoJob => job[u].seq # s
                            => JobTrue(u)'
    BY <1>2, <2>2, <2>3, <2>4, MoveKeepsOthers
  <2>6. AgentFollows(t)'
    <3>1. agent[t] = "idle" \/ taskState'[t] = taskState[t]
      BY <1>2, <1>3, <2>4 DEF Undisturbed
    <3>2. agent'[t] \in {"idle", "busy", "asking"} /\ agent'[t] = agent[t]
      BY <1>1, <1>2 DEF Agreement, DispatchTyped
    <3>3. QED
      BY <1>3, <3>1, <3>2 DEF AgentFollows
  <2>7. Undisturbed(s)'
    BY <2>3, <2>5 DEF Undisturbed
  <2>8. QED
    BY <2>5, <2>6, <2>7, ReportRest
<1>7. QED
  BY <1>4, <1>5, <1>6 DEF Report

-------------------------------------------------------------------------------
(* Every action keeps the agreement: everyone else.                        *)

LEMMA RecordMailStep ==
  ASSUME DispatchInv, NEW m \in Mails, NEW b \in BOOLEAN, RecordMail(m, b)
  PROVE  Agreement'
<1>. USE DEF ReplyInFlight
<1>1. TypeOK /\ Agreement
  BY DEF DispatchInv, IInv
<1>2. /\ up' = up /\ job' = job /\ received' = received /\ agent' = agent
      /\ taskState' = taskState /\ recent' = recent
  BY DEF RecordMail, RecordReply, dispatchVars, taskVars
<1>. DEFINE n == Len(replies) + 1
<1>3. /\ Seqs' = Seqs \cup {n} /\ n \notin Seqs
      /\ \A q \in Seqs : replies'[q] = replies[q]
      /\ replies'[n].state \in {"QUEUED", "REJECTED"}
  BY <1>1, RecordWrites DEF RecordMail
<1>. HIDE DEF n
<1>4. \A q \in 1..MaxReplies : ReceivedTrue(q)'
  BY <1>1, <1>2, <1>3 DEF Agreement, ReceivedTrue
<1>5. \A q \in Seqs' : Undisturbed(q)'
  BY <1>1, <1>2, <1>3, RowKept DEF Agreement, Undisturbed
<1>6. \A t \in Tasks : JobTrue(t)'
  BY <1>1, <1>2, <1>3, JobKept DEF Agreement, JobTrue
<1>7. QED
  BY <1>1, <1>2, <1>4, <1>5, <1>6 DEF Agreement, DispatchTyped, AgentFollows

\* The rows stay; task t moves, and the agent with it.
LEMMA TaskMoveKeeps ==
  ASSUME DispatchInv, NEW t \in Tasks,
         replies' = replies, up' = up, job' = job, received' = received,
         agent' \in [Tasks -> {"idle", "busy", "asking"}],
         \A u \in Tasks : u # t => /\ taskState'[u] = taskState[u]
                                   /\ recent'[u] = recent[u]
                                   /\ agent'[u] = agent[u],
         \A s \in Seqs : replies[s].mail.task = t => Undisturbed(s)',
         AgentFollows(t)'
  PROVE  Agreement'
<1>1. TypeOK /\ Agreement /\ Seqs' = Seqs
  BY DEF DispatchInv, IInv, Seqs
<1>2. \A s \in Seqs : Undisturbed(s)'
  BY <1>1, RowKept, RowTypes DEF Agreement
<1>3. \A u \in Tasks : AgentFollows(u)'
  BY <1>1 DEF Agreement, AgentFollows
<1>4. \A u \in Tasks : JobTrue(u)'
  BY <1>1 DEF Agreement, JobTrue
<1>5. \A s \in 1..MaxReplies : ReceivedTrue(s)'
  BY <1>1 DEF Agreement, ReceivedTrue
<1>6. QED
  BY <1>1, <1>2, <1>3, <1>4, <1>5 DEF Agreement, DispatchTyped

\* A task that is not started yet has nothing in flight.
LEMMA NewTaskStep ==
  ASSUME DispatchInv, NEW t \in Tasks, NewTask(t) \/ StartTurn(t)
  PROVE  Agreement'
<1>. USE DEF ReplyInFlight
<1>1. TypeOK /\ InFlightHasStarted /\ Agreement /\ taskState \in [Tasks -> TaskState \cup {NoTask}]
  BY DEF DispatchInv, IInv, TypeOK
<1>2. CASE NewTask(t)
  <2>1. /\ taskState[t] = NoTask /\ replies' = replies /\ recent' = recent
        /\ taskState' = [taskState EXCEPT ![t] = "CREATED"]
        /\ up' = up /\ job' = job /\ received' = received /\ agent' = agent
    BY <1>2 DEF NewTask, CreateTask, dispatchVars
  <2>2. \A s \in Seqs : replies[s].mail.task = t => Undisturbed(s)'
    BY <1>1, <2>1 DEF InFlightHasStarted, Undisturbed
  <2>3. agent[t] = "idle"
    BY <1>1, <2>1 DEF Agreement, AgentFollows, DispatchTyped, NoTask
  <2>4. AgentFollows(t)'
    BY <2>1, <2>3 DEF AgentFollows
  <2>5. QED
    BY <1>1, <2>1, <2>2, <2>4, TaskMoveKeeps DEF Agreement, DispatchTyped
<1>3. CASE StartTurn(t)
  <2>1. /\ StartTask(t, version[t])
        /\ up' = up /\ job' = job /\ received' = received
        /\ agent' = [agent EXCEPT ![t] = "busy"]
    BY <1>3 DEF StartTurn
  <2>2. /\ taskState[t] = "CREATED" /\ replies' = replies
        /\ WriteTaskTransition(t, "start", "RUNNING")
    BY <1>1, <2>1, StartWrites
  <2>3. /\ taskState'[t] = "RUNNING"
        /\ \A u \in Tasks : u # t => taskState'[u] = taskState[u] /\ recent'[u] = recent[u]
    BY <1>1, <2>2, StoreEventNames, TransitionWrites
  <2>4. \A s \in Seqs : replies[s].mail.task = t => Undisturbed(s)'
    BY <1>1, <2>2 DEF InFlightHasStarted, Undisturbed
  <2>5. /\ agent' \in [Tasks -> {"idle", "busy", "asking"}] /\ agent'[t] = "busy"
        /\ \A u \in Tasks : u # t => agent'[u] = agent[u]
    BY <1>1, <2>1 DEF Agreement, DispatchTyped
  <2>6. AgentFollows(t)'
    BY <2>3, <2>5 DEF AgentFollows
  <2>7. QED
    BY <2>1, <2>2, <2>3, <2>4, <2>5, <2>6, TaskMoveKeeps
<1>4. QED
  BY <1>2, <1>3

\* Where the events of the adapter and of the user lead.
LEMMA EventTable ==
  /\ \A e \in {"turn_completed", "input_requested", "approval_requested"} :
       \A s \in {"RUNNING", "DELIVERY_UNCERTAIN", "FAILED", "CLOSED"} :
         TaskAllows(s, e) => s = "RUNNING"
  /\ TaskNext("RUNNING", "approval_requested") = "WAITING_APPROVAL"
  /\ TaskNext("WAITING_APPROVAL", "approval_resolved") = "RUNNING"
  /\ \A s \in {"FAILED", "CLOSED"} : ~TaskAllows(s, "approval_resolved")
  /\ \A s \in TaskState : TaskAllows(s, "fail") => TaskNext(s, "fail") = "FAILED"
  /\ \A s \in TaskState : TaskAllows(s, "close") => TaskNext(s, "close") = "CLOSED"
  BY DEF TaskState, TaskAllows, TaskNext, TaskTransitions

\* The adapter records what the agent does in its turn.
LEMMA TurnStep ==
  ASSUME DispatchInv, NEW t \in Tasks, EndTurn(t) \/ AskApproval(t) \/ GetApproval(t)
  PROVE  Agreement'
<1>. USE DEF ReplyInFlight
<1>1. TypeOK /\ Agreement /\ agent \in [Tasks -> {"idle", "busy", "asking"}]
  BY DEF DispatchInv, IInv, Agreement, DispatchTyped
<1>2. /\ agent[t] # "idle" /\ up' = up /\ job' = job /\ received' = received
      /\ \E to \in {"idle", "busy", "asking"} : agent' = [agent EXCEPT ![t] = to]
  BY DEF EndTurn, AskApproval, GetApproval
<1>3. PICK e \in {"turn_completed", "input_requested", "approval_requested",
                  "approval_resolved"} :
              /\ Apply(t, e)
              /\ e \in {"turn_completed", "input_requested"} =>
                   agent[t] = "busy" /\ agent'[t] = "idle"
              /\ e = "approval_requested" => agent[t] = "busy" /\ agent'[t] = "asking"
              /\ e = "approval_resolved" => agent[t] = "asking" /\ agent'[t] = "busy"
  BY <1>1 DEF EndTurn, AskApproval, GetApproval
<1>4. e \in ManualEvent /\ e \notin SweepEvents
  BY DEF ManualEvent, SweepEvents
<1>5. /\ TaskAllows(taskState[t], e) /\ TaskNext(taskState[t], e) \in TaskState
      /\ e \in EventName /\ replies' = replies
      /\ WriteTaskTransition(t, e, TaskNext(taskState[t], e))
  BY <1>1, <1>3, <1>4, EventWrites DEF Apply
<1>6. /\ taskState'[t] = TaskNext(taskState[t], e)
      /\ \A u \in Tasks : u # t => taskState'[u] = taskState[u] /\ recent'[u] = recent[u]
  BY <1>1, <1>5, TransitionWrites
<1>7. /\ agent' \in [Tasks -> {"idle", "busy", "asking"}]
      /\ \A u \in Tasks : u # t => agent'[u] = agent[u]
  BY <1>1, <1>2
<1>8. ASSUME NEW s \in Seqs, replies[s].mail.task = t PROVE Undisturbed(s)'
  BY <1>1, <1>2, <1>5, <1>8 DEF Agreement, Undisturbed
<1>9. AgentFollows(t)
  BY <1>1 DEF Agreement
<1>10. AgentFollows(t)'
  <2>1. CASE e \in {"turn_completed", "input_requested"}
    BY <1>3, <2>1 DEF AgentFollows
  <2>2. CASE e = "approval_requested"
    BY <1>3, <1>5, <1>6, <1>9, <2>2, EventTable DEF AgentFollows
  <2>3. CASE e = "approval_resolved"
    BY <1>3, <1>5, <1>6, <1>9, <2>3, EventTable DEF AgentFollows
  <2>4. QED
    BY <2>1, <2>2, <2>3
<1>11. QED
  BY <1>2, <1>5, <1>6, <1>7, <1>8, <1>10, TaskMoveKeeps

\* Stopping a task rejects what is queued, which nobody has handed over.
LEMMA StopTaskStep ==
  ASSUME DispatchInv, NEW t \in Tasks, StopTask(t)
  PROVE  Agreement'
<1>. USE DEF ReplyInFlight
<1>1. TypeOK /\ Agreement
  BY DEF DispatchInv, IInv
<1>2. up' = up /\ job' = job /\ received' = received /\ agent' = agent
  BY DEF StopTask, dispatchVars
<1>3. PICK e \in {"fail", "close"} : Apply(t, e)
  BY DEF StopTask
<1>4. e \in ManualEvent /\ e \in SweepEvents
  BY DEF ManualEvent, SweepEvents
<1>5. /\ TaskAllows(taskState[t], e) /\ TaskNext(taskState[t], e) \in TaskState
      /\ e \in EventName
      /\ WriteTaskTransition(t, e, TaskNext(taskState[t], e))
  BY <1>1, <1>3, <1>4, EventWrites DEF Apply
<1>6. \/ \E why \in RejectReason : RejectQueued(t, why)
      \/ replies' = replies
  BY <1>1, <1>3, <1>4, EventWrites DEF Apply
<1>7. /\ taskState'[t] \in {"FAILED", "CLOSED"}
      /\ \A u \in Tasks : u # t => taskState'[u] = taskState[u] /\ recent'[u] = recent[u]
  <2>1. taskState[t] \in TaskState
    BY <1>5 DEF TaskAllows
  <2>2. taskState'[t] = TaskNext(taskState[t], e)
        /\ \A u \in Tasks : u # t => taskState'[u] = taskState[u] /\ recent'[u] = recent[u]
    BY <1>1, <1>5, TransitionWrites
  <2>3. QED
    BY <1>5, <2>1, <2>2, EventTable
<1>8. /\ Seqs' = Seqs
      /\ \A q \in Seqs :
           /\ replies'[q].mail = replies[q].mail
           /\ \/ replies'[q].state = replies[q].state
              \/ replies[q].state = "QUEUED" /\ replies'[q].state = "REJECTED"
  <2>1. CASE replies' = replies
    BY <2>1 DEF Seqs
  <2>2. CASE \E why \in RejectReason : RejectQueued(t, why)
    BY <1>1, <2>2, RejectQueuedWrites
  <2>3. QED
    BY <1>6, <2>1, <2>2
<1>9. \A q \in 1..MaxReplies : ReceivedTrue(q)'
  BY <1>1, <1>2, <1>8 DEF Agreement, ReceivedTrue
<1>10. ASSUME NEW q \in Seqs PROVE Undisturbed(q)'
  <2>. DEFINE u == replies[q].mail.task
  <2>1. u \in Tasks /\ Undisturbed(q)
    BY <1>1, RowTypes DEF Agreement
  <2>2. CASE replies'[q].state # replies[q].state
    BY <1>8, <2>2 DEF Undisturbed
  <2>3. CASE replies'[q].state = replies[q].state /\ u # t
    BY <1>2, <1>7, <1>8, <2>1, <2>3, RowKept
  <2>4. CASE replies'[q].state = replies[q].state /\ u = t
    BY <1>2, <1>7, <1>8, <2>1, <2>4 DEF Undisturbed
  <2>5. QED
    BY <2>2, <2>3, <2>4
<1>11. \A u \in Tasks : AgentFollows(u)'
  BY <1>1, <1>2, <1>7 DEF Agreement, AgentFollows
<1>12. \A u \in Tasks : JobTrue(u)'
  BY <1>1, <1>2, <1>8, JobKept DEF Agreement, JobTrue
<1>13. QED
  BY <1>1, <1>2, <1>8, <1>9, <1>10, <1>11, <1>12 DEF Agreement, DispatchTyped

\* The operator tells the truth about a reply whose outcome was in doubt.
LEMMA SettleStep ==
  ASSUME DispatchInv, NEW s \in Seqs, Settle(s)
  PROVE  Agreement'
<1>. USE DEF ReplyInFlight
<1>1. TypeOK /\ Agreement
  BY DEF DispatchInv, IInv
<1>. PICK t \in Tasks : t = replies[s].mail.task
  BY <1>1, RowTypes
<1>2. /\ t \in Tasks /\ s \in 1..MaxReplies /\ received[s] \in {0, 1}
      /\ agent[t] \in {"idle", "busy", "asking"}
  BY <1>1, RowTypes DEF Agreement, DispatchTyped
<1>3. Undisturbed(s) /\ AgentFollows(t)
  BY <1>1, <1>2 DEF Agreement
<1>4. up' = up /\ job' = job /\ received' = received /\ agent' = agent
  BY DEF Settle, dispatchVars
<1>5. replies[s].state = "UNCERTAIN"
  <2>1. ASSUME PutBack(s, "UNCERTAIN") PROVE replies[s].state = "UNCERTAIN"
    BY <2>1 DEF PutBack
  <2>2. QED
    BY <2>1 DEF Settle, ResolveUncertainReply
<1>6. ASSUME NEW to \in {"QUEUED", "REJECTED", "ACKNOWLEDGED"},
             MovesReply(s, "UNCERTAIN", to),
             \A u \in Tasks : u # t => taskState'[u] = taskState[u] /\ recent'[u] = recent[u],
             to \in {"QUEUED", "REJECTED"} => received[s] = 0,
             to = "ACKNOWLEDGED" => received[s] = 1,
             AgentFollows(t)'
      PROVE  Agreement'
  <2>1. /\ Seqs' = Seqs
        /\ replies'[s].state = to
        /\ \A q \in 1..MaxReplies : ReceivedTrue(q)'
        /\ \A q \in Seqs : q # s => Undisturbed(q)'
        /\ \A u \in Tasks : u # t => AgentFollows(u)'
        /\ \A u \in Tasks : /\ job'[u] = job[u]
                            /\ job[u] # NoJob => job[u].seq # s
                            => JobTrue(u)'
    BY <1>4, <1>6, MoveKeepsOthers
  <2>2. \A u \in Tasks : job[u] # NoJob => job[u].seq # s
    BY <1>1, <1>5 DEF Agreement, JobTrue
  <2>3. Undisturbed(s)'
    BY <2>1 DEF Undisturbed
  <2>4. DispatchTyped'
    BY <1>1, <1>4 DEF Agreement, DispatchTyped
  <2>5. \A u \in Tasks : JobTrue(u)'
    BY <1>4, <2>1, <2>2
  <2>6. \A u \in Tasks : AgentFollows(u)'
    BY <1>6, <2>1
  <2>7. QED
    BY <2>1, <2>3, <2>4, <2>5, <2>6 DEF Agreement
<1>7. CASE received[s] = 1
  <2>1. /\ MovesReply(s, "UNCERTAIN", "ACKNOWLEDGED")
        /\ \/ /\ taskState[t] = "DELIVERY_UNCERTAIN"
              /\ WriteTaskTransition(t, "delivery_confirmed", "RUNNING")
           \/ KeepTask
    <3>1. (received[s] > 0) = TRUE
      BY <1>7
    <3>2. ResolveUncertainReply(s, TRUE)
      BY <3>1 DEF Settle
    <3>3. QED
      BY <1>1, <3>2, ConfirmWrites
  <2>2. \/ /\ taskState[t] = "DELIVERY_UNCERTAIN" /\ taskState'[t] = "RUNNING"
           /\ \A u \in Tasks : u # t => taskState'[u] = taskState[u] /\ recent'[u] = recent[u]
        \/ taskState' = taskState /\ recent' = recent
    BY <1>1, <1>2, <2>1, StoreEventNames, TransitionWrites DEF KeepTask
  <2>3. AgentFollows(t)'
    BY <1>3, <1>4, <2>2 DEF AgentFollows
  <2>4. QED
    BY <1>6, <1>7, <2>1, <2>2, <2>3
<1>8. CASE received[s] = 0
  <2>1. \/ MovesReply(s, "UNCERTAIN", "REJECTED") /\ KeepTask
        \/ /\ MovesReply(s, "UNCERTAIN", "QUEUED")
           /\ CanResume(taskState[t], replies[s].resume)
           /\ WriteTaskTransition(t, "reply_unsent", replies[s].resume)
    <3>1. (received[s] > 0) = FALSE
      BY <1>8
    <3>2. PutBack(s, "UNCERTAIN")
      BY <3>1 DEF Settle, ResolveUncertainReply
    <3>3. QED
      BY <1>1, <3>2, PutBackWrites
  <2>2. \A u \in Tasks : u # t => taskState'[u] = taskState[u] /\ recent'[u] = recent[u]
    <3>1. CASE KeepTask
      BY <3>1 DEF KeepTask
    <3>2. CASE CanResume(taskState[t], replies[s].resume)
               /\ WriteTaskTransition(t, "reply_unsent", replies[s].resume)
      <4>1. replies[s].resume \in TaskState
        BY <3>2, StoreEventNames DEF CanResume
      <4>2. QED
        BY <1>1, <1>2, <3>2, <4>1, StoreEventNames, TransitionWrites
    <3>3. QED
      BY <2>1, <3>1, <3>2
  <2>3. AgentFollows(t)'
    BY <1>3, <1>4, <1>5, <1>8 DEF Undisturbed, AgentFollows
  <2>4. QED
    BY <1>6, <1>8, <2>1, <2>2, <2>3
<1>9. QED
  BY <1>2, <1>7, <1>8

-------------------------------------------------------------------------------
(* The theorems.                                                           *)

LEMMA DispatchStart == DispatchInit => DispatchInv
<1>. SUFFICES ASSUME DispatchInit PROVE DispatchInv
  OBVIOUS
<1>1. IInv
  BY InvariantInit DEF DispatchInit
<1>2. Seqs = {}
  BY DEF DispatchInit, Init, Seqs
<1>3. Agreement
  BY <1>2 DEF DispatchInit, NoJob, Agreement, DispatchTyped, ReceivedTrue, JobTrue,
              Undisturbed, AgentFollows
<1>4. QED
  BY <1>1, <1>3 DEF DispatchInv

LEMMA DispatchStep == DispatchInv /\ [DispatchNext]_allVars => DispatchInv'
<1>. SUFFICES ASSUME DispatchInv, [DispatchNext]_allVars PROVE DispatchInv'
  OBVIOUS
<1>1. IInv'
  BY StoreStep
<1>2. ASSUME DispatcherNext PROVE Agreement'
  BY <1>2, StartStep, ClaimStep, HandOverStep, ReportStep, CrashStep DEF DispatcherNext
<1>3. ASSUME OthersNext PROVE Agreement'
  BY <1>3, RecordMailStep, NewTaskStep, TurnStep, StopTaskStep, SettleStep DEF OthersNext
<1>4. ASSUME UNCHANGED allVars PROVE Agreement'
  <2>1. /\ UNCHANGED dispatchVars
        /\ replies' = replies /\ taskState' = taskState /\ recent' = recent
        /\ Seqs' = Seqs
    BY <1>4 DEF allVars, vars, Seqs
  <2>2. QED
    BY <2>1 DEF DispatchInv, Agreement, DispatchTyped, ReceivedTrue, JobTrue, Undisturbed,
                AgentFollows, UntouchedSinceDispatch, dispatchVars
<1>5. Agreement'
  BY <1>2, <1>3, <1>4 DEF DispatchNext
<1>6. QED
  BY <1>1, <1>5 DEF DispatchInv

\* Store, dispatcher and agent stay in agreement through every interleaving of
\* crashes, lost answers, recoveries, put-backs and events (ClaimNextReply,
\* RecoverInFlight, RequeueUnsentReply, MarkReplyUncertain and the rest).
THEOREM DispatchInvariant == DispatchSpec => []DispatchInv
<1>1. QED
  BY DispatchStart, DispatchStep, PTL DEF DispatchSpec

\* The agent gets no reply twice, however often the dispatcher crashes and
\* whatever it learns or fails to learn of a hand-over, and no mail as two
\* replies, however many copies of it are fetched (findInbound).
THEOREM NeverTwice == DispatchSpec => []AtMostOnce
<1>1. DispatchInv => AtMostOnce
  BY DEF DispatchInv, IInv, OneRowPerMail, Agreement, DispatchTyped, AtMostOnce
<1>2. QED
  BY <1>1, DispatchInvariant, PTL

\* An acknowledged reply reached the agent and a rejected one did not
\* (AcknowledgeReply, putBack, rejectQueued, ResolveUncertainReply).
THEOREM FinalStatesAreTrue == DispatchSpec => []FinalStateIsTrue
<1>1. ASSUME DispatchInv PROVE FinalStateIsTrue
  BY <1>1, RowTypes DEF DispatchInv, IInv, Agreement, ReceivedTrue, FinalStateIsTrue
<1>2. QED
  BY <1>1, DispatchInvariant, PTL

\* putBack accepts the truth: a reply in flight that never reached the agent
\* can always be put back while its task accepts replies (eventsSinceDispatch).
THEOREM TruthAlwaysAccepted == DispatchSpec => []TruthIsAccepted
<1>1. ASSUME DispatchInv PROVE TruthIsAccepted
  <2>. SUFFICES ASSUME NEW s \in Seqs, replies[s].state \in ReplyInFlight, received[s] = 0,
                       AcceptsReplies(taskState[replies[s].mail.task])
                PROVE  LET t == replies[s].mail.task
                       IN  /\ UntouchedSinceDispatch(t, replies[s].state)
                           /\ CanResume(taskState[t], replies[s].resume)
    BY DEF TruthIsAccepted
  <2>1. TypeOK /\ Undisturbed(s)
    BY <1>1 DEF DispatchInv, IInv, Agreement
  <2>2. replies[s].resume \in {"COMPLETED", "WAITING_INPUT"}
    BY <2>1, RowTypes DEF Reply
  <2>3. QED
    BY <2>1, <2>2 DEF Undisturbed, AcceptsReplies, CanResume
<1>2. QED
  BY <1>1, DispatchInvariant, PTL

\* A reply is only handed to an agent that is between turns, so ClaimNextReply's
\* look at the task's state is enough to keep from interrupting one.
THEOREM AgentNotInterrupted == DispatchSpec => NeverInterrupts
<1>. DEFINE Step == \A s \in Seqs : received'[s] # received[s] =>
                                      agent[replies[s].mail.task] = "idle"
<1>1. ASSUME DispatchInv, [DispatchNext]_allVars PROVE [Step]_allVars
  <2>1. ASSUME NEW ts \in SUBSET Tasks, UNCHANGED vars,
               \A t \in ts : job[t].at = "claimed", Receive(ts)
        PROVE  Step
    BY <1>1, <2>1, ReceiveWrites, RowTypes DEF DispatchInv, IInv
  <2>2. ASSUME NEW t \in Tasks, HandOver(t) PROVE Step
    <3>1. CASE Receive({t})
      BY <2>1, <2>2, <3>1 DEF HandOver
    <3>2. CASE received' = received
      BY <3>2
    <3>3. QED
      BY <2>2, <3>1, <3>2 DEF HandOver
  <2>3. ASSUME Crash PROVE Step
    BY <2>1, <2>3 DEF Crash
  <2>4. ASSUME received' = received PROVE Step
    BY <2>4
  <2>5. ASSUME DispatchNext PROVE \/ \E t \in Tasks : HandOver(t)
                                  \/ Crash
                                  \/ received' = received
    BY <2>5 DEF DispatchNext, DispatcherNext, OthersNext, StartDispatcher, Claim, Report,
                RecordMail, NewTask, StartTurn, EndTurn, AskApproval, GetApproval, StopTask,
                Settle, dispatchVars
  <2>6. QED
    BY <1>1, <2>2, <2>3, <2>4, <2>5
<1>2. QED
  BY <1>1, DispatchInvariant, PTL DEF DispatchSpec, NeverInterrupts

-------------------------------------------------------------------------------
(* The store implements the line.                                          *)

\* What the line sees of the queue of task u: who waits, who is out, who is done.
Queued(u) == RepliesIn(u, {"QUEUED"})
Flying(u) == RepliesIn(u, ReplyInFlight)
Done(u)   == RepliesIn(u, {"ACKNOWLEDGED"})

SameSets(u) == Queued(u)' = Queued(u) /\ Flying(u)' = Flying(u) /\ Done(u)' = Done(u)

LineStep == Line!Next \/ UNCHANGED Line!vars

\* One reply changes its state: its seq changes sets and no other seq does.
LEMMA MoveSets ==
  ASSUME NEW s, NEW from, NEW to, MovesReply(s, from, to)
  PROVE  /\ Len(replies') = Len(replies) /\ Arrived' = Arrived
         /\ \A u, S : RepliesIn(u, S)' =
              IF replies[s].mail.task = u /\ to \in S
              THEN RepliesIn(u, S) \cup {s} ELSE RepliesIn(u, S) \ {s}
  BY DEF MovesReply, RepliesIn, RepliesOf, Arrived

LEMMA SweepSets ==
  ASSUME TypeOK, NEW t \in Tasks, NEW why \in RejectReason, RejectQueued(t, why)
  PROVE  /\ Len(replies') = Len(replies) /\ Arrived' = Arrived
         /\ Queued(t)' = {} /\ Flying(t)' = Flying(t) /\ Done(t)' = Done(t)
         /\ \A u \in Tasks : u # t => SameSets(u)
<1>1. /\ Len(replies') = Len(replies) /\ Seqs' = Seqs
      /\ \A q \in Seqs :
              IF replies[q].mail.task = t /\ replies[q].state = "QUEUED"
              THEN /\ replies'[q].mail = replies[q].mail
                   /\ replies'[q].state = "REJECTED"
              ELSE replies'[q] = replies[q]
  BY RejectQueuedWrites
<1>2. Arrived' = Arrived
  BY <1>1 DEF Arrived
<1>3. QED
  BY <1>1, <1>2 DEF SameSets, Queued, Flying, Done, RepliesIn, RepliesOf, ReplyInFlight

LEMMA RecordSets ==
  ASSUME TypeOK, NEW m \in Mails, NEW b \in BOOLEAN, RecordReply(m, b)
  PROVE  /\ Len(replies') = Len(replies) + 1 /\ Arrived' = Arrived \cup {m}
         /\ \A u \in Tasks : Flying(u)' = Flying(u) /\ Done(u)' = Done(u)
         /\ \A u \in Tasks : u # m.task => Queued(u)' = Queued(u)
         /\ Queued(m.task)' = IF AcceptsReplies(taskState[m.task])
                              THEN Queued(m.task) \cup {Len(replies) + 1}
                              ELSE Queued(m.task)
<1>. DEFINE n == Len(replies) + 1
<1>1. /\ Len(replies') = n /\ Seqs' = Seqs \cup {n} /\ n \notin Seqs
      /\ \A q \in Seqs : replies'[q] = replies[q]
      /\ replies'[n].mail = m
      /\ replies'[n].state = IF AcceptsReplies(taskState[m.task])
                             THEN "QUEUED" ELSE "REJECTED"
  BY RecordWrites
<1>. HIDE DEF n
<1>2. Arrived' = Arrived \cup {m}
  BY <1>1 DEF Arrived
<1>3. QED
  BY <1>1, <1>2 DEF n, Queued, Flying, Done, RepliesIn, RepliesOf, ReplyInFlight

LEMMA RecoverSets ==
  ASSUME TypeOK, RecoverInFlight
  PROVE  Len(replies') = Len(replies) /\ Arrived' = Arrived /\ \A u \in Tasks : SameSets(u)
<1>1. /\ Len(replies') = Len(replies) /\ Seqs' = Seqs
      /\ \A q \in Seqs : /\ replies'[q].mail = replies[q].mail
                         /\ replies'[q].state = IF replies[q].state = "DISPATCHING"
                                                THEN "UNCERTAIN" ELSE replies[q].state
  BY RecoverWrites
<1>2. Arrived' = Arrived
  BY <1>1 DEF Arrived
<1>3. QED
  BY <1>1, <1>2 DEF SameSets, Queued, Flying, Done, RepliesIn, RepliesOf, ReplyInFlight

\* A task has at most one reply out, so it is the one that moves.
LEMMA OnlyOneOut ==
  ASSUME TypeOK, InOrder, NEW s \in Seqs, replies[s].state \in ReplyInFlight
  PROVE  Flying(replies[s].mail.task) = {s}
  BY OneInFlight DEF Flying, RepliesIn, RepliesOf

\* The phases of the task's states, and that an event keeps or shuts them.
LEMMA Phases ==
  /\ Phase(NoTask) = "new" /\ Phase("CREATED") = "new"
  /\ \A s : AcceptsReplies(s) => Phase(s) = "open"
  /\ Phase("FAILED") = "shut" /\ Phase("CLOSED") = "shut"
  /\ \A s : Phase(s) = "open" => AcceptsReplies(s)
  /\ \A s \in TaskState \ {"CREATED"} : ~AcceptsReplies(s) => Phase(s) = "shut"
  /\ AcceptsReplies("RUNNING") /\ AcceptsReplies("DELIVERY_UNCERTAIN")
  /\ AcceptsReplies("COMPLETED") /\ AcceptsReplies("WAITING_INPUT")
  BY DEF Phase, AcceptsReplies, NoTask, TaskState

LEMMA EventPhase ==
  ASSUME NEW s \in TaskState, NEW e \in ManualEvent, TaskAllows(s, e)
  PROVE  /\ e \in SweepEvents => Phase(TaskNext(s, e)) = "shut"
         /\ e \notin SweepEvents => AcceptsReplies(s) /\ AcceptsReplies(TaskNext(s, e))
  BY DEF TaskState, ManualEvent, TaskAllows, TaskNext, TaskTransitions, SweepEvents,
         AcceptsReplies, Phase

\* What the line sees stays: a stutter of the line.
LEMMA LineStutters ==
  ASSUME Len(replies') = Len(replies), Arrived' = Arrived,
         \A u \in Tasks : SameSets(u) /\ Phase(taskState'[u]) = Phase(taskState[u])
  PROVE  UNCHANGED Line!vars
  BY DEF Line!vars, SameSets, Queued, Flying, Done

\* A reply in flight that moves is a stutter, or finished, taken back or
\* discarded, by what becomes of it.
LEMMA LineMove ==
  ASSUME IInv, NEW s \in Seqs, NEW from \in ReplyInFlight,
         NEW to \in {"QUEUED", "UNCERTAIN", "ACKNOWLEDGED", "REJECTED"},
         MovesReply(s, from, to),
         \A u \in Tasks : Phase(taskState'[u]) = Phase(taskState[u]),
         to = "QUEUED" => Phase(taskState[replies[s].mail.task]) = "open",
         to = "REJECTED" => Phase(taskState[replies[s].mail.task]) = "shut"
  PROVE  LineStep
<1>. USE DEF ReplyInFlight
<1>1. TypeOK /\ InOrder
  BY DEF IInv
<1>. PICK t \in Tasks : t = replies[s].mail.task
  BY <1>1, RowTypes
<1>2. replies[s].state = from /\ s \in Seqs
  BY DEF MovesReply
<1>3. /\ Len(replies') = Len(replies) /\ Arrived' = Arrived
      /\ \A u, S : RepliesIn(u, S)' = IF t = u /\ to \in S
                                      THEN RepliesIn(u, S) \cup {s}
                                      ELSE RepliesIn(u, S) \ {s}
  BY MoveSets
<1>4. Flying(t) = {s}
  BY <1>1, <1>2, OnlyOneOut
<1>5. \A u \in Tasks : /\ s \notin Queued(u) /\ s \notin Done(u)
                       /\ u # t => s \notin Flying(u)
  BY <1>2 DEF Queued, Done, Flying, RepliesIn, RepliesOf
<1>6. \A u \in Tasks :
         /\ Queued(u)' = IF u = t /\ to = "QUEUED" THEN Queued(u) \cup {s} ELSE Queued(u)
         /\ Flying(u)' = IF u = t /\ to # "UNCERTAIN" THEN {} ELSE Flying(u)
         /\ Done(u)' = IF u = t /\ to = "ACKNOWLEDGED" THEN Done(u) \cup {s} ELSE Done(u)
  <2>. SUFFICES ASSUME NEW u \in Tasks
                PROVE /\ Queued(u)' = IF u = t /\ to = "QUEUED" THEN Queued(u) \cup {s} ELSE Queued(u)
                      /\ Flying(u)' = IF u = t /\ to # "UNCERTAIN" THEN {} ELSE Flying(u)
                      /\ Done(u)' = IF u = t /\ to = "ACKNOWLEDGED" THEN Done(u) \cup {s} ELSE Done(u)
    OBVIOUS
  <2>1. Queued(u)' = IF u = t /\ to = "QUEUED" THEN Queued(u) \cup {s} ELSE Queued(u) \ {s}
    BY <1>3 DEF Queued
  <2>2. Done(u)' = IF u = t /\ to = "ACKNOWLEDGED" THEN Done(u) \cup {s} ELSE Done(u) \ {s}
    BY <1>3 DEF Done
  <2>3. Flying(u)' = IF u = t /\ to = "UNCERTAIN" THEN Flying(u) \cup {s} ELSE Flying(u) \ {s}
    BY <1>3 DEF Flying
  <2>4. QED
    BY <1>4, <1>5, <2>1, <2>2, <2>3
<1>7. CASE to = "UNCERTAIN"
  BY <1>3, <1>6, <1>7, LineStutters DEF SameSets, LineStep
<1>8. CASE to = "ACKNOWLEDGED"
  <2>1. Line!Finish(t)
    BY <1>3, <1>4, <1>6, <1>8 DEF Line!Finish, Queued, Flying, Done
  <2>2. QED
    BY <2>1 DEF LineStep, Line!Next
<1>9. CASE to = "QUEUED"
  <2>1. Line!TakeBack(t)
    BY <1>3, <1>4, <1>6, <1>9 DEF Line!TakeBack, Queued, Flying, Done
  <2>2. QED
    BY <2>1 DEF LineStep, Line!Next
<1>10. CASE to = "REJECTED"
  <2>1. Line!Discard(t)
    BY <1>3, <1>4, <1>6, <1>10 DEF Line!Discard, Queued, Flying, Done
  <2>2. QED
    BY <2>1 DEF LineStep, Line!Next
<1>11. QED
  BY <1>7, <1>8, <1>9, <1>10

LEMMA LineClaim ==
  ASSUME IInv, NEW t \in Tasks, ClaimNextReply(t)
  PROVE  LineStep
<1>1. TypeOK
  BY DEF IInv
<1>2. PICK s \in Seqs :
           /\ MovesReply(s, "QUEUED", "DISPATCHING")
           /\ replies[s].mail.task = t
           /\ \A q \in RepliesIn(t, {"QUEUED"}) : s <= q
           /\ RepliesIn(t, ReplyInFlight) = {}
           /\ taskState[t] \in {"COMPLETED", "WAITING_INPUT"}
           /\ WriteTaskTransition(t, "reply_dispatched", "RUNNING")
  BY <1>1, ClaimWrites
<1>3. \A u \in Tasks : Phase(taskState'[u]) = Phase(taskState[u])
  BY <1>1, <1>2, StatesAreNames, StoreEventNames, TransitionWrites, Phases
<1>4. replies[s].state = "QUEUED"
  BY <1>2 DEF MovesReply
<1>5. /\ Len(replies') = Len(replies) /\ Arrived' = Arrived
      /\ \A u, S : RepliesIn(u, S)' = IF t = u /\ "DISPATCHING" \in S
                                      THEN RepliesIn(u, S) \cup {s}
                                      ELSE RepliesIn(u, S) \ {s}
  BY <1>2, MoveSets
<1>6. s \in Queued(t) /\ \A u \in Tasks : /\ s \notin Flying(u) /\ s \notin Done(u)
                                          /\ u # t => s \notin Queued(u)
  BY <1>2, <1>4 DEF Queued, Done, Flying, RepliesIn, RepliesOf, ReplyInFlight
<1>7. \A u \in Tasks : /\ Queued(u)' = Queued(u) \ {s}
                       /\ Done(u)' = Done(u) \ {s}
                       /\ Flying(u)' = IF u = t THEN Flying(u) \cup {s} ELSE Flying(u) \ {s}
  BY <1>5 DEF Queued, Flying, Done, ReplyInFlight
<1>8. Flying(t) = {} /\ \A q \in Queued(t) : s <= q
  BY <1>2 DEF Flying, Queued
<1>9. ASSUME NEW u \in Tasks
      PROVE  /\ Queued(u)' = IF u = t THEN Queued(u) \ {s} ELSE Queued(u)
             /\ Done(u)' = Done(u)
             /\ Flying(u)' = IF u = t THEN {s} ELSE Flying(u)
  <2>1. /\ Queued(u)' = Queued(u) \ {s} /\ Done(u)' = Done(u) \ {s}
        /\ Flying(u)' = IF u = t THEN Flying(u) \cup {s} ELSE Flying(u) \ {s}
    BY <1>7
  <2>2. s \notin Flying(u) /\ s \notin Done(u) /\ (u # t => s \notin Queued(u))
    BY <1>6
  <2>3. QED
    BY <1>8, <2>1, <2>2
<1>10. Line!HandOut(t)
  BY <1>3, <1>5, <1>6, <1>8, <1>9 DEF Line!HandOut, Queued, Flying, Done
<1>11. QED
  BY <1>10 DEF LineStep, Line!Next

LEMMA LineRecord ==
  ASSUME IInv, NEW m \in Mails, NEW b \in BOOLEAN, RecordReply(m, b)
  PROVE  LineStep
<1>1. TypeOK /\ m.task \in Tasks
  BY StoreAssumption DEF IInv
<1>2. taskState' = taskState
  BY DEF RecordReply, taskVars
<1>3. /\ Len(replies') = Len(replies) + 1 /\ Arrived' = Arrived \cup {m}
      /\ \A u \in Tasks : Flying(u)' = Flying(u) /\ Done(u)' = Done(u)
      /\ \A u \in Tasks : u # m.task => Queued(u)' = Queued(u)
      /\ Queued(m.task)' = IF AcceptsReplies(taskState[m.task])
                           THEN Queued(m.task) \cup {Len(replies) + 1}
                           ELSE Queued(m.task)
  BY <1>1, RecordSets
<1>4. AcceptsReplies(taskState[m.task]) <=> Phase(taskState[m.task]) = "open"
  BY Phases
<1>5. \A k \in Arrived : k.id # m.id /\ k.place # m.place
  BY DEF RecordReply, FirstSeen, Arrived
<1>6. Line!Arrive(m)
  BY <1>1, <1>2, <1>3, <1>4, <1>5 DEF Line!Arrive, Queued, Flying, Done
<1>7. QED
  BY <1>6 DEF LineStep, Line!Next

\* An event of a caller shuts the line or is not seen by it.
LEMMA LineEvent ==
  ASSUME IInv, NEW t \in Tasks, NEW v, NEW e \in ManualEvent, ApplyTaskEvent(t, v, e)
  PROVE  LineStep
<1>1. TypeOK
  BY DEF IInv
<1>. DEFINE to == TaskNext(taskState[t], e)
<1>2. /\ taskState[t] \in TaskState /\ TaskAllows(taskState[t], e) /\ to \in TaskState
      /\ e \in EventName /\ WriteTaskTransition(t, e, to)
  BY <1>1, EventWrites DEF TaskAllows
<1>3. taskState'[t] = to /\ \A u \in Tasks : u # t => taskState'[u] = taskState[u]
  BY <1>1, <1>2, TransitionWrites
<1>4. CASE e \in SweepEvents
  <2>1. \E why \in RejectReason : RejectQueued(t, why)
    BY <1>4, Reasons DEF ApplyTaskEvent
  <2>2. /\ Len(replies') = Len(replies) /\ Arrived' = Arrived
        /\ Queued(t)' = {} /\ Flying(t)' = Flying(t) /\ Done(t)' = Done(t)
        /\ \A u \in Tasks : u # t => SameSets(u)
    BY <1>1, <2>1, SweepSets
  <2>3. Phase(taskState'[t]) = "shut"
    BY <1>2, <1>3, <1>4, EventPhase
  <2>4. Line!Shut(t)
    BY <1>3, <2>2, <2>3 DEF Line!Shut, SameSets, Queued, Flying, Done
  <2>5. QED
    BY <2>4 DEF LineStep, Line!Next
<1>5. CASE e \notin SweepEvents
  <2>1. replies' = replies
    BY <1>5 DEF ApplyTaskEvent
  <2>2. \A u \in Tasks : Phase(taskState'[u]) = Phase(taskState[u])
    BY <1>2, <1>3, <1>5, EventPhase, Phases
  <2>3. Arrived' = Arrived /\ \A u \in Tasks : SameSets(u)
    BY <2>1 DEF SameSets, Queued, Flying, Done, RepliesIn, RepliesOf, Seqs, Arrived
  <2>4. QED
    BY <2>1, <2>2, <2>3, LineStutters DEF LineStep
<1>6. QED
  BY <1>4, <1>5

LEMMA LineTask ==
  ASSUME IInv, NEW t \in Tasks, CreateTask(t) \/ StartTask(t, version[t])
  PROVE  LineStep
<1>1. TypeOK /\ taskState \in [Tasks -> TaskState \cup {NoTask}]
  BY DEF IInv, TypeOK
<1>2. replies' = replies
  BY DEF CreateTask, StartTask, replyVars
<1>3. Arrived' = Arrived /\ \A u \in Tasks : SameSets(u)
  BY <1>2 DEF SameSets, Queued, Flying, Done, RepliesIn, RepliesOf, Seqs, Arrived
<1>4. CASE CreateTask(t)
  <2>1. \A u \in Tasks : Phase(taskState'[u]) = Phase(taskState[u])
    BY <1>1, <1>4, Phases DEF CreateTask
  <2>2. QED
    BY <1>2, <1>3, <2>1, LineStutters DEF LineStep
<1>5. CASE StartTask(t, version[t])
  <2>1. taskState[t] = "CREATED" /\ WriteTaskTransition(t, "start", "RUNNING")
    BY <1>1, <1>5, StartWrites
  <2>2. taskState'[t] = "RUNNING" /\ \A u \in Tasks : u # t => taskState'[u] = taskState[u]
    BY <1>1, <2>1, StoreEventNames, TransitionWrites
  <2>3. Phase(taskState[t]) = "new" /\ Phase(taskState'[t]) = "open"
    BY <2>1, <2>2, Phases
  <2>4. Line!Open(t)
    BY <1>2, <1>3, <2>2, <2>3 DEF Line!Open, SameSets, Queued, Flying, Done
  <2>5. QED
    BY <2>4 DEF LineStep, Line!Next
<1>6. QED
  BY <1>4, <1>5

\* What the dispatcher, the operator and recovery do with replies in flight.
LEMMA LineReply ==
  ASSUME IInv, NEW s \in Seqs,
         \/ AcknowledgeReply(s) \/ MarkReplyUncertain(s) \/ RequeueUnsentReply(s)
         \/ \E d \in BOOLEAN : ResolveUncertainReply(s, d)
  PROVE  LineStep
<1>. USE DEF ReplyInFlight
<1>1. TypeOK /\ InFlightHasStarted
  BY DEF IInv
<1>. PICK t \in Tasks : t = replies[s].mail.task
  BY <1>1, RowTypes
<1>2. ASSUME NEW e \in EventName, NEW to \in TaskState, WriteTaskTransition(t, e, to),
             AcceptsReplies(taskState[t]), AcceptsReplies(to)
      PROVE  \A u \in Tasks : Phase(taskState'[u]) = Phase(taskState[u])
  <2>1. taskState'[t] = to /\ \A u \in Tasks : u # t => taskState'[u] = taskState[u]
    BY <1>1, <1>2, TransitionWrites
  <2>2. QED
    BY <1>2, <2>1, Phases
<1>3. ASSUME KeepTask PROVE \A u \in Tasks : Phase(taskState'[u]) = Phase(taskState[u])
  BY <1>3 DEF KeepTask
<1>4. CASE AcknowledgeReply(s)
  <2>1. MovesReply(s, "DISPATCHING", "ACKNOWLEDGED") /\ taskState' = taskState
    BY <1>1, <1>4, AcknowledgeWrites DEF taskVars
  <2>2. QED
    BY <2>1, LineMove
<1>5. CASE MarkReplyUncertain(s)
  <2>1. /\ MovesReply(s, "DISPATCHING", "UNCERTAIN")
        /\ \/ /\ taskState[t] = "RUNNING"
              /\ WriteTaskTransition(t, "delivery_unknown", "DELIVERY_UNCERTAIN")
           \/ KeepTask
    BY <1>1, <1>5, MarkUncertainWrites
  <2>2. \A u \in Tasks : Phase(taskState'[u]) = Phase(taskState[u])
    BY <1>2, <1>3, <2>1, StoreEventNames, Phases
  <2>3. QED
    BY <2>1, <2>2, LineMove
<1>6. ASSUME NEW from \in ReplyInFlight, PutBack(s, from) PROVE LineStep
  <2>1. /\ replies[s].state \in ReplyInFlight
        /\ \/ /\ ~AcceptsReplies(taskState[t])
              /\ MovesReply(s, from, "REJECTED") /\ KeepTask
           \/ /\ AcceptsReplies(taskState[t])
              /\ MovesReply(s, from, "QUEUED")
              /\ CanResume(taskState[t], replies[s].resume)
              /\ WriteTaskTransition(t, "reply_unsent", replies[s].resume)
    BY <1>1, <1>6, PutBackWrites DEF MovesReply
  <2>2. CASE ~AcceptsReplies(taskState[t]) /\ MovesReply(s, from, "REJECTED") /\ KeepTask
    <3>1. taskState[t] \in TaskState \ {"CREATED"}
      BY <1>1, <2>1 DEF InFlightHasStarted, TypeOK
    <3>2. Phase(taskState[t]) = "shut"
      BY <2>2, <3>1, Phases
    <3>3. QED
      BY <1>3, <2>2, <3>2, LineMove
  <2>3. CASE /\ AcceptsReplies(taskState[t])
             /\ MovesReply(s, from, "QUEUED")
             /\ CanResume(taskState[t], replies[s].resume)
             /\ WriteTaskTransition(t, "reply_unsent", replies[s].resume)
    <3>1. replies[s].resume \in TaskState /\ AcceptsReplies(replies[s].resume)
      BY <2>3, StoreEventNames, Phases DEF CanResume
    <3>2. \A u \in Tasks : Phase(taskState'[u]) = Phase(taskState[u])
      BY <1>2, <2>3, <3>1, StoreEventNames
    <3>3. Phase(taskState[t]) = "open"
      BY <2>3, Phases
    <3>4. QED
      BY <2>3, <3>2, <3>3, LineMove
  <2>4. QED
    BY <2>1, <2>2, <2>3
<1>7. CASE ResolveUncertainReply(s, TRUE)
  <2>1. /\ MovesReply(s, "UNCERTAIN", "ACKNOWLEDGED")
        /\ \/ /\ taskState[t] = "DELIVERY_UNCERTAIN"
              /\ WriteTaskTransition(t, "delivery_confirmed", "RUNNING")
           \/ KeepTask
    BY <1>1, <1>7, ConfirmWrites
  <2>2. \A u \in Tasks : Phase(taskState'[u]) = Phase(taskState[u])
    BY <1>2, <1>3, <2>1, StoreEventNames, Phases
  <2>3. QED
    BY <2>1, <2>2, LineMove
<1>8. QED
  BY <1>4, <1>5, <1>6, <1>7 DEF RequeueUnsentReply, ResolveUncertainReply

LEMMA LineRecover ==
  ASSUME IInv, RecoverInFlight
  PROVE  LineStep
<1>1. TypeOK
  BY DEF IInv
<1>2. Len(replies') = Len(replies) /\ Arrived' = Arrived /\ \A u \in Tasks : SameSets(u)
  BY <1>1, RecoverSets
<1>3. \A u \in Tasks : Phase(taskState'[u]) = Phase(taskState[u])
  <2>1. \A u \in Tasks : \/ taskState'[u] = taskState[u]
                         \/ taskState[u] = "RUNNING" /\ taskState'[u] = "DELIVERY_UNCERTAIN"
    BY <1>1, RecoverWrites DEF Lost
  <2>2. QED
    BY <2>1, Phases
<1>4. QED
  BY <1>2, <1>3, LineStutters DEF LineStep

LEMMA LineRefinement == IInv /\ [StoreCall]_vars => LineStep
<1>. SUFFICES ASSUME IInv, [StoreCall]_vars PROVE LineStep
  OBVIOUS
<1>1. ASSUME replies' = replies, taskState' = taskState PROVE LineStep
  <2>1. Arrived' = Arrived /\ \A u \in Tasks : SameSets(u)
    BY <1>1 DEF SameSets, Queued, Flying, Done, RepliesIn, RepliesOf, Seqs, Arrived
  <2>2. QED
    BY <1>1, <2>1, LineStutters DEF LineStep
<1>2. CASE UNCHANGED vars
  BY <1>1, <1>2 DEF vars
<1>3. ASSUME NEW c \in Callers, NEW t \in Tasks, ReadTask(c, t) PROVE LineStep
  BY <1>1, <1>3 DEF ReadTask, taskVars, replyVars
<1>4. QED
  BY <1>2, <1>3, LineTask, LineClaim, LineEvent, LineRecord, LineReply, LineRecover
     DEF StoreCall

LEMMA LineInit == Init => Line!Init
<1>. SUFFICES ASSUME Init PROVE Line!Init
  OBVIOUS
<1>1. Len(replies) = 0 /\ Seqs = {} /\ \A t \in Tasks : taskState[t] = NoTask
  BY DEF Init, Seqs
<1>2. \A t, S : RepliesIn(t, S) = {}
  BY <1>1 DEF RepliesIn, RepliesOf
<1>3. QED
  BY <1>1, <1>2, Phases DEF Line!Init, Arrived

\* The store implements the line of ReplyLine: replies join it in order and no
\* mail joins twice, one at a time goes out, comes back to its place or is finished, and a failed or
\* closed task's line is emptied for good (tasks.go, replies.go).
THEOREM StoreImplementsLine == Spec => ImplementsLine
<1>1. Init => Line!Init
  BY LineInit
<1>2. IInv /\ [Next]_vars => [Line!Next]_(Line!vars)
  BY NextIsCall, LineRefinement DEF LineStep
<1>3. QED
  BY <1>1, <1>2, StoreInvariant, PTL DEF Spec, ImplementsLine, Line!Spec

\* Whatever the dispatcher, the adapter, the user and the operator do around
\* the store, crashes included, the line stays a line.
THEOREM DispatchImplementsLine == DispatchSpec => ImplementsLine
<1>1. DispatchInit => Line!Init
  BY LineInit DEF DispatchInit
<1>2. DispatchInv /\ [DispatchNext]_allVars => [Line!Next]_(Line!vars)
  BY DispatchIsCall, LineRefinement DEF DispatchInv, LineStep
<1>3. QED
  BY <1>1, <1>2, DispatchInvariant, PTL DEF DispatchSpec, ImplementsLine, Line!Spec
===============================================================================
