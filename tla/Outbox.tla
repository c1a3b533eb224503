-------------------------------- MODULE Outbox --------------------------------
(***************************************************************************)
(* Notifications waiting for SMTP in the SQLite store (notifications.go and *)
(* the close path of tasks.go).  Every method is one IMMEDIATE transaction   *)
(* except ClaimNextNotification, which runs two: other processes, and the    *)
(* clock, may act between them.                                              *)
(***************************************************************************)
EXTENDS QueueStates, Naturals, Sequences

CONSTANTS Tasks,        \* task ids
          MessageIds,   \* Message-IDs seen in the mailbox after delivery
          TTLs,         \* lifetimes of tokens
          Delays,       \* delays of RequeueNotification (0 to 24 h)
          Margin,       \* expiryMargin
          MaxNotes,     \* bound: rows of table notifications
          MaxAttempts,  \* bound: claims of one notification
          MaxTime       \* bound: the clock

ASSUME OutboxAssumption ==
  /\ TTLs \subseteq Nat \ {0}
  /\ Delays \subseteq Nat
  /\ {Margin, MaxNotes, MaxAttempts, MaxTime} \subseteq Nat

VARIABLES closed,    \* the tasks whose state is CLOSED
          notes,     \* table notifications, by id
          contents,  \* ids that have a row in notification_payloads
          claiming,  \* the sender is between the two transactions of a claim
          now        \* s.now()

outboxVars == <<closed, notes, contents, claiming, now>>

NoId     == "no_id"
NoReason == "none"
NoTime   == "null"

AbandonReason == {"rejected", "task_closed", "expired", "manual"}

Note == [task      : Tasks,
         state     : OutboxState,
         reason    : AbandonReason \cup {NoReason},
         attempts  : Nat,
         notBefore : Nat,
         created   : Nat,      \* created_at
         expires   : Nat,      \* token_expires_at
         sentAt    : {NoTime, "recorded"},  \* the time itself is never read
         delivered : MessageIds \cup {NoId},
         readable  : BOOLEAN]  \* the sender's payload key opens the content

\* The CHECK constraints of the table that relate two columns.
Checked(note) ==
  /\ note.expires > note.created
  /\ note.state = "ABANDONED" <=> note.reason # NoReason
  /\ note.state = "SENT" <=> note.sentAt # NoTime
  /\ note.delivered # NoId => note.state = "SENT"

Ids == DOMAIN notes

NotesIn(state) == {i \in Ids : notes[i].state = state}

-------------------------------------------------------------------------------
(* Building blocks.                                                        *)

\* updateNotification; the trigger notifications_drop_payload deletes the
\* content of a notification that becomes terminal.
UpdateNotification(i, note) ==
  /\ notes' = [notes EXCEPT ![i] = note]
  /\ contents' = IF note.state \in OutboxTerminal THEN contents \ {i} ELSE contents

Abandoned(note, reason) ==
  [note EXCEPT !.state = OutboxNext(note.state, "abandon"), !.reason = reason]

\* abandonPending: why gives the PENDING notifications and their reasons.
AbandonPending(why) ==
  /\ notes' = [i \in Ids |-> IF i \in DOMAIN why THEN Abandoned(notes[i], why[i])
                                                 ELSE notes[i]]
  /\ contents' = contents \ DOMAIN why

\* markSent within changeNotification: only from the state the operation
\* requires (nextNotification, ErrInvalidOutboxTransition).
MarkSent(i, from) ==
  /\ notes[i].state = from
  /\ UpdateNotification(i, [notes[i] EXCEPT !.state = OutboxNext(from, "delivered"),
                                            !.sentAt = "recorded"])
  /\ UNCHANGED <<closed, claiming, now>>

\* Forgets that the task may have been closed meanwhile.
PutBackFaulty(i, from, notBefore) ==
  /\ notes[i].state = from
  /\ UpdateNotification(i, [notes[i] EXCEPT !.state = OutboxNext(from, "requeue"),
                                            !.notBefore = notBefore])
  /\ UNCHANGED <<closed, claiming, now>>

\* putBackNotification: certainly not delivered.
PutBack(i, from, notBefore) ==
  /\ notes[i].state = from
  /\ UpdateNotification(i,
       IF notes[i].task \in closed
       THEN Abandoned(notes[i], "task_closed")
       ELSE [notes[i] EXCEPT !.state = OutboxNext(from, "requeue"),
                             !.notBefore = notBefore])
  /\ UNCHANGED <<closed, claiming, now>>

-------------------------------------------------------------------------------
(* The operations.                                                         *)

CreateNotification(t, ttl, readable) ==
  /\ t \notin closed                         \* ErrTaskNotNotifiable
  /\ Len(notes) < MaxNotes
  /\ notes' = Append(notes, [task |-> t, state |-> "PENDING", reason |-> NoReason,
                             attempts |-> 0, notBefore |-> now, created |-> now,
                             expires |-> now + ttl, sentAt |-> NoTime,
                             delivered |-> NoId, readable |-> readable])
  /\ contents' = contents \cup {Len(notes) + 1}
  /\ UNCHANGED <<closed, claiming, now>>

\* The close event of applyEvent, as far as the outbox is concerned.
CloseTask(t) ==
  /\ t \notin closed
  /\ closed' = closed \cup {t}
  /\ AbandonPending([i \in {j \in NotesIn("PENDING") : notes[j].task = t} |->
                      "task_closed"])
  /\ UNCHANGED <<claiming, now>>

Expiring(i) == notes[i].expires <= now + Margin

UnsendableFaulty(i) == notes[i].task \in closed

Unsendable(i) == Expiring(i) \/ notes[i].task \in closed

\* ClaimNextNotification, first transaction: abandonUnsendable.
BeginClaim ==
  /\ ~claiming
  /\ claiming' = TRUE
  /\ AbandonPending([i \in {j \in NotesIn("PENDING") : Unsendable(j)} |->
                      IF Expiring(i) THEN "expired" ELSE "task_closed"])
  /\ UNCHANGED <<closed, now>>

\* Trusts the first transaction to have removed what is about to expire.
DueFaulty == {i \in NotesIn("PENDING") : notes[i].notBefore <= now}

Due == {i \in NotesIn("PENDING") : notes[i].notBefore <= now /\ ~Expiring(i)}

\* ORDER BY not_before, id LIMIT 1
IsEarliest(i, ids) ==
  \A j \in ids : \/ notes[i].notBefore < notes[j].notBefore
                 \/ notes[i].notBefore = notes[j].notBefore /\ i <= j

SenderBusy == NotesIn("SENDING") # {}

Readable(i) == i \in contents /\ notes[i].readable

\* ClaimNextNotification, second transaction: the earliest notification that
\* is due, unless another one is being sent or the content cannot be opened
\* (then nothing changes: ErrNoSendableNotification, ErrPayload...).
EndClaim ==
  /\ claiming
  /\ claiming' = FALSE
  /\ UNCHANGED <<closed, now>>
  /\ IF SenderBusy \/ \A i \in Due : IsEarliest(i, Due) => ~Readable(i)
     THEN UNCHANGED <<notes, contents>>
     ELSE \E i \in Due :
            /\ IsEarliest(i, Due)
            /\ notes[i].attempts < MaxAttempts
            /\ UpdateNotification(i,
                 [notes[i] EXCEPT !.state = OutboxNext("PENDING", "claim"),
                                  !.attempts = @ + 1])

MarkNotificationSent(i) == MarkSent(i, "SENDING")

MarkNotificationUncertain(i) ==
  /\ notes[i].state = "SENDING"
  /\ UpdateNotification(i,
       [notes[i] EXCEPT !.state = OutboxNext("SENDING", "mark_uncertain")])
  /\ UNCHANGED <<closed, claiming, now>>

RequeueNotification(i, delay) == PutBack(i, "SENDING", now + delay)

AbandonNotification(i, reason) ==
  /\ reason \in {"rejected", "manual"}
  /\ OutboxAllows(notes[i].state, "abandon")
  /\ UpdateNotification(i, Abandoned(notes[i], reason))
  /\ UNCHANGED <<closed, claiming, now>>

ResolveUncertainNotification(i, delivered) ==
  \/ delivered /\ MarkSent(i, "UNCERTAIN")
  \/ ~delivered /\ PutBack(i, "UNCERTAIN", now)

\* The id may be recorded once and belongs to one notification only
\* (ErrDeliveredMessageIDConflict).
DeliveredIdFree(i, id) ==
  notes[i].delivered = NoId /\ \A j \in Ids : notes[j].delivered # id

RecordDeliveredMessageID(i, id) ==
  /\ notes[i].state = "SENT"
  /\ DeliveredIdFree(i, id)
  /\ notes' = [notes EXCEPT ![i].delivered = id]
  /\ UNCHANGED <<closed, contents, claiming, now>>

\* At start-up: whatever was being sent is UNCERTAIN.
RecoverSendingNotifications ==
  /\ notes' = [i \in Ids |->
                 IF notes[i].state = "SENDING"
                 THEN [notes[i] EXCEPT !.state = OutboxNext("SENDING", "mark_uncertain")]
                 ELSE notes[i]]
  /\ UNCHANGED <<closed, contents, claiming, now>>

Tick ==
  /\ now < MaxTime
  /\ now' = now + 1
  /\ UNCHANGED <<closed, notes, contents, claiming>>

-------------------------------------------------------------------------------
OutboxInit ==
  /\ closed = {}
  /\ notes = <<>>
  /\ contents = {}
  /\ claiming = FALSE
  /\ now = 0

-------------------------------------------------------------------------------
(* Properties.                                                             *)

\* The shape of table notifications with its CHECK constraints: no operation,
\* recovery or sweep leaves a row the schema would refuse, with a reason
\* exactly on abandoned rows, a time of sending exactly on sent ones, a
\* delivered Message-ID on sent ones only and an expiry after the creation.
OutboxTypeOK ==
  /\ closed \subseteq Tasks
  /\ notes \in Seq(Note)
  /\ \A i \in Ids : Checked(notes[i])
  /\ Len(notes) <= MaxNotes
  /\ contents \subseteq Ids
  /\ claiming \in BOOLEAN
  /\ now \in Nat

\* A closed task has nothing PENDING: neither a requeue, nor a resolution, nor
\* a creation racing with close brings a notification back, so the sweep of
\* closed tasks in abandonUnsendable is only the safety net it claims to be.
ClosedTasksSendNothing ==
  \A i \in NotesIn("PENDING") : notes[i].task \notin closed

\* A notification starts its way to the server only while its token will live
\* for more than the margin, also when it was put back, or time passed,
\* between the two transactions.
ClaimsInTime ==
  [][\A i \in Ids : notes[i].state = "PENDING" /\ notes'[i].state = "SENDING" =>
       notes[i].expires > now + Margin]_outboxVars
===============================================================================
