------------------------- MODULE OutboxDeliveryProofs -------------------------
(***************************************************************************)
(* Proofs about OutboxDelivery, for any number of notifications, of faults   *)
(* and of retries: nothing is delivered twice, what is recorded is true,     *)
(* closed tasks have nothing to send, and no token expires under a claim.    *)
(***************************************************************************)
EXTENDS OutboxDelivery, SequenceTheorems, TLAPS

\* What the schema says of a row.
WellFormed(note) == note \in Note /\ Checked(note)

\* A row that is true, of a notification the server accepted n times.  While it
\* is PENDING it was certainly not accepted, and its task is open.
RowTrue(note, n, shut) ==
  /\ n \in {0, 1}
  /\ note.state = "PENDING" => n = 0 /\ note.task \notin shut
  /\ note.state = "SENT" => n = 1
  /\ note.state = "ABANDONED" /\ note.reason # "manual" => n = 0

RowsTrue == \A i \in Ids : RowTrue(notes[i], accepted[i], closed)

NothingBefore == \A i \in (1..MaxNotes) \ Ids : accepted[i] = 0

Phase == {"none", "open", "submitting", "not_sent", "accepted", "refused_for_now",
          "refused", "unknown"}

DeliveryType ==
  /\ OutboxTypeOK
  /\ up \in BOOLEAN
  /\ smtp \in [id : Nat, at : Phase]
  /\ accepted \in [1..MaxNotes -> Nat]

\* A row in the hands of the sender; the operator may have given it up.
InHand(note) == \/ note.state = "SENDING"
                \/ note.state = "ABANDONED" /\ note.reason = "manual"

\* The one session is of a row in hand, and knows how it stands with the server.
SessionIsTrue ==
  smtp.at # "none" =>
    /\ up /\ smtp.id \in Ids /\ InHand(notes[smtp.id])
    /\ smtp.at \in {"open", "submitting", "not_sent", "refused_for_now", "refused"}
         => accepted[smtp.id] = 0
    /\ smtp.at = "accepted" => accepted[smtp.id] = 1

\* Recovery left no SENDING row that the running sender does not work on.
SendingHasSession ==
  up => \A i \in NotesIn("SENDING") : smtp.at # "none" /\ smtp.id = i

ClaimsAlone == claiming => up /\ smtp = NoSession

DeliveryInv ==
  DeliveryType /\ RowsTrue /\ NothingBefore /\ SessionIsTrue /\ SendingHasSession
  /\ ClaimsAlone

-------------------------------------------------------------------------------
(* The tables.                                                             *)

\* queue.NextOutbox.
LEMMA OutboxTable ==
  /\ OutboxNext("PENDING", "claim") = "SENDING"
  /\ OutboxNext("SENDING", "delivered") = "SENT"
  /\ OutboxNext("UNCERTAIN", "delivered") = "SENT"
  /\ OutboxNext("SENDING", "mark_uncertain") = "UNCERTAIN"
  /\ OutboxNext("SENDING", "requeue") = "PENDING"
  /\ OutboxNext("UNCERTAIN", "requeue") = "PENDING"
BY DEF OutboxNext, OutboxTransitions

LEMMA AbandonTable ==
  ASSUME NEW s, OutboxAllows(s, "abandon")
  PROVE  s \in {"PENDING", "SENDING", "UNCERTAIN"} /\ OutboxNext(s, "abandon") = "ABANDONED"
BY DEF OutboxNext, OutboxAllows, OutboxTransitions, OutboxState

LEMMA AbandonAllowed ==
  /\ OutboxNext("PENDING", "abandon") = "ABANDONED"
  /\ OutboxNext("SENDING", "abandon") = "ABANDONED"
  /\ OutboxNext("UNCERTAIN", "abandon") = "ABANDONED"
BY DEF OutboxNext, OutboxTransitions

-------------------------------------------------------------------------------
(* Steps that rewrite rows.                                                *)

\* A row that is neither sent nor abandoned carries nothing that says so.
LEMMA RowOpen ==
  ASSUME NEW note, WellFormed(note), note.state \in {"PENDING", "SENDING", "UNCERTAIN"}
  PROVE  /\ note \in Note /\ note.reason = NoReason /\ note.sentAt = NoTime
         /\ note.delivered = NoId /\ note.expires > note.created
BY DEF WellFormed, Checked

\* What becomes of such a row.
LEMMA RowUncertain ==
  ASSUME NEW note, WellFormed(note), note.state \in {"PENDING", "SENDING", "UNCERTAIN"},
         NEW moved, moved = [note EXCEPT !.state = "UNCERTAIN"]
  PROVE  WellFormed(moved) /\ moved.state = "UNCERTAIN" /\ moved.task = note.task
<1>1. /\ note \in Note /\ note.reason = NoReason /\ note.sentAt = NoTime
      /\ note.delivered = NoId /\ note.expires > note.created
  BY RowOpen
<1>2. /\ moved \in Note /\ moved.state = "UNCERTAIN" /\ moved.task = note.task
      /\ moved.reason = NoReason /\ moved.delivered = NoId
      /\ moved.sentAt = NoTime /\ moved.expires > moved.created
  BY <1>1 DEF Note, OutboxState
<1> QED
  BY <1>2 DEF WellFormed, Checked

LEMMA RowSent ==
  ASSUME NEW note, WellFormed(note), note.state \in {"SENDING", "UNCERTAIN"},
         NEW sent, sent = [note EXCEPT !.state = "SENT", !.sentAt = "recorded"]
  PROVE  WellFormed(sent) /\ sent.state = "SENT"
<1>1. /\ note \in Note /\ note.reason = NoReason /\ note.sentAt = NoTime
      /\ note.delivered = NoId /\ note.expires > note.created
  BY RowOpen
<1>2. /\ sent \in Note /\ sent.state = "SENT"
      /\ sent.reason = NoReason /\ sent.sentAt = "recorded"
      /\ sent.expires > sent.created
  BY <1>1 DEF Note, OutboxState
<1>3. "recorded" # NoTime
  BY DEF NoTime
<1> QED
  BY <1>2, <1>3 DEF WellFormed, Checked

LEMMA RowClaimed ==
  ASSUME NEW note, WellFormed(note), note.state = "PENDING"
  PROVE  LET claimed == [note EXCEPT !.state = "SENDING", !.attempts = note.attempts + 1]
         IN  WellFormed(claimed) /\ claimed.state = "SENDING"
<1> DEFINE claimed == [note EXCEPT !.state = "SENDING", !.attempts = note.attempts + 1]
<1>1. /\ note \in Note /\ note.reason = NoReason /\ note.sentAt = NoTime
      /\ note.delivered = NoId /\ note.expires > note.created
  BY RowOpen
<1>2. note.attempts + 1 \in Nat
  BY <1>1 DEF Note
<1>3. /\ claimed \in Note /\ claimed.state = "SENDING"
      /\ claimed.reason = NoReason /\ claimed.delivered = NoId
      /\ claimed.sentAt = NoTime /\ claimed.expires > claimed.created
  BY <1>1, <1>2 DEF Note, OutboxState
<1> QED
  BY <1>3 DEF WellFormed, Checked

LEMMA RowAbandoned ==
  ASSUME NEW note, WellFormed(note), note.state \in {"PENDING", "SENDING", "UNCERTAIN"},
         NEW r \in AbandonReason, NEW gone, gone = Abandoned(note, r)
  PROVE  /\ WellFormed(gone) /\ gone.state = "ABANDONED" /\ gone.reason = r
         /\ gone.task = note.task
<1>1. gone = [note EXCEPT !.state = "ABANDONED", !.reason = r]
  BY AbandonAllowed DEF Abandoned
<1>2. /\ note \in Note /\ note.reason = NoReason /\ note.sentAt = NoTime
      /\ note.delivered = NoId /\ note.expires > note.created
  BY RowOpen
<1>3. /\ gone \in Note /\ gone.state = "ABANDONED" /\ gone.reason = r
      /\ gone.task = note.task /\ gone.delivered = NoId
      /\ gone.sentAt = NoTime /\ gone.expires > gone.created
  BY <1>1, <1>2 DEF Note, OutboxState
<1>4. r # NoReason
  BY DEF AbandonReason, NoReason
<1> QED
  BY <1>3, <1>4 DEF WellFormed, Checked

\* The type survives any rewriting of rows into well-formed ones.
LEMMA RowsType ==
  ASSUME OutboxTypeOK, DOMAIN notes' = Ids, notes' = [i \in Ids |-> notes'[i]],
         \A i \in Ids : WellFormed(notes'[i]),
         contents' \subseteq contents, closed' \subseteq Tasks,
         claiming' \in BOOLEAN, now' \in Nat
  PROVE  OutboxTypeOK' /\ Ids' = Ids /\ Len(notes') = Len(notes)
<1>1. notes \in Seq(Note) /\ Ids = 1..Len(notes) /\ Len(notes) \in Nat
  BY DEF OutboxTypeOK, Ids
<1>2. notes' \in Seq(Note) /\ Len(notes') = Len(notes)
  <2>1. \A i \in 1..Len(notes) : notes'[i] \in Note
    BY <1>1 DEF WellFormed
  <2>2. notes' \in [1..Len(notes) -> Note]
    BY <1>1, <2>1
  <2> QED
    BY <1>1, <2>2, SeqDef
<1>3. Ids' = Ids
  BY <1>1, <1>2 DEF Ids
<1> QED
  BY <1>2, <1>3 DEF OutboxTypeOK, WellFormed

\* Every row of a well-typed table is well-formed.
LEMMA RowsWellFormed ==
  ASSUME OutboxTypeOK
  PROVE  /\ notes = [i \in Ids |-> notes[i]]
         /\ \A i \in Ids : WellFormed(notes[i])
         /\ Ids = 1..Len(notes) /\ Len(notes) \in Nat /\ Ids \subseteq 1..MaxNotes
<1>1. notes \in Seq(Note) /\ Ids = 1..Len(notes) /\ Len(notes) \in Nat
  BY DEF OutboxTypeOK, Ids
<1>2. Ids \subseteq 1..MaxNotes
  BY <1>1, OutboxAssumption DEF OutboxTypeOK
<1> QED
  BY <1>1, <1>2 DEF OutboxTypeOK, WellFormed

\* One row changes, and is in nobody's hands afterwards unless it was given up.
LEMMA RowStep ==
  ASSUME DeliveryInv, NEW i \in Ids, NEW note, WellFormed(note),
         notes' = [notes EXCEPT ![i] = note], contents' \subseteq contents,
         closed' = closed, claiming' = claiming, now' = now,
         up' = up, accepted' = accepted,
         RowTrue(note, accepted[i], closed), note.state # "SENDING",
         \/ smtp' = smtp /\ (smtp.at # "none" /\ smtp.id = i => InHand(note))
         \/ smtp' = NoSession /\ smtp.id = i
  PROVE  DeliveryInv'
<1>1. /\ OutboxTypeOK /\ smtp \in [id : Nat, at : Phase]
      /\ closed \subseteq Tasks /\ claiming \in BOOLEAN /\ now \in Nat
  BY DEF DeliveryInv, DeliveryType, OutboxTypeOK
<1>2. /\ \A j \in Ids : notes'[j] = IF j = i THEN note ELSE notes[j]
      /\ DOMAIN notes' = Ids /\ notes' = [j \in Ids |-> notes'[j]]
  BY <1>1, RowsWellFormed DEF Ids
<1>3. \A j \in Ids : WellFormed(notes'[j])
  BY <1>1, <1>2, RowsWellFormed
<1>4. OutboxTypeOK' /\ Ids' = Ids
  BY <1>1, <1>2, <1>3, RowsType
<1>5. smtp' \in [id : Nat, at : Phase] /\ (smtp' = NoSession => smtp'.at = "none")
  BY <1>1 DEF NoSession, Phase
<1>6. DeliveryType'
  BY <1>4, <1>5 DEF DeliveryInv, DeliveryType
<1>7. RowsTrue' /\ NothingBefore'
  BY <1>2, <1>4 DEF DeliveryInv, RowsTrue, NothingBefore
<1>8. SessionIsTrue'
  BY <1>2, <1>4, <1>5 DEF DeliveryInv, SessionIsTrue
<1>9. SendingHasSession'
  BY <1>2, <1>4 DEF DeliveryInv, SendingHasSession, NotesIn
<1>10. ClaimsAlone'
  BY DEF DeliveryInv, ClaimsAlone
<1> QED
  BY <1>6, <1>7, <1>8, <1>9, <1>10 DEF DeliveryInv

\* Steps that leave the rows alone and let the server decide at most.
LEMMA SessionStep ==
  ASSUME DeliveryInv, UNCHANGED <<closed, notes, contents, claiming>>,
         now' \in Nat, up' \in BOOLEAN, smtp' \in [id : Nat, at : Phase],
         accepted' \in [1..MaxNotes -> Nat],
         \A i \in Ids : RowTrue(notes[i], accepted'[i], closed),
         \A i \in (1..MaxNotes) \ Ids : accepted'[i] = accepted[i],
         SessionIsTrue', SendingHasSession', ClaimsAlone'
  PROVE  DeliveryInv'
<1>1. Ids' = Ids
  BY DEF Ids
<1>2. OutboxTypeOK'
  BY <1>1 DEF DeliveryInv, DeliveryType, OutboxTypeOK
<1>3. RowsTrue' /\ NothingBefore'
  BY <1>1 DEF DeliveryInv, RowsTrue, NothingBefore
<1> QED
  BY <1>2, <1>3 DEF DeliveryInv, DeliveryType

\* abandonPending gives up rows that are PENDING, which nobody has in hand.
LEMMA AbandonPendingStep ==
  ASSUME DeliveryInv, NEW why, DOMAIN why \subseteq NotesIn("PENDING"),
         \A i \in DOMAIN why : why[i] \in {"expired", "task_closed"},
         AbandonPending(why), now' = now,
         closed' \subseteq Tasks, closed \subseteq closed',
         \A i \in NotesIn("PENDING") \ DOMAIN why : notes[i].task \notin closed',
         claiming' \in BOOLEAN, claiming' => claiming \/ (up /\ smtp = NoSession),
         UNCHANGED senderVars
  PROVE  DeliveryInv'
<1>1. OutboxTypeOK /\ now \in Nat
  BY DEF DeliveryInv, DeliveryType, OutboxTypeOK
<1>2. /\ notes' = [i \in Ids |-> notes'[i]] /\ DOMAIN notes' = Ids
      /\ contents' \subseteq contents
      /\ \A i \in Ids : notes'[i] = IF i \in DOMAIN why THEN Abandoned(notes[i], why[i])
                                                        ELSE notes[i]
  BY DEF AbandonPending
<1>3. \A i \in Ids : WellFormed(notes[i])
  BY <1>1, RowsWellFormed
<1>4. \A i \in DOMAIN why :
        i \in Ids /\ notes[i].state = "PENDING" /\ why[i] \in AbandonReason
  BY DEF NotesIn, AbandonReason
<1>5. \A i \in DOMAIN why :
        /\ WellFormed(notes'[i])
        /\ notes'[i].state = "ABANDONED" /\ notes'[i].reason = why[i]
  BY <1>2, <1>3, <1>4, RowAbandoned
<1>6. OutboxTypeOK' /\ Ids' = Ids
  BY <1>1, <1>2, <1>3, <1>5, RowsType
<1>7. DeliveryType'
  BY <1>6 DEF DeliveryInv, DeliveryType, senderVars
<1>8. RowsTrue'
  <2> SUFFICES ASSUME NEW i \in Ids PROVE RowTrue(notes'[i], accepted[i], closed')
    BY <1>6 DEF RowsTrue, senderVars
  <2>1. RowTrue(notes[i], accepted[i], closed)
    BY DEF DeliveryInv, RowsTrue
  <2>2. CASE i \in DOMAIN why
    BY <2>1, <2>2, <1>4, <1>5 DEF RowTrue
  <2>3. CASE i \notin DOMAIN why
    BY <2>1, <2>3, <1>2 DEF RowTrue, NotesIn
  <2> QED
    BY <2>2, <2>3
<1>9. NothingBefore'
  BY <1>6 DEF DeliveryInv, NothingBefore, senderVars
<1>10. SessionIsTrue' /\ SendingHasSession'
  <2>1. \A i \in Ids : InHand(notes[i]) => i \notin DOMAIN why
    BY <1>4 DEF InHand
  <2>2. SessionIsTrue'
    BY <1>2, <1>6, <2>1 DEF DeliveryInv, SessionIsTrue, senderVars
  <2>3. \A i \in Ids : notes'[i].state = "SENDING" => notes[i].state = "SENDING"
    BY <1>2, <1>5
  <2>4. SendingHasSession'
    BY <1>6, <2>3 DEF DeliveryInv, SendingHasSession, NotesIn, senderVars
  <2> QED
    BY <2>2, <2>4
<1>11. ClaimsAlone'
  BY DEF DeliveryInv, ClaimsAlone, senderVars
<1> QED
  BY <1>7, <1>8, <1>9, <1>10, <1>11 DEF DeliveryInv

-------------------------------------------------------------------------------
(* The sender.                                                             *)

LEMMA InitDeliveryInv == DeliveryInit => DeliveryInv
<1> SUFFICES ASSUME DeliveryInit PROVE DeliveryInv
  OBVIOUS
<1>1. Ids = {} /\ notes \in Seq(Note) /\ Len(notes) = 0
  BY DEF DeliveryInit, OutboxInit, Ids
<1>2. OutboxTypeOK
  <2>1. 0 <= MaxNotes
    BY OutboxAssumption
  <2>2. /\ closed = {} /\ contents = {} /\ claiming = FALSE /\ now = 0
    BY DEF DeliveryInit, OutboxInit
  <2> QED
    BY <1>1, <2>1, <2>2 DEF OutboxTypeOK
<1>3. up \in BOOLEAN /\ smtp \in [id : Nat, at : Phase] /\ accepted \in [1..MaxNotes -> Nat]
  BY DEF DeliveryInit, NoSession, Phase
<1>4. RowsTrue /\ NothingBefore /\ SessionIsTrue /\ SendingHasSession /\ ClaimsAlone
  BY <1>1 DEF DeliveryInit, OutboxInit, RowsTrue, NothingBefore, SessionIsTrue,
              SendingHasSession, ClaimsAlone, NoSession
<1> QED
  BY <1>2, <1>3, <1>4 DEF DeliveryInv, DeliveryType

\* Recovery makes every row UNCERTAIN that a dead sender left SENDING.
LEMMA StartSenderStep ==
  ASSUME DeliveryInv, StartSender PROVE DeliveryInv'
<1>1. /\ ~up /\ up' = TRUE /\ UNCHANGED <<smtp, accepted, closed, contents, claiming, now>>
      /\ OutboxTypeOK
      /\ smtp.at = "none" /\ ~claiming
  BY DEF StartSender, RecoverSendingNotifications, DeliveryInv, DeliveryType,
         SessionIsTrue, ClaimsAlone
<1>2. /\ notes' = [i \in Ids |-> notes'[i]] /\ DOMAIN notes' = Ids
      /\ \A i \in Ids : notes'[i] = IF notes[i].state = "SENDING"
                                    THEN [notes[i] EXCEPT !.state = "UNCERTAIN"]
                                    ELSE notes[i]
  BY OutboxTable DEF StartSender, RecoverSendingNotifications
<1>3. \A i \in Ids : WellFormed(notes[i])
  BY <1>1, RowsWellFormed
<1>4. \A i \in Ids :
        /\ WellFormed(notes'[i]) /\ notes'[i].task = notes[i].task
        /\ notes'[i].state = IF notes[i].state = "SENDING" THEN "UNCERTAIN"
                                                           ELSE notes[i].state
        /\ notes'[i].state # "SENDING"
        /\ notes[i].state # "SENDING" => notes'[i] = notes[i]
  <2> SUFFICES ASSUME NEW i \in Ids
      PROVE  /\ WellFormed(notes'[i]) /\ notes'[i].task = notes[i].task
             /\ notes'[i].state = IF notes[i].state = "SENDING" THEN "UNCERTAIN"
                                                                ELSE notes[i].state
             /\ notes'[i].state # "SENDING"
             /\ notes[i].state # "SENDING" => notes'[i] = notes[i]
    OBVIOUS
  <2>1. CASE notes[i].state = "SENDING"
    BY <1>2, <1>3, <2>1, RowUncertain
  <2>2. CASE notes[i].state # "SENDING"
    BY <1>2, <1>3, <2>2
  <2> QED
    BY <2>1, <2>2
<1>5. OutboxTypeOK' /\ Ids' = Ids
  BY <1>1, <1>2, <1>4, RowsType DEF OutboxTypeOK
<1>6. DeliveryType'
  BY <1>1, <1>5 DEF DeliveryInv, DeliveryType
<1>7. RowsTrue' /\ NothingBefore'
  BY <1>1, <1>4, <1>5 DEF DeliveryInv, RowsTrue, RowTrue, NothingBefore
<1>8. SessionIsTrue' /\ SendingHasSession' /\ ClaimsAlone'
  BY <1>1, <1>4, <1>5 DEF SessionIsTrue, SendingHasSession, ClaimsAlone, NotesIn
<1> QED
  BY <1>6, <1>7, <1>8 DEF DeliveryInv

LEMMA BeginNextStep ==
  ASSUME DeliveryInv, BeginNext PROVE DeliveryInv'
<1> DEFINE gone == {j \in NotesIn("PENDING") : Unsendable(j)}
           why  == [i \in gone |-> IF Expiring(i) THEN "expired" ELSE "task_closed"]
<1>1. AbandonPending(why) /\ UNCHANGED <<closed, now>> /\ UNCHANGED senderVars
  BY DEF BeginNext, BeginClaim
<1>2. claiming' = TRUE /\ up /\ smtp = NoSession
  BY DEF BeginNext, BeginClaim
<1>3. /\ DOMAIN why \subseteq NotesIn("PENDING")
      /\ \A i \in DOMAIN why : why[i] \in {"expired", "task_closed"}
  OBVIOUS
<1>4. \A i \in NotesIn("PENDING") \ DOMAIN why : notes[i].task \notin closed'
  BY <1>1 DEF DeliveryInv, RowsTrue, RowTrue, NotesIn
<1>5. closed \subseteq Tasks
  BY DEF DeliveryInv, DeliveryType, OutboxTypeOK
<1> HIDE DEF why
<1> QED
  BY <1>1, <1>2, <1>3, <1>4, <1>5, AbandonPendingStep

\* A claim finds no other session: the sender is alone and between two of them.
LEMMA EndNextStep ==
  ASSUME DeliveryInv, EndNext PROVE DeliveryInv'
<1> DEFINE claimed == {i \in Ids : notes[i].state = "PENDING" /\ notes'[i].state = "SENDING"}
<1>1. /\ up /\ up' = up /\ claiming /\ claiming' = FALSE /\ smtp = NoSession
      /\ UNCHANGED <<accepted, closed, now>> /\ OutboxTypeOK /\ now \in Nat
  BY DEF EndNext, EndClaim, DeliveryInv, DeliveryType, OutboxTypeOK, ClaimsAlone
<1>2. smtp' = IF claimed = {} THEN NoSession
              ELSE [id |-> CHOOSE i \in claimed : TRUE, at |-> "open"]
  BY DEF EndNext
<1>3. NotesIn("SENDING") = {}
  BY <1>1 DEF DeliveryInv, SendingHasSession, NoSession
<1>4. CASE UNCHANGED <<notes, contents>>
  <2>1. claimed = {} /\ smtp' = NoSession
    BY <1>2, <1>4
  <2>2. NoSession \in [id : Nat, at : Phase] /\ NoSession.at = "none"
    BY DEF NoSession, Phase
  <2>3. Ids' = Ids
    BY <1>4 DEF Ids
  <2>4. DeliveryType'
    BY <1>1, <1>4, <2>1, <2>2, <2>3 DEF DeliveryInv, DeliveryType, OutboxTypeOK
  <2>5. RowsTrue' /\ NothingBefore'
    BY <1>1, <1>4, <2>3 DEF DeliveryInv, RowsTrue, NothingBefore
  <2>6. SessionIsTrue' /\ SendingHasSession' /\ ClaimsAlone'
    BY <1>1, <1>3, <1>4, <2>1, <2>2, <2>3
       DEF SessionIsTrue, SendingHasSession, ClaimsAlone, NotesIn
  <2> QED
    BY <2>4, <2>5, <2>6 DEF DeliveryInv
<1>5. ASSUME NEW i \in Due,
             UpdateNotification(i, [notes[i] EXCEPT !.state = OutboxNext("PENDING", "claim"),
                                                    !.attempts = @ + 1])
      PROVE  DeliveryInv'
  <2> DEFINE note == [notes[i] EXCEPT !.state = "SENDING", !.attempts = notes[i].attempts + 1]
  <2>1. i \in Ids /\ notes[i].state = "PENDING" /\ WellFormed(notes[i])
    BY <1>1, RowsWellFormed DEF Due, NotesIn
  <2>2. WellFormed(note) /\ note.state = "SENDING"
    BY <2>1, RowClaimed
  <2>3. /\ notes' = [notes EXCEPT ![i] = note] /\ contents' = contents
    BY <1>5, OutboxTable, <2>2 DEF UpdateNotification, OutboxTerminal
  <2> HIDE DEF note
  <2>4. /\ \A j \in Ids : notes'[j] = IF j = i THEN note ELSE notes[j]
        /\ DOMAIN notes' = Ids /\ notes' = [j \in Ids |-> notes'[j]]
    BY <1>1, <2>3, RowsWellFormed DEF Ids
  <2>5. claimed = {i} /\ smtp' = [id |-> i, at |-> "open"]
    <3>1. \A j \in Ids : notes[j].state = "PENDING" /\ notes'[j].state = "SENDING" => j = i
      BY <2>4
    <3>2. claimed = {i}
      BY <2>1, <2>2, <2>4, <3>1
    <3>3. (CHOOSE j \in claimed : TRUE) = i
      BY <3>2
    <3> QED
      BY <1>2, <3>2, <3>3
  <2>6. \A j \in Ids : WellFormed(notes'[j])
    BY <1>1, <2>2, <2>4, RowsWellFormed
  <2>7. OutboxTypeOK' /\ Ids' = Ids
    BY <1>1, <2>3, <2>4, <2>6, RowsType DEF OutboxTypeOK
  <2>8. DeliveryType'
    <3>1. i \in Nat
      BY <1>1, <2>1, RowsWellFormed
    <3> QED
      BY <1>1, <2>5, <2>7, <3>1 DEF DeliveryInv, DeliveryType, Phase
  <2>9. accepted[i] = 0
    BY <2>1 DEF DeliveryInv, RowsTrue, RowTrue
  <2>10. RowsTrue'
    <3>1. RowTrue(note, accepted[i], closed)
      BY <2>2, <2>9 DEF RowTrue
    <3> QED
      BY <1>1, <2>4, <2>7, <3>1 DEF DeliveryInv, RowsTrue
  <2>11. NothingBefore'
    BY <1>1, <2>7 DEF DeliveryInv, NothingBefore
  <2>12. SessionIsTrue'
    BY <1>1, <2>1, <2>2, <2>4, <2>5, <2>7, <2>9 DEF SessionIsTrue, InHand
  <2>13. SendingHasSession'
    BY <1>3, <2>4, <2>5, <2>7 DEF SendingHasSession, NotesIn
  <2>14. ClaimsAlone'
    BY <1>1 DEF ClaimsAlone
  <2> QED
    BY <2>8, <2>10, <2>11, <2>12, <2>13, <2>14 DEF DeliveryInv
<1> QED
  BY <1>4, <1>5 DEF EndNext, EndClaim

\* What the operations on one row write.
LEMMA RowRequeued ==
  ASSUME NEW note, WellFormed(note), note.state \in {"SENDING", "UNCERTAIN"},
         NEW n \in Nat
  PROVE  LET back == [note EXCEPT !.state = "PENDING", !.notBefore = n]
         IN  WellFormed(back) /\ back.state = "PENDING" /\ back.task = note.task
<1> DEFINE back == [note EXCEPT !.state = "PENDING", !.notBefore = n]
<1>1. /\ note \in Note /\ note.reason = NoReason /\ note.sentAt = NoTime
      /\ note.delivered = NoId /\ note.expires > note.created
  BY RowOpen
<1>2. /\ back \in Note /\ back.state = "PENDING" /\ back.task = note.task
      /\ back.reason = NoReason /\ back.delivered = NoId
      /\ back.sentAt = NoTime /\ back.expires > back.created
  BY <1>1 DEF Note, OutboxState
<1> QED
  BY <1>2 DEF WellFormed, Checked

LEMMA MarkSentWrites ==
  ASSUME OutboxTypeOK, NEW i \in Ids, NEW from \in {"SENDING", "UNCERTAIN"},
         MarkSent(i, from)
  PROVE  /\ notes[i].state = from /\ UNCHANGED <<closed, claiming, now>>
         /\ contents' \subseteq contents
         /\ \E note : /\ WellFormed(note) /\ note.state = "SENT"
                      /\ notes' = [notes EXCEPT ![i] = note]
<1> DEFINE note == [notes[i] EXCEPT !.state = "SENT", !.sentAt = "recorded"]
<1>1. /\ notes[i].state = from /\ UNCHANGED <<closed, claiming, now>>
      /\ UpdateNotification(i, note)
  BY OutboxTable DEF MarkSent
<1>2. WellFormed(notes[i])
  BY RowsWellFormed
<1>3. WellFormed(note) /\ note.state = "SENT"
  BY <1>1, <1>2, RowSent
<1> HIDE DEF note
<1>4. notes' = [notes EXCEPT ![i] = note] /\ contents' \subseteq contents
  BY <1>1 DEF UpdateNotification
<1> QED
  BY <1>1, <1>3, <1>4

LEMMA MarkUncertainWrites ==
  ASSUME OutboxTypeOK, NEW i \in Ids, MarkNotificationUncertain(i)
  PROVE  /\ notes[i].state = "SENDING" /\ UNCHANGED <<closed, claiming, now>>
         /\ contents' \subseteq contents
         /\ \E note : /\ WellFormed(note) /\ note.state = "UNCERTAIN"
                      /\ notes' = [notes EXCEPT ![i] = note]
<1> DEFINE note == [notes[i] EXCEPT !.state = "UNCERTAIN"]
<1>1. /\ notes[i].state = "SENDING" /\ UNCHANGED <<closed, claiming, now>>
      /\ UpdateNotification(i, note)
  BY OutboxTable DEF MarkNotificationUncertain
<1>2. WellFormed(notes[i])
  BY RowsWellFormed
<1>3. WellFormed(note) /\ note.state = "UNCERTAIN"
  BY <1>1, <1>2, RowUncertain
<1> HIDE DEF note
<1>4. notes' = [notes EXCEPT ![i] = note] /\ contents' \subseteq contents
  BY <1>1 DEF UpdateNotification
<1> QED
  BY <1>1, <1>3, <1>4

\* Back in the queue, unless the task was closed meanwhile.
LEMMA PutBackWrites ==
  ASSUME OutboxTypeOK, NEW i \in Ids, NEW from \in {"SENDING", "UNCERTAIN"},
         NEW n \in Nat, PutBack(i, from, n)
  PROVE  /\ notes[i].state = from /\ UNCHANGED <<closed, claiming, now>>
         /\ contents' \subseteq contents
         /\ \E note : /\ WellFormed(note) /\ notes' = [notes EXCEPT ![i] = note]
                      /\ \/ note.state = "PENDING" /\ note.task \notin closed
                         \/ note.state = "ABANDONED" /\ note.reason = "task_closed"
<1> DEFINE gone == Abandoned(notes[i], "task_closed")
           back == [notes[i] EXCEPT !.state = "PENDING", !.notBefore = n]
<1>1. /\ notes[i].state = from /\ UNCHANGED <<closed, claiming, now>>
      /\ UpdateNotification(i, IF notes[i].task \in closed THEN gone ELSE back)
  BY OutboxTable DEF PutBack
<1>2. WellFormed(notes[i])
  BY RowsWellFormed
<1>3. WellFormed(gone) /\ gone.state = "ABANDONED" /\ gone.reason = "task_closed"
  BY <1>1, <1>2, RowAbandoned DEF AbandonReason
<1>4. WellFormed(back) /\ back.state = "PENDING" /\ back.task = notes[i].task
  BY <1>1, <1>2, RowRequeued
<1> HIDE DEF gone, back
<1>5. /\ notes' = [notes EXCEPT ![i] = IF notes[i].task \in closed THEN gone ELSE back]
      /\ contents' \subseteq contents
  BY <1>1 DEF UpdateNotification
<1>6. CASE notes[i].task \in closed
  BY <1>1, <1>3, <1>5, <1>6
<1>7. CASE notes[i].task \notin closed
  BY <1>1, <1>4, <1>5, <1>7
<1> QED
  BY <1>6, <1>7

LEMMA AbandonWrites ==
  ASSUME OutboxTypeOK, NEW i \in Ids, NEW reason, AbandonNotification(i, reason)
  PROVE  /\ UNCHANGED <<closed, claiming, now>> /\ contents' \subseteq contents
         /\ \E note : /\ WellFormed(note) /\ notes' = [notes EXCEPT ![i] = note]
                      /\ note.state = "ABANDONED" /\ note.reason = reason
<1> DEFINE gone == Abandoned(notes[i], reason)
<1>1. /\ reason \in AbandonReason /\ UNCHANGED <<closed, claiming, now>>
      /\ notes[i].state \in {"PENDING", "SENDING", "UNCERTAIN"}
      /\ UpdateNotification(i, gone)
  BY AbandonTable DEF AbandonNotification, AbandonReason
<1>2. WellFormed(notes[i])
  BY RowsWellFormed
<1>3. WellFormed(gone) /\ gone.state = "ABANDONED" /\ gone.reason = reason
  BY <1>1, <1>2, RowAbandoned
<1> HIDE DEF gone
<1>4. notes' = [notes EXCEPT ![i] = gone] /\ contents' \subseteq contents
  BY <1>1 DEF UpdateNotification
<1> QED
  BY <1>1, <1>3, <1>4

\* Whatever the outcome, the row it is recorded in says what the server did.
LEMMA RecordOutcomeStep ==
  ASSUME DeliveryInv, RecordOutcome PROVE DeliveryInv'
<1> DEFINE i == smtp.id
<1>1. /\ smtp.at # "none" /\ smtp' = NoSession /\ up' = up /\ accepted' = accepted
      /\ OutboxTypeOK /\ now \in Nat
  BY DEF RecordOutcome, DeliveryInv, DeliveryType, OutboxTypeOK
<1>2. /\ i \in Ids /\ RowTrue(notes[i], accepted[i], closed)
      /\ smtp.at \in {"not_sent", "refused_for_now", "refused"} => accepted[i] = 0
      /\ smtp.at = "accepted" => accepted[i] = 1
  BY <1>1 DEF DeliveryInv, SessionIsTrue, RowsTrue
<1>3. \E note :
        /\ UNCHANGED <<closed, claiming, now>> /\ contents' \subseteq contents
        /\ WellFormed(note) /\ notes' = [notes EXCEPT ![i] = note]
        /\ RowTrue(note, accepted[i], closed) /\ note.state # "SENDING"
  <2>1. CASE smtp.at = "accepted" /\ MarkNotificationSent(i)
    BY <1>1, <1>2, <2>1, MarkSentWrites DEF MarkNotificationSent, RowTrue
  <2>2. CASE smtp.at = "refused" /\ AbandonNotification(i, "rejected")
    BY <1>1, <1>2, <2>2, AbandonWrites DEF RowTrue
  <2>3. CASE /\ smtp.at \in {"not_sent", "refused_for_now"}
             /\ \E d \in Delays : RequeueNotification(i, d)
    <3>1. PICK d \in Delays : PutBack(i, "SENDING", now + d)
      BY <2>3 DEF RequeueNotification
    <3>2. now + d \in Nat
      BY <1>1, OutboxAssumption
    <3> HIDE DEF i
    <3> QED
      BY <1>1, <1>2, <2>3, <3>1, <3>2, PutBackWrites DEF RowTrue
  <2>4. CASE smtp.at = "unknown" /\ MarkNotificationUncertain(i)
    BY <1>1, <1>2, <2>4, MarkUncertainWrites DEF RowTrue
  <2>5. CASE notes[i].state # "SENDING" /\ UNCHANGED outboxVars
    <3>1. notes' = [notes EXCEPT ![i] = notes[i]] /\ WellFormed(notes[i])
      BY <1>1, <1>2, <2>5, RowsWellFormed DEF outboxVars, Ids
    <3> QED
      BY <1>2, <2>5, <3>1 DEF outboxVars
  <2> QED
    BY <2>1, <2>2, <2>3, <2>4, <2>5 DEF RecordOutcome
<1> QED
  BY <1>1, <1>2, <1>3, RowStep

LEMMA ProceedStep ==
  ASSUME DeliveryInv, Proceed PROVE DeliveryInv'
<1>1. PICK at \in {"not_sent", "submitting"} : smtp' = [smtp EXCEPT !.at = at]
  BY DEF Proceed
<1>2. /\ UNCHANGED <<closed, notes, contents, claiming, now, up, accepted>>
      /\ smtp.at = "open"
  BY DEF Proceed, outboxVars
<1>3. /\ smtp \in [id : Nat, at : Phase] /\ now \in Nat /\ up \in BOOLEAN
      /\ accepted \in [1..MaxNotes -> Nat] /\ Ids' = Ids
  BY <1>2 DEF DeliveryInv, DeliveryType, OutboxTypeOK, Ids
<1>4. smtp' \in [id : Nat, at : Phase] /\ smtp'.id = smtp.id /\ smtp'.at = at
  BY <1>1, <1>3 DEF Phase
<1>5. SessionIsTrue'
  BY <1>2, <1>3, <1>4 DEF DeliveryInv, SessionIsTrue
<1>6. SendingHasSession' /\ ClaimsAlone'
  BY <1>2, <1>3, <1>4 DEF DeliveryInv, SendingHasSession, ClaimsAlone, NotesIn, NoSession
<1>7. \A i \in Ids : RowTrue(notes[i], accepted[i], closed)
  BY DEF DeliveryInv, RowsTrue
<1> QED
  BY <1>2, <1>3, <1>4, <1>5, <1>6, <1>7, SessionStep

\* The server accepts a notification that it has not accepted before, whether
\* its answer arrives or not.
LEMMA AcceptedOnce ==
  ASSUME DeliveryInv, smtp.at = "submitting",
         accepted' \in {accepted, [accepted EXCEPT ![smtp.id] = @ + 1]}
  PROVE  /\ accepted' \in [1..MaxNotes -> Nat]
         /\ \A i \in Ids : RowTrue(notes[i], accepted'[i], closed)
         /\ \A i \in (1..MaxNotes) \ Ids : accepted'[i] = accepted[i]
         /\ accepted'[smtp.id] = IF accepted' = accepted THEN 0 ELSE 1
<1>1. /\ smtp.id \in Ids /\ InHand(notes[smtp.id]) /\ accepted[smtp.id] = 0
      /\ accepted \in [1..MaxNotes -> Nat] /\ Ids \subseteq 1..MaxNotes
      /\ \A i \in Ids : RowTrue(notes[i], accepted[i], closed)
  BY RowsWellFormed DEF DeliveryInv, DeliveryType, SessionIsTrue, RowsTrue
<1>2. CASE accepted' = accepted
  BY <1>1, <1>2
<1>3. CASE accepted' = [accepted EXCEPT ![smtp.id] = @ + 1]
  <2>1. accepted' = [accepted EXCEPT ![smtp.id] = 1]
    BY <1>1, <1>3
  <2>2. accepted'[smtp.id] = 1 /\ accepted' \in [1..MaxNotes -> Nat]
        /\ \A i \in (1..MaxNotes) \ {smtp.id} : accepted'[i] = accepted[i]
    BY <1>1, <2>1
  <2>3. RowTrue(notes[smtp.id], 1, closed)
    BY <1>1 DEF RowTrue, InHand
  <2> QED
    BY <1>1, <2>2, <2>3
<1> QED
  BY <1>2, <1>3

LEMMA SubmitStep ==
  ASSUME DeliveryInv, Submit PROVE DeliveryInv'
<1>1. PICK at \in {"accepted", "refused_for_now", "refused", "unknown"},
           counts \in BOOLEAN :
        /\ at = "accepted" => counts
        /\ at \in {"refused_for_now", "refused"} => ~counts
        /\ smtp' = [smtp EXCEPT !.at = at]
        /\ accepted' = IF counts THEN [accepted EXCEPT ![smtp.id] = @ + 1]
                                 ELSE accepted
  BY DEF Submit
<1>2. UNCHANGED <<closed, notes, contents, claiming, now, up>> /\ smtp.at = "submitting"
  BY DEF Submit, outboxVars
<1>3. /\ smtp \in [id : Nat, at : Phase] /\ now \in Nat /\ up \in BOOLEAN /\ Ids' = Ids
      /\ up /\ smtp.id \in Ids /\ InHand(notes[smtp.id]) /\ accepted[smtp.id] = 0
      /\ accepted \in [1..MaxNotes -> Nat] /\ Ids \subseteq 1..MaxNotes
  BY <1>2, RowsWellFormed
     DEF DeliveryInv, DeliveryType, OutboxTypeOK, SessionIsTrue, Ids
<1>4. smtp' \in [id : Nat, at : Phase] /\ smtp'.id = smtp.id /\ smtp'.at = at
  BY <1>1, <1>3 DEF Phase
<1>5. accepted'[smtp.id] = IF counts THEN 1 ELSE 0
  BY <1>1, <1>3
<1>6. SessionIsTrue'
  BY <1>1, <1>2, <1>3, <1>4, <1>5 DEF SessionIsTrue
<1>7. SendingHasSession' /\ ClaimsAlone'
  <2>1. smtp'.at # "none"
    BY <1>1, <1>4
  <2>2. SendingHasSession'
    BY <1>2, <1>3, <1>4, <2>1 DEF DeliveryInv, SendingHasSession, NotesIn
  <2>3. ~claiming
    BY <1>2 DEF DeliveryInv, ClaimsAlone, NoSession
  <2> QED
    BY <1>2, <2>2, <2>3 DEF ClaimsAlone
<1>8. accepted' \in {accepted, [accepted EXCEPT ![smtp.id] = @ + 1]}
  BY <1>1
<1> QED
  BY <1>2, <1>3, <1>4, <1>6, <1>7, <1>8, AcceptedOnce, SessionStep

\* A crash loses the session, not what the server has accepted.
LEMMA CrashStep ==
  ASSUME DeliveryInv, Crash PROVE DeliveryInv'
<1>1. /\ up' = FALSE /\ smtp' = NoSession /\ claiming' = FALSE
      /\ UNCHANGED <<closed, notes, contents, now>>
      /\ \/ accepted' = accepted
         \/ /\ smtp.at = "submitting"
            /\ accepted' = [accepted EXCEPT ![smtp.id] = @ + 1]
  BY DEF Crash
<1>2. Ids' = Ids /\ smtp' \in [id : Nat, at : Phase] /\ smtp'.at = "none"
  BY <1>1 DEF Ids, NoSession, Phase
<1>3. /\ accepted' \in [1..MaxNotes -> Nat]
      /\ \A i \in Ids : RowTrue(notes[i], accepted'[i], closed)
      /\ \A i \in (1..MaxNotes) \ Ids : accepted'[i] = accepted[i]
  <2>1. CASE accepted' = accepted
    BY <2>1 DEF DeliveryInv, DeliveryType, RowsTrue
  <2>2. CASE /\ smtp.at = "submitting"
             /\ accepted' = [accepted EXCEPT ![smtp.id] = @ + 1]
    BY <2>2, AcceptedOnce
  <2> QED
    BY <1>1, <2>1, <2>2
<1>4. OutboxTypeOK'
  BY <1>1, <1>2 DEF DeliveryInv, DeliveryType, OutboxTypeOK
<1>5. RowsTrue' /\ NothingBefore'
  BY <1>1, <1>2, <1>3 DEF DeliveryInv, RowsTrue, NothingBefore
<1>6. SessionIsTrue' /\ SendingHasSession' /\ ClaimsAlone'
  BY <1>1, <1>2 DEF SessionIsTrue, SendingHasSession, ClaimsAlone
<1> QED
  BY <1>1, <1>2, <1>3, <1>4, <1>5, <1>6 DEF DeliveryInv, DeliveryType

-------------------------------------------------------------------------------
(* Everyone else.                                                          *)

\* A new notification has not been accepted by the server.
LEMMA NotifyStep ==
  ASSUME DeliveryInv, NEW t \in Tasks, Notify(t) PROVE DeliveryInv'
<1>1. PICK ttl \in TTLs, r \in BOOLEAN : CreateNotification(t, ttl, r)
  BY DEF Notify
<1> DEFINE n    == Len(notes) + 1
           note == [task |-> t, state |-> "PENDING", reason |-> NoReason,
                    attempts |-> 0, notBefore |-> now, created |-> now,
                    expires |-> now + ttl, sentAt |-> NoTime,
                    delivered |-> NoId, readable |-> r]
<1>2. /\ OutboxTypeOK /\ now \in Nat /\ ttl \in Nat \ {0} /\ MaxNotes \in Nat
      /\ UNCHANGED senderVars
  BY OutboxAssumption DEF DeliveryInv, DeliveryType, OutboxTypeOK, Notify
<1>3. /\ t \notin closed /\ Len(notes) < MaxNotes /\ UNCHANGED <<closed, claiming, now>>
      /\ notes' = Append(notes, note) /\ contents' = contents \cup {n}
  BY <1>1 DEF CreateNotification
<1>4. WellFormed(note) /\ note.state = "PENDING" /\ note.task = t
  <2>1. note \in Note
    BY <1>2 DEF Note, OutboxState
  <2>2. now + ttl > now
    BY <1>2
  <2>3. /\ note.state = "PENDING" /\ note.task = t /\ note.reason = NoReason
        /\ note.sentAt = NoTime /\ note.delivered = NoId
        /\ note.created = now /\ note.expires = now + ttl
    OBVIOUS
  <2> HIDE DEF note
  <2> QED
    BY <2>1, <2>2, <2>3 DEF WellFormed, Checked
<1> HIDE DEF note
<1>5. /\ notes \in Seq(Note) /\ Ids = 1..Len(notes) /\ Len(notes) \in Nat
      /\ \A i \in Ids : WellFormed(notes[i])
  BY <1>2, RowsWellFormed DEF OutboxTypeOK
<1>6. /\ notes' \in Seq(Note) /\ Len(notes') = n /\ Ids' = 1..n
      /\ notes'[n] = note /\ \A i \in Ids : notes'[i] = notes[i]
  BY <1>3, <1>4, <1>5 DEF WellFormed, Ids
<1>7. Ids' = Ids \cup {n} /\ n \notin Ids /\ n \in 1..MaxNotes
  BY <1>2, <1>3, <1>5, <1>6
<1>8. OutboxTypeOK'
  <2>1. \A i \in Ids' : WellFormed(notes'[i])
    BY <1>4, <1>5, <1>6, <1>7
  <2>2. Len(notes') <= MaxNotes
    BY <1>2, <1>3, <1>5, <1>6
  <2>3. contents' \subseteq Ids'
    BY <1>2, <1>3, <1>7 DEF OutboxTypeOK
  <2> QED
    BY <1>2, <1>3, <1>6, <2>1, <2>2, <2>3 DEF OutboxTypeOK, WellFormed
<1>9. DeliveryType'
  BY <1>2, <1>8 DEF DeliveryInv, DeliveryType, senderVars
<1>10. RowsTrue' /\ NothingBefore'
  <2>1. accepted[n] = 0
    BY <1>7 DEF DeliveryInv, NothingBefore
  <2>2. RowTrue(note, 0, closed)
    BY <1>3, <1>4 DEF RowTrue
  <2>3. \A i \in Ids' : RowTrue(notes'[i], accepted[i], closed)
    BY <1>6, <1>7, <2>1, <2>2 DEF DeliveryInv, RowsTrue
  <2> QED
    BY <1>2, <1>3, <1>7, <2>3 DEF DeliveryInv, RowsTrue, NothingBefore, senderVars
<1>11. SessionIsTrue' /\ SendingHasSession' /\ ClaimsAlone'
  BY <1>2, <1>3, <1>4, <1>6, <1>7
     DEF DeliveryInv, SessionIsTrue, SendingHasSession, ClaimsAlone, NotesIn, senderVars
<1> QED
  BY <1>9, <1>10, <1>11 DEF DeliveryInv

\* Close leaves nothing PENDING in the task.
LEMMA CloseStep ==
  ASSUME DeliveryInv, NEW t \in Tasks, Close(t) PROVE DeliveryInv'
<1> DEFINE why == [i \in {j \in NotesIn("PENDING") : notes[j].task = t} |-> "task_closed"]
<1>1. /\ AbandonPending(why) /\ closed' = closed \cup {t} /\ UNCHANGED <<claiming, now>>
      /\ UNCHANGED senderVars
  BY DEF Close, CloseTask
<1>2. /\ DOMAIN why \subseteq NotesIn("PENDING")
      /\ \A i \in DOMAIN why : why[i] \in {"expired", "task_closed"}
  OBVIOUS
<1>3. \A i \in NotesIn("PENDING") \ DOMAIN why : notes[i].task \notin closed'
  BY <1>1 DEF DeliveryInv, RowsTrue, RowTrue, NotesIn
<1>4. closed \subseteq Tasks /\ claiming \in BOOLEAN
  BY DEF DeliveryInv, DeliveryType, OutboxTypeOK
<1> HIDE DEF why
<1>5. closed' \subseteq Tasks /\ closed \subseteq closed' /\ now' = now
  BY <1>1, <1>4
<1>6. claiming' \in BOOLEAN /\ (claiming' => claiming \/ (up /\ smtp = NoSession))
  BY <1>1, <1>4
<1> QED
  BY ONLY DeliveryInv, <1>1, <1>2, <1>3, <1>5, <1>6, AbandonPendingStep

\* The operator reports what the server did.
LEMMA SettleStep ==
  ASSUME DeliveryInv, NEW i \in Ids, Settle(i) PROVE DeliveryInv'
<1>1. /\ OutboxTypeOK /\ now \in Nat /\ UNCHANGED senderVars
      /\ RowTrue(notes[i], accepted[i], closed)
  BY DEF DeliveryInv, DeliveryType, OutboxTypeOK, RowsTrue, Settle
<1>2. \E note :
        /\ notes[i].state = "UNCERTAIN"
        /\ UNCHANGED <<closed, claiming, now>> /\ contents' \subseteq contents
        /\ WellFormed(note) /\ notes' = [notes EXCEPT ![i] = note]
        /\ RowTrue(note, accepted[i], closed) /\ note.state # "SENDING"
  <2>1. CASE accepted[i] > 0 /\ MarkSent(i, "UNCERTAIN")
    <3>1. accepted[i] = 1
      BY <1>1, <2>1 DEF RowTrue
    <3> QED
      BY <1>1, <2>1, <3>1, MarkSentWrites DEF RowTrue
  <2>2. CASE ~(accepted[i] > 0) /\ PutBack(i, "UNCERTAIN", now)
    <3>1. accepted[i] = 0
      BY <1>1, <2>2 DEF RowTrue
    <3> QED
      BY <1>1, <2>2, <3>1, PutBackWrites DEF RowTrue
  <2> QED
    BY <2>1, <2>2 DEF Settle, ResolveUncertainNotification
<1>3. smtp.at # "none" => smtp.id # i
  BY <1>2 DEF DeliveryInv, SessionIsTrue, InHand
<1> QED
  BY <1>1, <1>2, <1>3, RowStep DEF senderVars

LEMMA GiveUpStep ==
  ASSUME DeliveryInv, NEW i \in Ids, GiveUp(i) PROVE DeliveryInv'
<1>1. /\ OutboxTypeOK /\ UNCHANGED <<up, smtp, accepted>>
      /\ RowTrue(notes[i], accepted[i], closed) /\ AbandonNotification(i, "manual")
  BY DEF DeliveryInv, DeliveryType, RowsTrue, GiveUp
<1>2. \E note :
        /\ UNCHANGED <<closed, claiming, now>> /\ contents' \subseteq contents
        /\ WellFormed(note) /\ notes' = [notes EXCEPT ![i] = note]
        /\ RowTrue(note, accepted[i], closed) /\ note.state # "SENDING" /\ InHand(note)
  BY <1>1, AbandonWrites DEF RowTrue, InHand
<1> QED
  BY <1>1, <1>2, RowStep

LEMMA SeeDeliveredStep ==
  ASSUME DeliveryInv, NEW i \in Ids, SeeDelivered(i) PROVE DeliveryInv'
<1>1. PICK id \in MessageIds : RecordDeliveredMessageID(i, id)
  BY DEF SeeDelivered
<1> DEFINE note == [notes[i] EXCEPT !.delivered = id]
<1>2. /\ notes[i].state = "SENT" /\ notes' = [notes EXCEPT ![i] = note]
      /\ UNCHANGED <<closed, contents, claiming, now>> /\ UNCHANGED senderVars
  BY <1>1 DEF RecordDeliveredMessageID, SeeDelivered
<1>3. /\ OutboxTypeOK /\ WellFormed(notes[i])
      /\ RowTrue(notes[i], accepted[i], closed)
  BY RowsWellFormed DEF DeliveryInv, DeliveryType, RowsTrue
<1>4. /\ note \in Note /\ note.state = "SENT" /\ note.reason = notes[i].reason
      /\ note.sentAt = notes[i].sentAt
      /\ note.created = notes[i].created /\ note.expires = notes[i].expires
  BY <1>2, <1>3 DEF WellFormed, Note
<1>5. WellFormed(note)
  BY <1>2, <1>3, <1>4 DEF WellFormed, Checked
<1>6. RowTrue(note, accepted[i], closed)
  BY <1>2, <1>3, <1>4 DEF RowTrue
<1>7. smtp.at # "none" => smtp.id # i
  BY <1>2 DEF DeliveryInv, SessionIsTrue, InHand
<1> HIDE DEF note
<1> QED
  BY <1>2, <1>4, <1>5, <1>6, <1>7, RowStep DEF senderVars

LEMMA TimePassesStep ==
  ASSUME DeliveryInv, TimePasses PROVE DeliveryInv'
<1>1. /\ now' = now + 1 /\ UNCHANGED <<closed, notes, contents, claiming>>
      /\ UNCHANGED senderVars /\ Ids' = Ids
  BY DEF TimePasses, Tick, Ids
<1>2. now' \in Nat
  BY <1>1 DEF DeliveryInv, DeliveryType, OutboxTypeOK
<1> QED
  BY <1>1, <1>2 DEF DeliveryInv, DeliveryType, OutboxTypeOK, RowsTrue, NothingBefore,
     SessionIsTrue, SendingHasSession, ClaimsAlone, NotesIn, senderVars

LEMMA DeliveryInvStep == DeliveryInv /\ [DeliveryNext]_deliveryVars => DeliveryInv'
<1> SUFFICES ASSUME DeliveryInv, [DeliveryNext]_deliveryVars PROVE DeliveryInv'
  OBVIOUS
<1>1. CASE UNCHANGED deliveryVars
  <2>1. /\ UNCHANGED <<closed, notes, contents, claiming, now, up, smtp, accepted>>
        /\ Ids' = Ids
    BY <1>1 DEF deliveryVars, outboxVars, senderVars, Ids
  <2> QED
    BY <2>1 DEF DeliveryInv, DeliveryType, OutboxTypeOK, RowsTrue, NothingBefore,
       SessionIsTrue, SendingHasSession, ClaimsAlone, NotesIn
<1>2. CASE SenderNext
  BY <1>2, StartSenderStep, BeginNextStep, EndNextStep, ProceedStep, SubmitStep,
     RecordOutcomeStep, CrashStep DEF SenderNext
<1>3. CASE \E t \in Tasks : Notify(t) \/ Close(t)
  BY <1>3, NotifyStep, CloseStep
<1>4. CASE \E i \in Ids : Settle(i) \/ GiveUp(i) \/ SeeDelivered(i)
  BY <1>4, SettleStep, GiveUpStep, SeeDeliveredStep
<1>5. CASE TimePasses
  BY <1>5, TimePassesStep
<1> QED
  BY <1>1, <1>2, <1>3, <1>4, <1>5 DEF DeliveryNext

\* Nothing but the second transaction of a claim starts a send.
LEMMA OnlyEndNextClaims ==
  ASSUME DeliveryInv, DeliveryInv', DeliveryNext,
         NEW i \in Ids, notes[i].state = "PENDING", notes'[i].state = "SENDING"
  PROVE  EndNext
<1> SUFFICES ASSUME ~EndNext PROVE FALSE
  OBVIOUS
<1>1. ~InHand(notes[i]) /\ notes \in Seq(Note) /\ OutboxTypeOK
  BY DEF InHand, DeliveryInv, DeliveryType, OutboxTypeOK
<1>2. notes'[i] # notes[i]
  OBVIOUS
<1>3. CASE SenderNext
  <2>1. ~Crash /\ ~Proceed /\ ~Submit
    BY <1>2 DEF Crash, Proceed, Submit, outboxVars
  <2>2. up' /\ smtp' \in {smtp, NoSession}
    BY <1>3, <2>1 DEF SenderNext, StartSender, BeginNext, RecordOutcome, senderVars,
                      DeliveryInv, SessionIsTrue, NoSession
  <2>3. i \in Ids'
    <3>1. CASE StartSender
      BY <3>1 DEF StartSender, RecoverSendingNotifications, Ids
    <3>2. CASE BeginNext
      BY <3>2 DEF BeginNext, BeginClaim, AbandonPending, Ids
    <3>3. CASE RecordOutcome
      BY <3>3 DEF RecordOutcome, MarkNotificationSent, AbandonNotification,
           RequeueNotification, MarkNotificationUncertain, MarkSent, PutBack,
           UpdateNotification, outboxVars, Ids
    <3> QED
      BY <1>3, <2>1, <3>1, <3>2, <3>3 DEF SenderNext
  <2> QED
    BY <1>1, <2>2, <2>3
       DEF DeliveryInv, SendingHasSession, SessionIsTrue, NotesIn, NoSession
<1>4. CASE \E t \in Tasks : Notify(t)
  <2>1. PICK note : notes' = Append(notes, note)
    BY <1>4 DEF Notify, CreateNotification
  <2> QED
    BY <1>1, <1>2, <2>1 DEF Ids
<1>5. CASE \E t \in Tasks : Close(t)
  <2>1. PICK why : AbandonPending(why)
    BY <1>5 DEF Close, CloseTask
  <2>2. notes'[i] = Abandoned(notes[i], why[i])
    BY <1>2, <2>1 DEF AbandonPending
  <2>3. notes[i] \in Note
    BY <1>1, RowsWellFormed DEF WellFormed
  <2>4. Abandoned(notes[i], why[i]).state = "ABANDONED"
    BY <2>3, AbandonAllowed DEF Abandoned, Note
  <2> QED
    BY <2>2, <2>4
<1>6. CASE \E k \in Ids : Settle(k) \/ SeeDelivered(k)
  <2>1. PICK k \in Ids : /\ notes[k].state # "PENDING"
                        /\ \E note : notes' = [notes EXCEPT ![k] = note]
    BY <1>6 DEF Settle, SeeDelivered, ResolveUncertainNotification, MarkSent, PutBack,
                UpdateNotification, RecordDeliveredMessageID
  <2> QED
    BY <1>2, <2>1 DEF Ids
<1>7. CASE \E k \in Ids : GiveUp(k)
  <2>1. PICK k \in Ids : \E note : /\ note.state = "ABANDONED"
                                   /\ notes' = [notes EXCEPT ![k] = note]
    BY <1>1, <1>7, AbandonWrites DEF GiveUp
  <2> QED
    BY <1>2, <2>1 DEF Ids
<1>8. CASE TimePasses
  BY <1>2, <1>8 DEF TimePasses, Tick
<1> QED
  BY <1>3, <1>4, <1>5, <1>6, <1>7, <1>8 DEF DeliveryNext

-------------------------------------------------------------------------------
(* Theorems.                                                               *)

\* Sender, server, operator, watcher and clock, in any order, with any crashes,
\* keep the invariant.
THEOREM DeliveryInvariant == DeliverySpec => []DeliveryInv
<1>1. DeliveryInit => DeliveryInv
  BY InitDeliveryInv
<1>2. DeliveryInv /\ [DeliveryNext]_deliveryVars => DeliveryInv'
  BY DeliveryInvStep
<1> QED
  BY <1>1, <1>2, PTL DEF DeliverySpec

\* Every row the operations of notifications.go can produce, in any order and
\* with any crashes, satisfies the CHECK constraints of 0002_mail.sql: the times
\* of creation and expiry, the reason, the time of sending and the delivered
\* Message-ID agree with each other and with the state.
THEOREM OutboxTypeCorrect == DeliverySpec => []OutboxTypeOK
<1>1. DeliveryInv => OutboxTypeOK
  BY DEF DeliveryInv, DeliveryType
<1> QED
  BY <1>1, DeliveryInvariant, PTL

\* No notification of a closed task waits for the sender.
THEOREM ClosedTasksAreSilent == DeliverySpec => []ClosedTasksSendNothing
<1>1. DeliveryInv => ClosedTasksSendNothing
  BY DEF DeliveryInv, RowsTrue, RowTrue, ClosedTasksSendNothing, NotesIn
<1> QED
  BY <1>1, DeliveryInvariant, PTL

\* The server accepts a notification at most once, however often it is
\* requeued, recovered or resolved.
THEOREM DeliversAtMostOnce == DeliverySpec => []DeliveredAtMostOnce
<1>1. ASSUME DeliveryInv PROVE DeliveredAtMostOnce
  <2> SUFFICES ASSUME NEW i \in 1..MaxNotes PROVE accepted[i] <= 1
    BY DEF DeliveredAtMostOnce
  <2>1. CASE i \in Ids
    BY <1>1, <2>1 DEF DeliveryInv, RowsTrue, RowTrue
  <2>2. CASE i \notin Ids
    BY <1>1, <2>2 DEF DeliveryInv, NothingBefore
  <2> QED
    BY <2>1, <2>2
<1> QED
  BY <1>1, DeliveryInvariant, PTL

\* SENT and ABANDONED say what the server did.
THEOREM OutcomesAreTrue == DeliverySpec => []OutcomeIsTrue
<1>1. DeliveryInv => OutcomeIsTrue
  BY DEF DeliveryInv, RowsTrue, RowTrue, OutcomeIsTrue
<1> QED
  BY <1>1, DeliveryInvariant, PTL

\* The second transaction of a claim takes no notification whose token is about
\* to expire, whatever happened since the first.
THEOREM NoExpiredClaims == DeliverySpec => ClaimsInTime
<1> DEFINE InTime == \A i \in Ids :
              notes[i].state = "PENDING" /\ notes'[i].state = "SENDING"
                => notes[i].expires > now + Margin
<1>1. ASSUME DeliveryInv, [DeliveryNext]_deliveryVars PROVE InTime
  <2> SUFFICES ASSUME NEW i \in Ids, notes[i].state = "PENDING",
                      notes'[i].state = "SENDING"
               PROVE  notes[i].expires > now + Margin
    OBVIOUS
  <2>1. CASE EndNext
    <3>1. PICK j \in Due : \E note : UpdateNotification(j, note)
      BY <2>1 DEF EndNext, EndClaim
    <3>2. notes[i] \in Note /\ now + Margin \in Nat /\ notes = [k \in Ids |-> notes[k]]
      BY <1>1, RowsWellFormed, OutboxAssumption
         DEF DeliveryInv, DeliveryType, OutboxTypeOK, WellFormed
    <3>3. i = j
      BY <3>1, <3>2 DEF UpdateNotification
    <3>4. notes[i].expires \in Nat /\ ~(notes[i].expires <= now + Margin)
      BY <3>2, <3>3 DEF Due, Expiring, Note
    <3> QED
      BY <3>2, <3>4
  <2>2. CASE UNCHANGED deliveryVars
    BY <2>2 DEF deliveryVars, outboxVars
  <2> QED
    BY <1>1, <2>1, <2>2, DeliveryInvStep, OnlyEndNextClaims
<1> QED
  BY <1>1, DeliveryInvariant, PTL DEF DeliverySpec, ClaimsInTime, deliveryVars
===============================================================================
