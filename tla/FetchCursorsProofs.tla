--------------------------- MODULE FetchCursorsProofs --------------------------
(***************************************************************************)
(* Proofs about FetchCursors for every number of processes, mails, faults   *)
(* and UIDVALIDITY values, and every size of a batch.                       *)
(***************************************************************************)
EXTENDS FetchCursors, FiniteSetTheorems, SequenceTheorems, TLAPS

Cursors == [validity : Nat, last : Nat]
FoundMails == [uid : Nat, mail : Nat]
Batches == [got : Seq(FoundMails), next : Cursors, more : BOOLEAN]
Rejections == [mail : Nat, reason : Reasons]

IsBox(b) ==
  /\ DOMAIN b.mail \subseteq Nat /\ IsFiniteSet(DOMAIN b.mail)
  /\ b = [validity |-> b.validity, next |-> b.next, mail |-> b.mail]
  /\ b.validity \in Nat /\ b.validity > 0 /\ b.next \in Nat /\ b.next > 0
  /\ b.mail \in [DOMAIN b.mail -> Nat]
  /\ \A u \in DOMAIN b.mail : u > 0 /\ u < b.next

CursorsTyped ==
  /\ IsBox(box)
  /\ arrived \in Nat /\ faults \in Nat
  /\ cursor \in Cursors
  /\ replies \in SUBSET Nat
  /\ DOMAIN rejections \subseteq Nat \X Nat
  /\ rejections \in [DOMAIN rejections -> Rejections]
  /\ pc \in [Procs -> {"rest", "read", "scan", "handle"}]
  /\ cur \in [Procs -> Cursors]
  /\ batch \in [Procs -> Batches]

Handled == {m \in Nat : IsHandled(m)}

\* Nothing the folder b holds at or below c is left unhandled.  This holds of
\* the cursor in the database and of every copy a process has made of it,
\* however old: what c has passed under the present UIDVALIDITY stays handled,
\* and a mail that arrives gets a greater UID.
Passed(c, b, H) ==
  /\ c.validity <= b.validity
  /\ c.validity = b.validity =>
       /\ c.last < b.next
       /\ \A u \in DOMAIN b.mail : u <= c.last => b.mail[u] \in H

\* A mail that was found at a UID is the mail at that UID, or the mail is gone
\* or the UID belongs to another UIDVALIDITY.
IsAt(m, validity, uid, b) ==
  /\ validity <= b.validity
  /\ validity = b.validity =>
       /\ uid < b.next
       /\ uid \in DOMAIN b.mail => b.mail[uid] = m

\* Up to a batch's next cursor everything is handled or still in the batch.
Covered(t, b, H) ==
  /\ t.next.validity <= b.validity
  /\ \A i \in 1..Len(t.got) : IsAt(t.got[i].mail, t.next.validity, t.got[i].uid, b)
  /\ t.next.validity = b.validity =>
       /\ t.next.last < b.next
       /\ \A u \in DOMAIN b.mail : u <= t.next.last =>
            b.mail[u] \in H \/ \E i \in 1..Len(t.got) : t.got[i].uid = u

CursorsInv ==
  /\ CursorsTyped
  /\ \A q \in DOMAIN rejections : IsAt(rejections[q].mail, q[1], q[2], box)
  /\ Passed(cursor, box, Handled)
  /\ \A p \in Procs : Passed(cur[p], box, Handled) /\ Covered(batch[p], box, Handled)

-------------------------------------------------------------------------------
(* What the server does never takes back what a cursor has passed.         *)

\* From b to b2: another UIDVALIDITY, or the same with new mails above the old
\* UIDNEXT and old ones where they were.
Later(b, b2) ==
  \/ b2.validity > b.validity
  \/ /\ b2.validity = b.validity /\ b2.next >= b.next
     /\ \A u \in DOMAIN b2.mail :
          u >= b.next \/ (u \in DOMAIN b.mail /\ b2.mail[u] = b.mail[u])

LEMMA PassedLater ==
  ASSUME NEW b, NEW b2, IsBox(b), IsBox(b2), Later(b, b2),
         NEW H, NEW H2, H \subseteq H2, NEW c \in Cursors, Passed(c, b, H)
  PROVE  Passed(c, b2, H2)
  BY DEF IsBox, Later, Cursors, Passed

LEMMA IsAtLater ==
  ASSUME NEW b, NEW b2, IsBox(b), IsBox(b2), Later(b, b2),
         NEW m, NEW validity \in Nat, NEW uid \in Nat, IsAt(m, validity, uid, b)
  PROVE  IsAt(m, validity, uid, b2)
  BY DEF IsBox, Later, IsAt

LEMMA CoveredLater ==
  ASSUME NEW b, NEW b2, IsBox(b), IsBox(b2), Later(b, b2),
         NEW H, NEW H2, H \subseteq H2, NEW t \in Batches, Covered(t, b, H)
  PROVE  Covered(t, b2, H2)
<1>1. t.next.validity \in Nat /\ t.next.last \in Nat
  BY DEF Batches, Cursors
<1>2. ASSUME NEW i \in 1..Len(t.got)
      PROVE  IsAt(t.got[i].mail, t.next.validity, t.got[i].uid, b2)
  <2>1. t.got[i] \in FoundMails
    BY ElementOfSeq DEF Batches
  <2>2. QED
    BY <1>1, <2>1, IsAtLater DEF Covered, FoundMails
<1>3. CASE b2.validity > b.validity
  BY <1>1, <1>2, <1>3 DEF IsBox, Covered
<1>4. CASE b2.validity = b.validity /\ t.next.validity = b.validity
  BY <1>1, <1>2, <1>4 DEF IsBox, Later, Covered
<1>5. CASE b2.validity = b.validity /\ t.next.validity # b.validity
  BY <1>1, <1>2, <1>5 DEF IsBox, Covered
<1>6. QED
  BY <1>3, <1>4, <1>5 DEF Later

LEMMA SameBoxLater == \A b : IsBox(b) => Later(b, b)
  BY DEF IsBox, Later

\* The listing of a finite set of UIDs.
LEMMA Listing ==
  ASSUME NEW S \in SUBSET Nat, IsFiniteSet(S), NEW uids \in InOrder(S)
  PROVE  /\ Len(uids) \in Nat /\ DOMAIN uids = 1..Len(uids)
         /\ \A i \in 1..Len(uids) : uids[i] \in S
         /\ \A u \in S : \E i \in 1..Len(uids) : uids[i] = u
         /\ \A i, j \in 1..Len(uids) : i < j => uids[i] < uids[j]
<1>1. Cardinality(S) \in Nat
  BY FS_CardinalityType
<1>2. uids \in [1..Cardinality(S) -> S]
  BY DEF InOrder
<1>3. uids \in Seq(S) /\ Len(uids) = Cardinality(S)
  BY <1>1, <1>2, LenProperties, SeqDef
<1>4. QED
  BY <1>1, <1>2, <1>3 DEF InOrder
-------------------------------------------------------------------------------
(* The server's steps.                                                     *)

LEMMA ArriveIsLater ==
  ASSUME IsBox(box), arrived \in Nat, Arrive
  PROVE  IsBox(box') /\ Later(box, box')
<1>1. /\ box'.validity = box.validity /\ box'.next = box.next + 1
      /\ DOMAIN box'.mail = DOMAIN box.mail \cup {box.next}
      /\ \A u \in DOMAIN box'.mail :
           box'.mail[u] = IF u = box.next THEN arrived + 1 ELSE box.mail[u]
      /\ box' = [validity |-> box'.validity, next |-> box'.next, mail |-> box'.mail]
  BY DEF IsBox, Arrive
<1>2. IsFiniteSet(DOMAIN box'.mail)
  BY <1>1, FS_AddElement DEF IsBox
<1>3. box'.mail \in [DOMAIN box'.mail -> Nat]
  BY <1>1 DEF IsBox, Arrive
<1>4. IsBox(box')
  BY <1>1, <1>2, <1>3 DEF IsBox
<1>5. Later(box, box')
  BY <1>1 DEF IsBox, Later
<1>6. QED
  BY <1>4, <1>5

LEMMA ExpungeIsLater ==
  ASSUME IsBox(box), Expunge
  PROVE  IsBox(box') /\ Later(box, box')
<1>1. PICK u \in DOMAIN box.mail :
        box' = [box EXCEPT !.mail = [v \in DOMAIN box.mail \ {u} |-> box.mail[v]]]
  BY DEF Expunge
<1>2. /\ box'.validity = box.validity /\ box'.next = box.next
      /\ DOMAIN box'.mail = DOMAIN box.mail \ {u}
      /\ \A v \in DOMAIN box'.mail : box'.mail[v] = box.mail[v]
      /\ box'.mail \in [DOMAIN box'.mail -> Nat]
      /\ box' = [validity |-> box'.validity, next |-> box'.next, mail |-> box'.mail]
  BY <1>1 DEF IsBox
<1>3. IsFiniteSet(DOMAIN box'.mail)
  BY <1>2, FS_RemoveElement DEF IsBox
<1>4. QED
  BY <1>2, <1>3 DEF IsBox, Later

LEMMA RebuildIsLater ==
  ASSUME IsBox(box), Rebuild
  PROVE  IsBox(box') /\ Later(box, box')
<1>1. PICK uids \in InOrder(DOMAIN box.mail) :
        box' = [validity |-> box.validity + 1, next |-> Len(uids) + 1,
                mail |-> [i \in DOMAIN uids |-> box.mail[uids[i]]]]
  BY DEF Rebuild
<1>2. /\ Len(uids) \in Nat /\ DOMAIN uids = 1..Len(uids)
      /\ \A i \in 1..Len(uids) : uids[i] \in DOMAIN box.mail
  BY Listing DEF IsBox
<1>3. IsFiniteSet(1..Len(uids))
  BY <1>2, FS_Interval
<1>4. QED
  BY <1>1, <1>2, <1>3 DEF IsBox, Later

\* A step that leaves the processes and the database alone.
LEMMA ServerKeeps ==
  ASSUME CursorsInv, Arrive \/ Expunge \/ Rebuild
  PROVE  CursorsInv'
<1>1. CursorsTyped /\ IsBox(box) /\ arrived \in Nat
  BY DEF CursorsInv, CursorsTyped
<1>2. IsBox(box') /\ Later(box, box')
  BY <1>1, ArriveIsLater, ExpungeIsLater, RebuildIsLater
<1>3. /\ cursor' = cursor /\ replies' = replies /\ rejections' = rejections
      /\ pc' = pc /\ cur' = cur /\ batch' = batch
      /\ arrived' \in Nat /\ faults' \in Nat
  BY <1>1 DEF CursorsTyped, Arrive, Expunge, Rebuild, database, process, Fault
<1>4. CursorsTyped'
  BY <1>1, <1>2, <1>3 DEF CursorsTyped
<1>5. Handled' = Handled
  BY <1>3 DEF Handled, IsHandled
<1>6. \A q \in DOMAIN rejections : IsAt(rejections[q].mail, q[1], q[2], box')
  <2>1. \A q \in DOMAIN rejections : q[1] \in Nat /\ q[2] \in Nat
    BY <1>1 DEF CursorsTyped
  <2>2. QED
    BY <1>1, <1>2, <2>1, IsAtLater DEF CursorsInv
<1>7. Passed(cursor, box', Handled)
  BY <1>1, <1>2, PassedLater DEF CursorsInv, CursorsTyped
<1>8. \A p \in Procs : Passed(cur[p], box', Handled) /\ Covered(batch[p], box', Handled)
  <2>1. \A p \in Procs : cur[p] \in Cursors /\ batch[p] \in Batches
    BY <1>1 DEF CursorsTyped
  <2>2. QED
    BY <1>1, <1>2, <2>1, PassedLater, CoveredLater DEF CursorsInv
<1>9. QED
  BY <1>3, <1>4, <1>5, <1>6, <1>7, <1>8 DEF CursorsInv

-------------------------------------------------------------------------------
(* The processes' steps.                                                   *)

LEMMA NothingFound ==
  ASSUME IsBox(box), NEW H
  PROVE  /\ NoCursor \in Cursors /\ EmptyBatch \in Batches
         /\ Passed(NoCursor, box, H) /\ Covered(EmptyBatch, box, H)
  BY DEF IsBox, NoCursor, Cursors, EmptyBatch, Batches, Passed, Covered

\* A step of process p that leaves the mailbox and what is recorded alone, and
\* that gives p a cursor and a batch which are true.
LEMMA ProcessKeeps ==
  ASSUME CursorsInv, NEW p \in Procs,
         UNCHANGED <<box, arrived, replies, rejections>>, faults' \in Nat,
         cursor' \in Cursors, Passed(cursor', box, Handled),
         pc' \in [Procs -> {"rest", "read", "scan", "handle"}],
         NEW c \in Cursors, cur' = [cur EXCEPT ![p] = c], Passed(c, box, Handled),
         NEW t \in Batches, batch' = [batch EXCEPT ![p] = t], Covered(t, box, Handled)
  PROVE  CursorsInv'
<1>1. Handled' = Handled
  BY DEF Handled, IsHandled
<1>2. CursorsTyped'
  BY DEF CursorsInv, CursorsTyped
<1>3. \A r \in Procs : /\ cur'[r] = IF r = p THEN c ELSE cur[r]
                      /\ batch'[r] = IF r = p THEN t ELSE batch[r]
  BY DEF CursorsInv, CursorsTyped
<1>4. \A r \in Procs : Passed(cur'[r], box, Handled) /\ Covered(batch'[r], box, Handled)
  BY <1>3 DEF CursorsInv
<1>5. QED
  BY <1>1, <1>2, <1>4 DEF CursorsInv

LEMMA DrainKeeps ==
  ASSUME CursorsInv, NEW p \in Procs,
         StartDrain(p) \/ FetchCursor(p) \/ AdvanceCursor(p) \/ Regress(p) \/ Crash(p)
  PROVE  CursorsInv'
<1>1. /\ IsBox(box) /\ cursor \in Cursors /\ faults \in Nat
      /\ pc \in [Procs -> {"rest", "read", "scan", "handle"}]
      /\ cur \in [Procs -> Cursors] /\ batch \in [Procs -> Batches]
      /\ cur[p] \in Cursors /\ batch[p] \in Batches
      /\ Passed(cursor, box, Handled)
      /\ Passed(cur[p], box, Handled) /\ Covered(batch[p], box, Handled)
  BY DEF CursorsInv, CursorsTyped
<1>2. pc' \in [Procs -> {"rest", "read", "scan", "handle"}]
  BY <1>1 DEF StartDrain, FetchCursor, AdvanceCursor, Regress, Crash, Rest, GoTo, Retried
<1>3. UNCHANGED <<box, arrived, replies, rejections>> /\ faults' \in Nat
  BY <1>1 DEF StartDrain, FetchCursor, AdvanceCursor, Regress, Crash, server,
              database, Fault
<1>4. cursor' \in Cursors /\ Passed(cursor', box, Handled)
  <2>1. CASE AdvanceCursor(p)
    <3>1. batch[p].next \in Cursors /\ cursor' = batch[p].next /\ batch[p].got = <<>>
      BY <1>1, <2>1 DEF AdvanceCursor, Batches
    <3>2. Len(batch[p].got) = 0
      BY <3>1
    <3>3. QED
      BY <1>1, <3>1, <3>2 DEF Covered, Passed
  <2>2. CASE ~AdvanceCursor(p)
    BY <1>1, <2>2 DEF StartDrain, FetchCursor, Regress, Crash, database
  <2>3. QED
    BY <2>1, <2>2
<1>5. \E c \in Cursors : cur' = [cur EXCEPT ![p] = c] /\ Passed(c, box, Handled)
  BY <1>1, NothingFound
     DEF StartDrain, FetchCursor, AdvanceCursor, Regress, Crash, Rest, GoTo
<1>6. \E t \in Batches : batch' = [batch EXCEPT ![p] = t] /\ Covered(t, box, Handled)
  BY <1>1, NothingFound
     DEF StartDrain, FetchCursor, AdvanceCursor, Regress, Crash, Rest, GoTo
<1>7. QED
  BY <1>2, <1>3, <1>4, <1>5, <1>6, ProcessKeeps

\* What Scan found is the mails above the old cursor and up to the new one.
LEMMA ScanKeeps ==
  ASSUME CursorsInv, NEW p \in Procs, Scan(p)
  PROVE  CursorsInv'
<1>1. /\ IsBox(box) /\ cursor \in Cursors /\ faults \in Nat
      /\ pc \in [Procs -> {"rest", "read", "scan", "handle"}]
      /\ cur \in [Procs -> Cursors] /\ batch \in [Procs -> Batches]
      /\ cur[p] \in Cursors /\ Passed(cursor, box, Handled) /\ Passed(cur[p], box, Handled)
  BY DEF CursorsInv, CursorsTyped
<1>. DEFINE from == StartOf(cur[p], box.validity)
            S == {u \in DOMAIN box.mail : u > from}
<1>2. /\ from \in Nat
      /\ from < box.next
      /\ \A u \in DOMAIN box.mail : u <= from => box.mail[u] \in Handled
  BY <1>1 DEF StartOf, Passed, Cursors, IsBox
<1>3. PICK uids \in InOrder(S) :
        LET n == IF Len(uids) > MaxBatch THEN MaxBatch ELSE Len(uids)
            next == [validity |-> box.validity,
                     last |-> IF n = 0 THEN from ELSE uids[n]]
        IN  IF n = 0 /\ next = cur[p] THEN Rest(p)
            ELSE /\ batch' = [batch EXCEPT ![p] =
                      [got |-> [i \in 1..n |->
                                  [uid |-> uids[i], mail |-> box.mail[uids[i]]]],
                       next |-> next, more |-> Len(uids) > MaxBatch]]
                 /\ pc' = [pc EXCEPT ![p] = "handle"]
                 /\ UNCHANGED cur
  BY Zenon DEF Scan
<1>4. S \in SUBSET Nat /\ IsFiniteSet(S)
  BY <1>1, FS_Subset DEF IsBox
<1>5. /\ Len(uids) \in Nat
      /\ \A i \in 1..Len(uids) : uids[i] \in S
      /\ \A u \in S : \E i \in 1..Len(uids) : uids[i] = u
      /\ \A i, j \in 1..Len(uids) : i < j => uids[i] < uids[j]
  BY <1>4, Listing
<1>. DEFINE n == IF Len(uids) > MaxBatch THEN MaxBatch ELSE Len(uids)
            next == [validity |-> box.validity, last |-> IF n = 0 THEN from ELSE uids[n]]
            got == [i \in 1..n |-> [uid |-> uids[i], mail |-> box.mail[uids[i]]]]
            t == [got |-> got, next |-> next, more |-> Len(uids) > MaxBatch]
<1>6. n \in Nat /\ n <= Len(uids) /\ (n = 0 => Len(uids) = 0)
  BY <1>5, CursorsAssumption
<1>7. got \in Seq(FoundMails) /\ Len(got) = n
  <2>1. \A i \in 1..n : [uid |-> uids[i], mail |-> box.mail[uids[i]]] \in FoundMails
    BY <1>1, <1>5, <1>6 DEF FoundMails, IsBox
  <2>2. got \in [1..n -> FoundMails]
    BY <2>1
  <2>3. QED
    BY <1>6, <2>2, SeqDef, LenProperties
<1>8. t \in Batches /\ Covered(t, box, Handled)
  <2>1. next.last \in Nat /\ next.last < box.next
    BY <1>1, <1>2, <1>5, <1>6 DEF IsBox
  <2>2. t \in Batches
    BY <1>1, <1>2, <1>5, <1>6, <1>7 DEF Batches, Cursors, IsBox
  <2>3. \A i \in 1..n : IsAt(got[i].mail, next.validity, got[i].uid, box)
    BY <1>1, <1>5, <1>6 DEF IsAt, IsBox
  <2>4. ASSUME NEW u \in DOMAIN box.mail, u <= next.last
        PROVE  box.mail[u] \in Handled \/ \E i \in 1..n : got[i].uid = u
    <3>1. CASE u <= from
      BY <1>2, <3>1
    <3>2. CASE u > from
      <4>1. PICK i \in 1..Len(uids) : uids[i] = u
        BY <1>5, <3>2
      <4>2. n # 0 /\ u <= uids[n]
        BY <1>6, <2>4, <4>1
      <4>3. i <= n
        BY <1>1, <1>4, <1>5, <1>6, <4>1, <4>2
      <4>4. QED
        BY <4>1, <4>3
    <3>3. QED
      BY <1>1, <1>2, <3>1, <3>2 DEF IsBox
  <2>5. t.got = got /\ t.next = next /\ next.validity = box.validity
    OBVIOUS
  <2>. HIDE DEF n, next, got, t
  <2>6. QED
    BY <1>1, <1>7, <2>1, <2>2, <2>3, <2>4, <2>5 DEF Covered, IsBox
<1>9. UNCHANGED <<box, arrived, replies, rejections, cursor, faults>>
  BY DEF Scan, server, database
<1>10. CASE Rest(p)
  BY <1>1, <1>9, <1>10, NothingFound, ProcessKeeps DEF Rest
<1>11. CASE /\ batch' = [batch EXCEPT ![p] = t]
            /\ pc' = [pc EXCEPT ![p] = "handle"] /\ UNCHANGED cur
  <2>1. cur' = [cur EXCEPT ![p] = cur[p]]
    BY <1>1, <1>11
  <2>2. pc' \in [Procs -> {"rest", "read", "scan", "handle"}]
    BY <1>1, <1>11
  <2>3. QED
    BY <1>1, <1>8, <1>9, <1>11, <2>1, <2>2, ProcessKeeps
<1>12. QED
  BY <1>3, <1>10, <1>11

\* The first mail of a batch is recorded, as a reply or as a rejection.  A
\* rejection that is there already at its place is of the same mail, unless the
\* mail is gone or the UID belongs to another UIDVALIDITY.
LEMMA HandleKeeps ==
  ASSUME CursorsInv, NEW p \in Procs, Handle(p)
  PROVE  CursorsInv'
<1>. DEFINE got == batch[p].got
            m == Head(got)
            q == <<batch[p].next.validity, m.uid>>
<1>1. /\ IsBox(box) /\ cur[p] \in Cursors /\ batch[p] \in Batches
      /\ batch \in [Procs -> Batches]
      /\ replies \in SUBSET Nat
      /\ rejections \in [DOMAIN rejections -> Rejections]
      /\ DOMAIN rejections \subseteq Nat \X Nat
      /\ Covered(batch[p], box, Handled)
  BY DEF CursorsInv, CursorsTyped
<1>2. /\ got \in Seq(FoundMails) /\ got # <<>>
      /\ batch[p].next \in Cursors /\ batch[p].more \in BOOLEAN
  BY <1>1 DEF Handle, Batches
<1>3. /\ Len(got) \in Nat /\ 1 \in 1..Len(got) /\ m = got[1]
      /\ m \in FoundMails
      /\ Tail(got) \in Seq(FoundMails) /\ Len(Tail(got)) = Len(got) - 1
      /\ \A i \in 1..Len(Tail(got)) : Tail(got)[i] = got[i + 1]
  BY <1>2
<1>4. /\ q \in Nat \X Nat /\ m.mail \in Nat /\ m.uid \in Nat
      /\ IsAt(m.mail, batch[p].next.validity, m.uid, box)
  BY <1>1, <1>2, <1>3 DEF FoundMails, Cursors, Covered
<1>5. UNCHANGED <<box, arrived, cursor, pc, cur, faults>>
  BY DEF Handle, server
<1>6. /\ replies' \in SUBSET Nat
      /\ DOMAIN rejections' \subseteq Nat \X Nat
      /\ rejections' \in [DOMAIN rejections' -> Rejections]
      /\ replies \subseteq replies'
      /\ DOMAIN rejections \subseteq DOMAIN rejections'
      /\ \A r \in DOMAIN rejections : rejections'[r] = rejections[r]
      /\ \A r \in DOMAIN rejections' :
           r \in DOMAIN rejections \/ (r = q /\ rejections'[r].mail = m.mail)
      /\ m.mail \in replies' \/ q \in DOMAIN rejections'
  <2>1. CASE RecordReply(m.mail)
    BY <1>1, <1>4, <2>1 DEF RecordReply
  <2>2. CASE \E reason \in Reasons : RecordRejection(Place(p, m), m.mail, reason)
    <3>1. PICK reason \in Reasons : RecordRejection(q, m.mail, reason)
      BY <2>2 DEF Place
    <3>2. CASE q \in DOMAIN rejections
      BY <1>1, <3>1, <3>2 DEF RecordRejection
    <3>3. CASE q \notin DOMAIN rejections
      BY <1>1, <1>4, <3>1, <3>3 DEF RecordRejection, Rejections
    <3>4. QED
      BY <3>2, <3>3
  <2>3. QED
    BY <2>1, <2>2 DEF Handle
<1>7. Handled \subseteq Handled'
  BY <1>1, <1>6 DEF Handled, IsHandled
<1>8. batch' = [batch EXCEPT ![p].got = Tail(got)]
  BY DEF Handle
<1>. DEFINE t == [got |-> Tail(got), next |-> batch[p].next, more |-> batch[p].more]
<1>9. t \in Batches
  BY <1>2, <1>3 DEF Batches
<1>10. batch' = [batch EXCEPT ![p] = t]
  <2>1. [batch[p] EXCEPT !.got = Tail(got)] = t
    <3>1. \A h : \A b \in Batches :
            [b EXCEPT !.got = h] = [got |-> h, next |-> b.next, more |-> b.more]
      BY DEF Batches
    <3>2. QED
      BY <1>1, <3>1, Zenon
  <2>2. batch' = [batch EXCEPT ![p] = [batch[p] EXCEPT !.got = Tail(got)]]
    BY <1>8
  <2>3. QED
    BY <2>1, <2>2
<1>11. \A r \in DOMAIN rejections' : IsAt(rejections'[r].mail, r[1], r[2], box)
  BY <1>4, <1>6 DEF CursorsInv
<1>12. ASSUME batch[p].next.validity = box.validity, m.uid \in DOMAIN box.mail
       PROVE  box.mail[m.uid] \in Handled'
  <2>1. box.mail[m.uid] = m.mail
    BY <1>4, <1>12 DEF IsAt
  <2>2. \/ m.mail \in replies'
        \/ q \in DOMAIN rejections' /\ rejections'[q].mail = m.mail
    <3>1. q[1] = batch[p].next.validity /\ q[2] = m.uid
      OBVIOUS
    <3>. HIDE DEF q
    <3>2. QED
      BY <1>6, <1>11, <1>12, <2>1, <3>1 DEF IsAt
  <2>3. QED
    BY <1>4, <2>1, <2>2 DEF Handled, IsHandled
<1>13. Covered(t, box, Handled')
  <2>1. \A i \in 1..Len(t.got) : IsAt(t.got[i].mail, t.next.validity, t.got[i].uid, box)
    <3>. SUFFICES ASSUME NEW i \in 1..Len(Tail(got))
                  PROVE  IsAt(got[i + 1].mail, batch[p].next.validity, got[i + 1].uid, box)
      BY <1>3
    <3>1. i + 1 \in 1..Len(got)
      BY <1>3
    <3>2. QED
      BY <1>1, <3>1 DEF Covered
  <2>2. ASSUME t.next.validity = box.validity, NEW u \in DOMAIN box.mail,
               u <= t.next.last
        PROVE  box.mail[u] \in Handled' \/ \E i \in 1..Len(t.got) : t.got[i].uid = u
    <3>1. CASE box.mail[u] \in Handled
      BY <1>7, <3>1
    <3>2. CASE \E i \in 1..Len(got) : got[i].uid = u
      <4>1. PICK i \in 1..Len(got) : got[i].uid = u
        BY <3>2
      <4>2. CASE i = 1
        BY <1>3, <1>12, <2>2, <4>1, <4>2
      <4>3. CASE i # 1
        <5>1. i - 1 \in 1..Len(Tail(got)) /\ Tail(got)[i - 1] = got[i]
          BY <1>3, <4>3
        <5>2. QED
          BY <4>1, <5>1
      <4>4. QED
        BY <4>2, <4>3
    <3>3. QED
      BY <1>1, <2>2, <3>1, <3>2 DEF Covered
  <2>3. QED
    BY <1>1, <2>1, <2>2 DEF Covered
<1>14. CursorsTyped'
  BY <1>5, <1>6, <1>9, <1>10 DEF CursorsInv, CursorsTyped
<1>15. /\ Passed(cursor, box, Handled')
       /\ \A r \in Procs : Passed(cur[r], box, Handled')
  BY <1>7 DEF CursorsInv, Passed
<1>16. \A r \in Procs : Covered(batch'[r], box, Handled')
  <2>1. \A r \in Procs : r # p => batch'[r] = batch[r] /\ batch[r] \in Batches
    BY <1>10 DEF CursorsInv, CursorsTyped
  <2>2. \A r \in Procs : r # p => Covered(batch'[r], box, Handled')
    BY <1>1, <1>7, <2>1, SameBoxLater, CoveredLater DEF CursorsInv
  <2>3. batch'[p] = t
    BY <1>1, <1>10
  <2>4. QED
    BY <1>13, <2>2, <2>3
<1>17. QED
  BY <1>5, <1>11, <1>14, <1>15, <1>16 DEF CursorsInv

-------------------------------------------------------------------------------
(* The invariant and what follows from it.                                 *)

LEMMA CursorInitInv == CursorInit => CursorsInv
<1>. SUFFICES ASSUME CursorInit PROVE CursorsInv
  OBVIOUS
<1>1. DOMAIN box.mail = {} /\ DOMAIN rejections = {}
  BY DEF CursorInit
<1>2. IsBox(box)
  BY <1>1, FS_EmptySet DEF CursorInit, IsBox
<1>3. CursorsTyped
  BY <1>1, <1>2, NothingFound DEF CursorInit, CursorsTyped
<1>4. \A p \in Procs : cur[p] = NoCursor /\ batch[p] = EmptyBatch
  BY DEF CursorInit
<1>5. QED
  BY <1>1, <1>2, <1>3, <1>4, NothingFound DEF CursorInit, CursorsInv

LEMMA CursorStepInv == CursorsInv /\ [CursorNext]_cursorVars => CursorsInv'
<1>1. ASSUME CursorsInv, CursorNext PROVE CursorsInv'
  BY <1>1, ServerKeeps, DrainKeeps, ScanKeeps, HandleKeeps DEF CursorNext, Step
<1>2. ASSUME CursorsInv, UNCHANGED cursorVars PROVE CursorsInv'
  <2>1. Handled' = Handled
    BY <1>2 DEF cursorVars, database, Handled, IsHandled
  <2>2. QED
    BY <1>2, <2>1 DEF CursorsInv, CursorsTyped, cursorVars, server, database, process
<1>3. QED
  BY <1>1, <1>2

\* The inductive invariant: the row of fetch_cursors and every stale copy of it
\* pass over handled mail only, and every batch in flight holds what lies
\* between.
THEOREM CursorsInvariant == CursorSpec => []CursorsInv
  BY CursorInitInv, CursorStepInv, PTL DEF CursorSpec

\* No mail at or below the cursor is left without a reply or a rejection, with
\* any number of processes scanning, recording and advancing at once, whatever
\* is deleted, however often the folder is rebuilt and wherever processes die.
THEOREM NoMailPassedOver == CursorSpec => []PassedMailIsHandled
<1>1. CursorsInv => PassedMailIsHandled
  BY DEF CursorsInv, Passed, Handled, PassedMailIsHandled
<1>2. QED
  BY <1>1, CursorsInvariant, PTL

\* AdvanceCursor's condition is against the row as it is, so the slower of two
\* processes cannot take the cursor back within one UIDVALIDITY.
THEOREM CursorsNeverGoBack == CursorSpec => CursorOnlyAdvances
<1>1. CursorsInv /\ [CursorNext]_cursorVars
        => [cursor'.validity = cursor.validity => cursor'.last >= cursor.last]_cursorVars
  <2>. SUFFICES ASSUME CursorsInv, CursorNext, cursor'.validity = cursor.validity
                PROVE  cursor'.last >= cursor.last
    OBVIOUS
  <2>1. cursor.last \in Nat
    BY DEF CursorsInv, CursorsTyped, Cursors
  <2>2. ASSUME NEW p \in Procs, AdvanceCursor(p)
        PROVE  cursor'.last >= cursor.last
    BY <2>2 DEF AdvanceCursor, Advances
  <2>3. CASE UNCHANGED cursor
    BY <2>1, <2>3
  <2>4. QED
    BY <2>2, <2>3 DEF CursorNext, Step, Arrive, Expunge, Rebuild, StartDrain,
                      FetchCursor, Scan, Handle, Regress, Crash, database
<1>2. QED
  BY <1>1, CursorsInvariant, PTL DEF CursorSpec, CursorOnlyAdvances
===============================================================================
