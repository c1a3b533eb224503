---------------------------- MODULE MailFetchProofs ----------------------------
(***************************************************************************)
(* Proofs about MailFetch, with a Junk folder or without, for any number of *)
(* mails, UIDs, rebuilds and faults and every size of a batch.              *)
(***************************************************************************)
EXTENDS MailFetch, FiniteSetTheorems, SequenceTheorems, TLAPS

Scanning == {"search", "fetch", "handle"}
Draining == {"cursor", "clear", "examine", "retry"} \cup Scanning
Stages == Draining \cup {"offline", "list", "loop", "junk", "reselect", "wait",
                         "check", "idle", "poll"}

Cursors == [validity : Nat, last : Nat]
FoundMails == [uid : Nat, mail : Nat]
Batches == [todo : Seq(Nat), got : Seq(FoundMails), next : Cursors, more : BOOLEAN]
Places == [folder : Folders, validity : Nat, uid : Nat]
Rows == [place : Places, mail : Nat]

IsBox(b) ==
  /\ DOMAIN b.mail \subseteq Nat /\ IsFiniteSet(DOMAIN b.mail)
  /\ b = [here |-> b.here, broken |-> b.broken, validity |-> b.validity,
          next |-> b.next, mail |-> b.mail]
  /\ b.here \in BOOLEAN /\ b.broken \in BOOLEAN
  /\ b.validity \in Nat /\ b.next \in Nat /\ b.next > 0
  /\ b.mail \in [DOMAIN b.mail -> Nat]
  /\ \A u \in DOMAIN b.mail : b.here /\ u > 0 /\ u < b.next

MailTyped ==
  /\ box = [f \in Folders |-> box[f]] /\ \A f \in Folders : IsBox(box[f])
  /\ up \in BOOLEAN /\ sel \in Folders \cup {"none"} /\ owed \in BOOLEAN
  /\ cursor \in [Folders -> Cursors]
  /\ rows \in SUBSET Rows
  /\ pc \in Stages /\ folder \in Folders
  /\ cur \in Cursors /\ batch \in Batches
  /\ exists \in BOOLEAN /\ putback \in BOOLEAN
  /\ junk \in BOOLEAN /\ relist \in BOOLEAN
  /\ arrived \in Nat

Known == {m \in Nat : IsRecorded(m)}

\* Nothing the folder b holds at or below c is left unrecorded.
Passed(c, b, K) ==
  /\ c.validity <= b.validity
  /\ c.validity = b.validity /\ b.here =>
       /\ c.last < b.next
       /\ \A u \in DOMAIN b.mail : u <= c.last => b.mail[u] \in K

\* A mail that was found at a UID is the mail at that UID, or the mail is gone
\* or the UID belongs to another UIDVALIDITY.
IsAt(m, validity, uid, b) ==
  /\ validity <= b.validity
  /\ validity = b.validity /\ b.here =>
       /\ uid < b.next
       /\ uid \in DOMAIN b.mail => b.mail[uid] = m

\* Up to a batch's next cursor everything is recorded or still in the batch.
Covered(t, b, K) ==
  /\ t.next.validity <= b.validity
  /\ \A i \in 1..Len(t.got) : IsAt(t.got[i].mail, t.next.validity, t.got[i].uid, b)
  /\ t.next.validity = b.validity /\ b.here =>
       /\ t.next.last < b.next
       /\ \A u \in DOMAIN b.mail : u <= t.next.last =>
            b.mail[u] \in K \/ \E i \in 1..Len(t.got) : t.got[i].uid = u

\* What is fetched lies below the next cursor and what is to be fetched above.
InUidOrder(t) ==
  /\ \A i, j \in 1..Len(t.got) : i < j => t.got[i].uid < t.got[j].uid
  /\ \A i \in 1..Len(t.got) : t.got[i].uid <= t.next.last
  /\ \A i, j \in 1..Len(t.todo) : i < j => t.todo[i] < t.todo[j]
  /\ \A i \in 1..Len(t.todo) : t.todo[i] > t.next.last

\* The rest of a search still lists all that is there between its ends.
Searched(t, b) ==
  /\ \A i \in 1..Len(t.todo) : t.todo[i] < b.next
  /\ \A u \in DOMAIN b.mail : u > t.next.last =>
       \/ \E i \in 1..Len(t.todo) : t.todo[i] = u
       \/ \A i \in 1..Len(t.todo) : t.todo[i] < u

\* A place that is recorded already has the mail the batch has for it.
Agrees(t, f, R) ==
  \A i \in 1..Len(t.got) : \A r \in R :
    r.place = Place(f, t.next, t.got[i].uid) => r.mail = t.got[i].mail

RowsTrue ==
  \A r \in rows : IsAt(r.mail, r.place.validity, r.place.uid, box[r.place.folder])

CursorsTrue == \A f \in Folders : Passed(cursor[f], box[f], Known)

ScanTrue ==
  /\ pc \in {"clear", "examine"} \cup Scanning => cur = cursor[folder]
  /\ pc \in Scanning =>
       /\ Covered(batch, box[folder], Known)
       /\ InUidOrder(batch)
       /\ Agrees(batch, folder, rows)
       /\ batch.next.validity = cur.validity => batch.next.last >= cur.last
  /\ pc \in {"search", "fetch"} /\ up =>
       /\ sel = folder /\ box[folder].here
       /\ batch.next.validity = box[folder].validity
       /\ pc = "search" => batch.todo = <<>> /\ batch.got = <<>>
       /\ pc = "fetch" => Searched(batch, box[folder])

\* A signal that Junk's scan may have taken is kept until it is put back, and
\* then makes another round.
SignalKept ==
  /\ pc \notin {"offline", "list"} /\ junk => "Junk" \in Folders
  /\ pc = "junk" => junk
  /\ pc \in Draining /\ heard # {} => folder = "Junk" /\ putback
  /\ pc \in {"reselect", "wait"} /\ heard # {} => exists
  /\ pc \in {"check", "idle"} => heard = {}

MailInv == MailTyped /\ RowsTrue /\ CursorsTrue /\ ScanTrue /\ SignalKept

-------------------------------------------------------------------------------
(* What the server does never takes back what a cursor has passed.         *)

\* From b to b2: another UIDVALIDITY, or the same with new mails above the old
\* UIDNEXT and old ones where they were, or the folder is gone.
Later(b, b2) ==
  \/ b2.validity > b.validity
  \/ /\ b2.validity = b.validity
     /\ b2.here => b.here /\ b2.next >= b.next
     /\ \A u \in DOMAIN b2.mail :
          u >= b.next \/ (u \in DOMAIN b.mail /\ b2.mail[u] = b.mail[u])

LEMMA SameBoxLater == \A b : IsBox(b) => Later(b, b)
  BY DEF IsBox, Later

LEMMA PassedLater ==
  ASSUME NEW b, NEW b2, IsBox(b), IsBox(b2), Later(b, b2),
         NEW K, NEW K2, K \subseteq K2, NEW c \in Cursors, Passed(c, b, K)
  PROVE  Passed(c, b2, K2)
  BY DEF IsBox, Later, Cursors, Passed

LEMMA IsAtLater ==
  ASSUME NEW b, NEW b2, IsBox(b), IsBox(b2), Later(b, b2),
         NEW m, NEW validity \in Nat, NEW uid \in Nat, IsAt(m, validity, uid, b)
  PROVE  IsAt(m, validity, uid, b2)
  BY DEF IsBox, Later, IsAt

LEMMA CoveredLater ==
  ASSUME NEW b, NEW b2, IsBox(b), IsBox(b2), Later(b, b2),
         NEW K, NEW K2, K \subseteq K2, NEW t \in Batches, Covered(t, b, K)
  PROVE  Covered(t, b2, K2)
<1>1. t.next.validity \in Nat /\ t.next.last \in Nat
  BY DEF Batches, Cursors
<1>2. ASSUME NEW i \in 1..Len(t.got)
      PROVE  IsAt(t.got[i].mail, t.next.validity, t.got[i].uid, b2)
  <2>1. t.got[i] \in FoundMails
    BY ElementOfSeq DEF Batches
  <2>2. QED
    BY <1>1, <2>1, IsAtLater DEF Covered, FoundMails
<1>3. CASE b2.validity > b.validity
  BY <1>1, <1>2, <1>3 DEF IsBox, Covered
<1>4. CASE b2.validity = b.validity /\ t.next.validity = b.validity
  <2>1. ASSUME b2.here
        PROVE  /\ t.next.last < b2.next
               /\ \A u \in DOMAIN b2.mail : u <= t.next.last =>
                    b2.mail[u] \in K2 \/ \E i \in 1..Len(t.got) : t.got[i].uid = u
    <3>1. /\ b.here /\ b2.next >= b.next /\ t.next.last < b.next
          /\ b.next \in Nat /\ b2.next \in Nat
      BY <1>4, <2>1 DEF IsBox, Later, Covered
    <3>2. ASSUME NEW u \in DOMAIN b2.mail, u <= t.next.last
          PROVE  u \in DOMAIN b.mail /\ b2.mail[u] = b.mail[u]
      BY <1>1, <1>4, <3>1, <3>2 DEF IsBox, Later
    <3>3. QED
      BY <1>1, <1>4, <3>1, <3>2 DEF Covered
  <2>2. QED
    BY <1>1, <1>2, <1>4, <2>1 DEF IsBox, Covered
<1>5. CASE b2.validity = b.validity /\ t.next.validity # b.validity
  BY <1>1, <1>2, <1>5 DEF IsBox, Covered
<1>6. QED
  BY <1>3, <1>4, <1>5 DEF Later

\* A search stays complete while the folder keeps its UIDVALIDITY.
LEMMA SearchedLater ==
  ASSUME NEW b, NEW b2, IsBox(b), IsBox(b2), Later(b, b2), b2.validity = b.validity,
         b2.here, NEW t \in Batches, Searched(t, b)
  PROVE  Searched(t, b2)
<1>1. \A i \in 1..Len(t.todo) : t.todo[i] \in Nat
  BY ElementOfSeq DEF Batches
<1>2. b.here /\ b.next \in Nat /\ b2.next \in Nat /\ b2.next >= b.next
  BY DEF IsBox, Later
<1>3. \A i \in 1..Len(t.todo) : t.todo[i] < b.next
  BY DEF Searched
<1>4. ASSUME NEW u \in DOMAIN b2.mail, u > t.next.last
      PROVE  \/ \E i \in 1..Len(t.todo) : t.todo[i] = u
             \/ \A i \in 1..Len(t.todo) : t.todo[i] < u
  <2>1. u \in Nat
    BY DEF IsBox
  <2>2. CASE u >= b.next
    BY <1>1, <1>2, <1>3, <2>1, <2>2
  <2>3. CASE u \in DOMAIN b.mail
    BY <1>4, <2>3 DEF Searched
  <2>4. QED
    BY <2>2, <2>3 DEF IsBox, Later
<1>5. QED
  BY <1>1, <1>2, <1>3, <1>4 DEF Searched

\* The listing of a finite set of UIDs.
LEMMA Listing ==
  ASSUME NEW S \in SUBSET Nat, IsFiniteSet(S), NEW uids \in InOrder(S)
  PROVE  /\ uids \in Seq(Nat) /\ Len(uids) \in Nat /\ DOMAIN uids = 1..Len(uids)
         /\ \A i \in 1..Len(uids) : uids[i] \in S
         /\ \A u \in S : \E i \in 1..Len(uids) : uids[i] = u
         /\ \A i, j \in 1..Len(uids) : i < j => uids[i] < uids[j]
<1>1. Cardinality(S) \in Nat
  BY FS_CardinalityType
<1>2. uids \in [1..Cardinality(S) -> S] /\ uids \in [1..Cardinality(S) -> Nat]
  BY DEF InOrder
<1>3. uids \in Seq(Nat) /\ Len(uids) = Cardinality(S)
  BY <1>1, <1>2, LenProperties, SeqDef
<1>4. QED
  BY <1>1, <1>2, <1>3 DEF InOrder

-------------------------------------------------------------------------------
(* The server's steps.                                                     *)

LEMMA StoredIsLater ==
  ASSUME NEW f \in Folders, IsBox(box[f]), box[f].here, NEW m \in Nat
  PROVE  /\ IsBox(Stored(f, m)) /\ Later(box[f], Stored(f, m))
         /\ Stored(f, m).validity = box[f].validity /\ Stored(f, m).here
<1>. DEFINE b == box[f]
            b2 == Stored(f, m)
            mail == [u \in DOMAIN b.mail \cup {b.next} |->
                       IF u = b.next THEN m ELSE b.mail[u]]
<1>0. b2 = [here |-> b.here, broken |-> b.broken, validity |-> b.validity,
            next |-> b.next + 1, mail |-> mail]
  <2>1. ASSUME NEW n
        PROVE  [b EXCEPT !.next = n] =
                 [here |-> b.here, broken |-> b.broken, validity |-> b.validity,
                  next |-> n, mail |-> b.mail]
    <3>1. b = [here |-> b.here, broken |-> b.broken, validity |-> b.validity,
               next |-> b.next, mail |-> b.mail]
      BY DEF IsBox
    <3>. HIDE DEF b
    <3>2. QED
      BY <3>1
  <2>2. \A h, r, v, n, x, y :
          [[here |-> h, broken |-> r, validity |-> v, next |-> n, mail |-> x]
             EXCEPT !.mail = y]
            = [here |-> h, broken |-> r, validity |-> v, next |-> n, mail |-> y]
    OBVIOUS
  <2>3. b2 = [[b EXCEPT !.next = b.next + 1] EXCEPT !.mail = mail]
    <3>1. [b EXCEPT !.next = b.next + 1].mail = b.mail
      BY <2>1
    <3>2. QED
      BY <3>1 DEF Stored
  <2>4. QED
    BY <2>1, <2>2, <2>3, Zenon
<1>1. /\ b2.here /\ b2.broken = b.broken /\ b2.validity = b.validity
      /\ b2.next = b.next + 1
      /\ DOMAIN b2.mail = DOMAIN b.mail \cup {b.next}
      /\ \A u \in DOMAIN b2.mail : b2.mail[u] = IF u = b.next THEN m ELSE b.mail[u]
      /\ b2.mail = [u \in DOMAIN b2.mail |-> b2.mail[u]]
      /\ b2 = [here |-> b2.here, broken |-> b2.broken, validity |-> b2.validity,
               next |-> b2.next, mail |-> b2.mail]
  BY <1>0
<1>2. IsFiniteSet(DOMAIN b2.mail)
  BY <1>1, FS_AddElement DEF IsBox
<1>3. b2.mail \in [DOMAIN b2.mail -> Nat]
  BY <1>1 DEF IsBox
<1>4. QED
  <2>. HIDE DEF b2
  <2>1. IsBox(b2)
    BY <1>1, <1>2, <1>3 DEF IsBox
  <2>2. Later(b, b2)
    BY <1>1 DEF IsBox, Later
  <2>3. QED
    BY <1>1, <2>1, <2>2 DEF b2

LEMMA WithoutIsLater ==
  ASSUME NEW f \in Folders, IsBox(box[f]), NEW u
  PROVE  /\ IsBox(Without(f, u)) /\ Later(box[f], Without(f, u))
         /\ Without(f, u).validity = box[f].validity
         /\ Without(f, u).here = box[f].here
<1>. DEFINE b == box[f]
            b2 == Without(f, u)
<1>1. /\ b2.here = b.here /\ b2.broken = b.broken /\ b2.validity = b.validity
      /\ b2.next = b.next
      /\ DOMAIN b2.mail = DOMAIN b.mail \ {u}
      /\ \A v \in DOMAIN b2.mail : b2.mail[v] = b.mail[v]
      /\ b2.mail = [v \in DOMAIN b2.mail |-> b2.mail[v]]
      /\ b2 = [here |-> b2.here, broken |-> b2.broken, validity |-> b2.validity,
               next |-> b2.next, mail |-> b2.mail]
  BY DEF IsBox, Without
<1>2. IsFiniteSet(DOMAIN b2.mail)
  BY <1>1, FS_RemoveElement DEF IsBox
<1>3. b2.mail \in [DOMAIN b2.mail -> Nat]
  BY <1>1 DEF IsBox
<1>4. QED
  <2>. HIDE DEF b2
  <2>1. IsBox(b2)
    BY <1>1, <1>2, <1>3 DEF IsBox
  <2>2. Later(b, b2)
    BY <1>1 DEF IsBox, Later
  <2>3. QED
    BY <1>1, <2>1, <2>2 DEF b2

\* What a step does to the folders: they get on, and one that a connection that
\* is still alive has selected keeps its UIDVALIDITY.
BoxesGetOn ==
  /\ box' = [f \in Folders |-> box'[f]]
  /\ \A f \in Folders :
       /\ IsBox(box'[f]) /\ Later(box[f], box'[f])
       /\ up' /\ sel = f => up /\ /\ box'[f].validity = box[f].validity
                                 /\ box'[f].here = box[f].here
  /\ up' \in BOOLEAN /\ (up' => up)

LEMMA SameBoxes ==
  ASSUME MailTyped, box' = box, up' \in BOOLEAN, up' => up
  PROVE  BoxesGetOn
  BY SameBoxLater DEF MailTyped, BoxesGetOn

LEMMA ArriveGetsOn ==
  ASSUME MailTyped, NEW f \in Folders, Arrive(f)
  PROVE  BoxesGetOn
<1>1. /\ IsBox(box[f]) /\ box[f].here /\ arrived + 1 \in Nat
      /\ box' = [box EXCEPT ![f] = Stored(f, arrived + 1)] /\ up' = up
  BY DEF MailTyped, Arrive, Deliverable
<1>2. /\ IsBox(Stored(f, arrived + 1)) /\ Later(box[f], Stored(f, arrived + 1))
      /\ Stored(f, arrived + 1).validity = box[f].validity
      /\ Stored(f, arrived + 1).here
  BY <1>1, StoredIsLater
<1>3. QED
  BY <1>1, <1>2, SameBoxLater DEF MailTyped, BoxesGetOn

LEMMA ExpungeGetsOn ==
  ASSUME MailTyped, NEW f \in Folders, Expunge(f)
  PROVE  BoxesGetOn
<1>1. PICK u \in DOMAIN box[f].mail : box' = [box EXCEPT ![f] = Without(f, u)]
  BY DEF Expunge
<1>2. up' = up
  BY DEF Expunge
<1>3. QED
  BY <1>1, <1>2, WithoutIsLater, SameBoxLater DEF MailTyped, BoxesGetOn

LEMMA RescueGetsOn ==
  ASSUME MailTyped, Rescue
  PROVE  BoxesGetOn
<1>1. PICK u \in DOMAIN box["Junk"].mail :
        box' = [box EXCEPT !["INBOX"] = Stored("INBOX", box["Junk"].mail[u]),
                           !["Junk"] = Without("Junk", u)]
  BY DEF Rescue
<1>2. /\ "INBOX" \in Folders /\ "Junk" \in Folders /\ up' = up
      /\ box["INBOX"].here /\ IsBox(box["Junk"])
  BY DEF MailTyped, Rescue, Deliverable, Folders
<1>3. box["Junk"].mail[u] \in Nat
  BY <1>1, <1>2 DEF IsBox
<1>4. /\ IsBox(Stored("INBOX", box["Junk"].mail[u]))
      /\ Later(box["INBOX"], Stored("INBOX", box["Junk"].mail[u]))
      /\ Stored("INBOX", box["Junk"].mail[u]).validity = box["INBOX"].validity
      /\ Stored("INBOX", box["Junk"].mail[u]).here
      /\ IsBox(Without("Junk", u)) /\ Later(box["Junk"], Without("Junk", u))
      /\ Without("Junk", u).validity = box["Junk"].validity
      /\ Without("Junk", u).here = box["Junk"].here
  BY <1>2, <1>3, StoredIsLater, WithoutIsLater DEF MailTyped
<1>5. QED
  BY <1>1, <1>2, <1>4, SameBoxLater DEF MailTyped, BoxesGetOn

LEMMA RebuildGetsOn ==
  ASSUME MailTyped, NEW f \in Folders, Rebuild(f)
  PROVE  BoxesGetOn
<1>1. PICK uids \in InOrder(DOMAIN box[f].mail) :
        box' = [box EXCEPT ![f] = Rebuilt(f, uids)]
  BY DEF Rebuild
<1>2. IsBox(box[f]) /\ box[f].here /\ up' = (up /\ sel # f)
  BY DEF MailTyped, Rebuild
<1>3. /\ Len(uids) \in Nat /\ DOMAIN uids = 1..Len(uids)
      /\ \A i \in 1..Len(uids) : uids[i] \in DOMAIN box[f].mail
  BY <1>2, Listing DEF IsBox
<1>4. IsFiniteSet(1..Len(uids))
  BY <1>3, FS_Interval
<1>5. IsBox(Rebuilt(f, uids)) /\ Later(box[f], Rebuilt(f, uids))
  BY <1>2, <1>3, <1>4 DEF IsBox, Later, Rebuilt
<1>6. QED
  BY <1>1, <1>2, <1>5, SameBoxLater DEF MailTyped, BoxesGetOn

LEMMA ChangeJunkGetsOn ==
  ASSUME MailTyped, ChangeJunk
  PROVE  BoxesGetOn
<1>. DEFINE b == box["Junk"]
            b2 == Toggled("Junk")
<1>1. "Junk" \in Folders /\ IsBox(b) /\ up' = (up /\ sel # "Junk")
  BY DEF MailTyped, ChangeJunk, Folders
<1>2. box' = [box EXCEPT !["Junk"] = b2]
  BY DEF ChangeJunk
<1>3. /\ DOMAIN b2.mail = {} /\ b2.mail \in [{} -> Nat]
      /\ b2.here = ~b.here /\ b2.broken = b.broken /\ b2.next = 1
      /\ b2.validity = IF b.here THEN b.validity ELSE b.validity + 1
      /\ b2 = [here |-> b2.here, broken |-> b2.broken, validity |-> b2.validity,
               next |-> b2.next, mail |-> b2.mail]
  BY <1>1 DEF Toggled, IsBox
<1>4. IsBox(b2) /\ Later(b, b2)
  <2>. HIDE DEF b, b2
  <2>1. b2.here \in BOOLEAN /\ b2.broken \in BOOLEAN
    BY <1>1, <1>3 DEF IsBox
  <2>2. /\ b2.validity \in Nat
        /\ \/ b2.validity > b.validity
           \/ b2.validity = b.validity /\ ~b2.here
    <3>1. b.validity \in Nat /\ b.here \in BOOLEAN
      BY <1>1 DEF IsBox
    <3>2. CASE b.here
      BY <1>3, <3>1, <3>2
    <3>3. CASE ~b.here
      BY <1>3, <3>1, <3>3
    <3>4. QED
      BY <3>2, <3>3
  <2>3. IsBox(b2)
    BY <1>3, <2>1, <2>2, FS_EmptySet DEF IsBox
  <2>4. QED
    BY <1>3, <2>2, <2>3 DEF Later
<1>5. QED
  <2>. HIDE DEF b2
  <2>1. QED
    BY <1>1, <1>2, <1>4, SameBoxLater DEF MailTyped, BoxesGetOn

-------------------------------------------------------------------------------
(* What the steps of a scan do to the batch.                               *)

Batch(todo, got, next, more) == [todo |-> todo, got |-> got, next |-> next, more |-> more]

LEMMA BatchFields ==
  ASSUME NEW a, NEW g, NEW n, NEW m
  PROVE  /\ Batch(a, g, n, m).todo = a /\ Batch(a, g, n, m).got = g
         /\ Batch(a, g, n, m).next = n /\ Batch(a, g, n, m).more = m
  BY DEF Batch

LEMMA GotChanged ==
  ASSUME NEW t \in Batches, NEW x
  PROVE  [t EXCEPT !.got = x] = Batch(t.todo, x, t.next, t.more)
<1>1. t = [todo |-> t.todo, got |-> t.got, next |-> t.next, more |-> t.more]
  BY DEF Batches
<1>2. QED
  BY <1>1 DEF Batch

LEMMA TodoMoreChanged ==
  ASSUME NEW t \in Batches, NEW x, NEW y
  PROVE  [[t EXCEPT !.todo = x] EXCEPT !.more = y] = Batch(x, t.got, t.next, y)
<1>1. t = [todo |-> t.todo, got |-> t.got, next |-> t.next, more |-> t.more]
  BY DEF Batches
<1>2. [t EXCEPT !.todo = x] = Batch(x, t.got, t.next, t.more)
  BY <1>1 DEF Batch
<1>3. [Batch(x, t.got, t.next, t.more) EXCEPT !.more = y] = Batch(x, t.got, t.next, y)
  BY DEF Batch
<1>4. QED
  BY <1>2, <1>3, Zenon

LEMMA MoreTodoChanged ==
  ASSUME NEW t \in Batches, NEW x, NEW y
  PROVE  [[t EXCEPT !.more = y] EXCEPT !.todo = x] = Batch(x, t.got, t.next, y)
<1>1. t = [todo |-> t.todo, got |-> t.got, next |-> t.next, more |-> t.more]
  BY DEF Batches
<1>2. [t EXCEPT !.more = y] = Batch(t.todo, t.got, t.next, y)
  BY <1>1 DEF Batch
<1>3. [Batch(t.todo, t.got, t.next, y) EXCEPT !.todo = x] = Batch(x, t.got, t.next, y)
  BY DEF Batch
<1>4. QED
  BY <1>2, <1>3, Zenon

LEMMA TodoNextChanged ==
  ASSUME NEW t \in Batches, NEW x, NEW y
  PROVE  [[t EXCEPT !.todo = x] EXCEPT !.next = y] = Batch(x, t.got, y, t.more)
<1>1. t = [todo |-> t.todo, got |-> t.got, next |-> t.next, more |-> t.more]
  BY DEF Batches
<1>2. [t EXCEPT !.todo = x] = Batch(x, t.got, t.next, t.more)
  BY <1>1 DEF Batch
<1>3. [Batch(x, t.got, t.next, t.more) EXCEPT !.next = y] = Batch(x, t.got, y, t.more)
  BY DEF Batch
<1>4. QED
  BY <1>2, <1>3, Zenon

LEMMA BatchTyped ==
  ASSUME NEW a \in Seq(Nat), NEW g \in Seq(FoundMails), NEW n \in Cursors,
         NEW m \in BOOLEAN
  PROVE  Batch(a, g, n, m) \in Batches
  BY DEF Batch, Batches

\* A Search, an Examine and the like start from this.
LEMMA EmptyBatchTyped == EmptyBatch \in Batches /\ NoCursor \in Cursors
  BY DEF EmptyBatch, Batches, NoCursor, Cursors

\* The cursor a Scan of folder f starts from.
Start(f) ==
  [validity |-> box[f].validity,
   last |-> IF cur.validity = box[f].validity THEN cur.last ELSE 0]

LEMMA ExamineWrites ==
  ASSUME MailTyped, Examine
  PROVE  /\ batch' = Batch(<<>>, <<>>, Start(folder), FALSE)
         /\ Start(folder) \in Cursors
<1>1. batch' = [EmptyBatch EXCEPT !.next = Start(folder)]
  BY DEF Examine, Start
<1>2. batch' = Batch(<<>>, <<>>, Start(folder), FALSE)
  BY <1>1 DEF EmptyBatch, Batch
<1>3. Start(folder) \in Cursors
  <2>1. box[folder].validity \in Nat /\ cur.last \in Nat
    BY DEF MailTyped, IsBox, Cursors
  <2>2. QED
    BY <2>1 DEF Start, Cursors
<1>4. QED
  BY <1>2, <1>3

Above(f, last) == {u \in DOMAIN box[f].mail : u > last}

\* The first MaxBatch of a list.
Firsts(uids) == IF Len(uids) > MaxBatch THEN SubSeq(uids, 1, MaxBatch) ELSE uids

LEMMA SearchWrites ==
  ASSUME MailTyped, Search
  PROVE  \E uids \in InOrder(Above(folder, batch.next.last)) :
           batch' = Batch(Firsts(uids), batch.got, batch.next, Len(uids) > MaxBatch)
<1>1. Found(folder, batch.next.last) = Above(folder, batch.next.last)
  BY DEF Found, Matches, Above
<1>2. PICK uids \in InOrder(Above(folder, batch.next.last)) :
        batch' = [[batch EXCEPT !.todo = Firsts(uids)] EXCEPT !.more = Len(uids) > MaxBatch]
  BY <1>1, Zenon DEF Search, Firsts
<1>3. PICK more : more = (Len(uids) > MaxBatch)
  OBVIOUS
<1>4. batch' = [[batch EXCEPT !.todo = Firsts(uids)] EXCEPT !.more = more]
  BY <1>2, <1>3
<1>5. batch' = Batch(Firsts(uids), batch.got, batch.next, more)
  <2>1. batch \in Batches
    BY DEF MailTyped
  <2>2. QED
    BY <1>4, <2>1, TodoMoreChanged, Zenon
<1>6. QED
  BY <1>3, <1>5

LEMMA RecordWrites ==
  ASSUME MailTyped, RecordMail
  PROVE  batch' = Batch(batch.todo, Tail(batch.got), batch.next, batch.more)
<1>1. batch' = [batch EXCEPT !.got = Tail(batch.got)]
  BY DEF RecordMail
<1>2. batch \in Batches
  BY DEF MailTyped
<1>3. QED
  BY <1>1, <1>2, GotChanged, Zenon

\* The batch when the next UID has been dealt with.
Past(t) ==
  Batch(Tail(t.todo), t.got, [validity |-> t.next.validity, last |-> Head(t.todo)], t.more)

With(t, b) ==
  Batch(Tail(t.todo), Append(t.got, [uid |-> Head(t.todo), mail |-> b.mail[Head(t.todo)]]),
        [validity |-> t.next.validity, last |-> Head(t.todo)], t.more)

LEMMA FetchWrites ==
  ASSUME MailTyped, Fetch
  PROVE  /\ batch.todo # <<>>
         /\ \/ Head(batch.todo) \in DOMAIN box[folder].mail /\ batch' = With(batch, box[folder])
            \/ Head(batch.todo) \notin DOMAIN box[folder].mail /\ batch' = Past(batch)
            \/ batch' = Batch(<<>>, batch.got, batch.next, TRUE)
<1>. DEFINE u == Head(batch.todo)
            new == [validity |-> batch.next.validity, last |-> u]
            passed == [batch EXCEPT !.todo = Tail(@), !.next.last = u]
<1>1. batch \in Batches /\ batch.todo \in Seq(Nat) /\ batch.todo # <<>>
  BY DEF MailTyped, Batches, Fetch
<1>2. [batch.next EXCEPT !.last = u] = new
  BY <1>1 DEF Batches, Cursors
<1>3. passed = Past(batch)
  <2>1. passed = [[batch EXCEPT !.todo = Tail(batch.todo)] EXCEPT !.next = new]
    <3>1. [batch EXCEPT !.todo = Tail(batch.todo)].next = batch.next
      BY <1>1 DEF Batches
    <3>2. QED
      BY <1>2, <3>1
  <2>2. QED
    BY <1>1, <2>1, TodoNextChanged, Zenon DEF Past
<1>4. \/ /\ u \in DOMAIN box[folder].mail
         /\ batch' = [passed EXCEPT !.got =
                        Append(passed.got, [uid |-> u, mail |-> box[folder].mail[u]])]
      \/ u \notin DOMAIN box[folder].mail /\ batch' = passed
      \/ batch' = Cut(batch)
  BY DEF Fetch
<1>. HIDE DEF passed
<1>5. Cut(batch) = Batch(<<>>, batch.got, batch.next, TRUE)
  <2>1. PICK more : more = TRUE
    OBVIOUS
  <2>2. Cut(batch) = [[batch EXCEPT !.more = more] EXCEPT !.todo = <<>>]
    BY <2>1 DEF Cut
  <2>3. Cut(batch) = Batch(<<>>, batch.got, batch.next, more)
    BY <1>1, <2>2, MoreTodoChanged, Zenon
  <2>4. QED
    BY <2>1, <2>3
<1>6. [passed EXCEPT !.got = Append(passed.got, [uid |-> u, mail |-> box[folder].mail[u]])]
        = With(batch, box[folder])
  <2>1. Past(batch) \in Batches
    <3>1. /\ Tail(batch.todo) \in Seq(Nat) /\ u \in Nat
          /\ batch.got \in Seq(FoundMails) /\ batch.more \in BOOLEAN
          /\ new \in Cursors
      BY <1>1 DEF Batches, Cursors
    <3>2. QED
      BY <3>1, BatchTyped DEF Past
  <2>2. /\ Past(batch).todo = Tail(batch.todo) /\ Past(batch).got = batch.got
        /\ Past(batch).next = new /\ Past(batch).more = batch.more
    BY BatchFields DEF Past
  <2>. DEFINE got == Append(batch.got, [uid |-> u, mail |-> box[folder].mail[u]])
  <2>3. [Past(batch) EXCEPT !.got = got]
          = Batch(Past(batch).todo, got, Past(batch).next, Past(batch).more)
    BY <2>1, GotChanged, Zenon
  <2>4. Append(passed.got, [uid |-> u, mail |-> box[folder].mail[u]]) = got
    BY <1>3, <2>2
  <2>. HIDE DEF got
  <2>5. [passed EXCEPT !.got = Append(passed.got, [uid |-> u, mail |-> box[folder].mail[u]])]
          = Batch(Tail(batch.todo), got, new, batch.more)
    BY <1>3, <2>2, <2>3, <2>4, Zenon
  <2>6. QED
    BY <2>5, Zenon DEF With, got
<1>7. QED
  BY <1>1, <1>3, <1>4, <1>5, <1>6

-------------------------------------------------------------------------------
(* The server's steps keep the invariant.                                  *)

ServerStep == Server \/ HourPasses \/ RelistDue

LEMMA ServerFrame ==
  ASSUME MailTyped, ServerStep
  PROVE  /\ BoxesGetOn
         /\ UNCHANGED <<sel, cursor, rows, pc, folder, cur, batch, putback, junk, heard>>
         /\ owed' \in BOOLEAN /\ exists' \in BOOLEAN /\ (exists => exists')
         /\ relist' \in BOOLEAN /\ arrived' \in Nat
<1>1. ASSUME NEW f \in Folders, Arrive(f) \/ Expunge(f) \/ Rebuild(f)
      PROVE  BoxesGetOn
  BY <1>1, ArriveGetsOn, ExpungeGetsOn, RebuildGetsOn
<1>2. ASSUME Push \/ Drop \/ HourPasses \/ RelistDue
      PROVE  BoxesGetOn
  <2>1. box' = box /\ up' \in BOOLEAN /\ (up' => up)
    <3>1. up \in BOOLEAN
      BY DEF MailTyped
    <3>2. CASE Push \/ HourPasses \/ RelistDue
      BY <3>1, <3>2 DEF Push, HourPasses, RelistDue, serverVars
    <3>3. CASE Drop
      BY <3>1, <3>3 DEF Drop
    <3>4. QED
      BY <1>2, <3>2, <3>3
  <2>2. QED
    BY <2>1, SameBoxes
<1>3. BoxesGetOn
  BY <1>1, <1>2, RescueGetsOn, ChangeJunkGetsOn DEF ServerStep, Server
<1>4. /\ UNCHANGED <<sel, cursor, rows, pc, folder, cur, batch, putback, junk, heard>>
      /\ owed' \in BOOLEAN /\ exists' \in BOOLEAN /\ (exists => exists')
      /\ relist' \in BOOLEAN /\ arrived' \in Nat
  <2>. USE DEF MailTyped, storeVars, listVars, serverVars, bounds
  <2>1. ASSUME NEW f \in Folders, Arrive(f) \/ Expunge(f) \/ Rebuild(f) PROVE <1>4!:
    BY <2>1 DEF Arrive, Expunge, Rebuild, Owes
  <2>2. CASE Rescue \/ ChangeJunk \/ Push \/ Drop
    BY <2>2 DEF Rescue, ChangeJunk, Push, Drop, Owes
  <2>3. CASE HourPasses \/ RelistDue
    BY <2>3 DEF HourPasses, RelistDue
  <2>4. QED
    BY <2>1, <2>2, <2>3 DEF ServerStep, Server
<1>5. QED
  BY <1>3, <1>4

LEMMA ServerKeeps ==
  ASSUME MailInv, ServerStep
  PROVE  MailInv'
<1>1. MailTyped
  BY DEF MailInv
<1>2. /\ BoxesGetOn
      /\ UNCHANGED <<sel, cursor, rows, pc, folder, cur, batch, putback, junk, heard>>
      /\ owed' \in BOOLEAN /\ exists' \in BOOLEAN /\ (exists => exists')
      /\ relist' \in BOOLEAN /\ arrived' \in Nat
  BY <1>1, ServerFrame
<1>3. MailTyped'
  BY <1>1, <1>2 DEF MailTyped, BoxesGetOn
<1>4. Known' = Known
  BY <1>2 DEF Known, IsRecorded
<1>5. RowsTrue'
  <2>1. \A r \in rows : /\ r.place.folder \in Folders
                        /\ r.place.validity \in Nat /\ r.place.uid \in Nat
    BY <1>1 DEF MailTyped, Rows, Places
  <2>2. \A r \in rows :
          IsAt(r.mail, r.place.validity, r.place.uid, box'[r.place.folder])
    BY <1>1, <1>2, <2>1, IsAtLater DEF MailInv, MailTyped, RowsTrue, BoxesGetOn
  <2>3. QED
    BY <1>2, <2>2 DEF RowsTrue
<1>6. CursorsTrue'
  <2>1. \A f \in Folders : Passed(cursor[f], box'[f], Known)
    BY <1>1, <1>2, PassedLater DEF MailInv, MailTyped, CursorsTrue, BoxesGetOn
  <2>2. QED
    BY <1>2, <1>4, <2>1 DEF CursorsTrue
<1>7. ScanTrue'
  <2>1. /\ folder \in Folders /\ batch \in Batches
        /\ IsBox(box[folder]) /\ IsBox(box'[folder]) /\ Later(box[folder], box'[folder])
    BY <1>1, <1>2 DEF MailTyped, BoxesGetOn
  <2>2. pc \in Scanning => Covered(batch, box'[folder], Known)
    BY <2>1, CoveredLater DEF MailInv, ScanTrue
  <2>3. ASSUME pc \in {"search", "fetch"}, up'
        PROVE  /\ up /\ sel = folder /\ box'[folder].here
               /\ batch.next.validity = box'[folder].validity
               /\ pc = "search" => batch.todo = <<>> /\ batch.got = <<>>
               /\ pc = "fetch" => Searched(batch, box'[folder])
    <3>1. up /\ sel = folder
      BY <1>2, <2>3 DEF MailInv, ScanTrue, BoxesGetOn
    <3>2. box'[folder].validity = box[folder].validity /\ box'[folder].here
      BY <1>2, <2>1, <2>3, <3>1 DEF MailInv, ScanTrue, BoxesGetOn
    <3>3. QED
      BY <2>1, <2>3, <3>1, <3>2, SearchedLater DEF MailInv, ScanTrue
  <2>4. QED
    BY <1>2, <1>4, <2>2, <2>3 DEF MailInv, ScanTrue
<1>8. SignalKept'
  BY <1>2 DEF MailInv, SignalKept
<1>9. QED
  BY <1>3, <1>5, <1>6, <1>7, <1>8 DEF MailInv

-------------------------------------------------------------------------------
(* Steps of the watcher that look at no mail: the way into a drain and out  *)
(* of it, and what fails.                                                   *)

\* What SignalKept says of the step a drain ends with.
Ended ==
  /\ exists' \in BOOLEAN /\ putback' \in BOOLEAN
  /\ pc' \in {"offline", "junk", "reselect", "wait"}
  /\ pc' = "junk" => junk
  /\ pc' \in {"reselect", "wait"} /\ heard # {} => exists'

LEMMA DrainedEnds ==
  ASSUME MailTyped, SignalKept, pc \in Draining, Drained
  PROVE  Ended
<1>. USE DEF Ended, Drained, LeaveJunk, PutBackSignal, junkVars
<1>1. exists \in BOOLEAN /\ putback \in BOOLEAN
  BY DEF MailTyped
<1>2. CASE folder = "INBOX"
  <2>1. heard = {}
    BY <1>2 DEF SignalKept
  <2>2. pc' \in {"junk", "wait"} /\ (pc' = "junk" => junk) /\ UNCHANGED <<exists, putback>>
    BY <1>2
  <2>3. QED
    BY <1>1, <2>1, <2>2
<1>3. CASE folder # "INBOX"
  BY <1>1, <1>3 DEF SignalKept
<1>4. QED
  BY <1>2, <1>3

LEMMA DrainFailsEnds ==
  ASSUME MailTyped, SignalKept, pc \in Draining, NEW kind, DrainFails(kind)
  PROVE  Ended /\ up' \in BOOLEAN
<1>. USE DEF Ended, DrainFails, Disconnect, LeaveJunk, PutBackSignal, junkVars
<1>1. exists \in BOOLEAN /\ putback \in BOOLEAN /\ up \in BOOLEAN
  BY DEF MailTyped
<1>2. CASE folder = "INBOX"
  BY <1>1, <1>2
<1>3. CASE folder # "INBOX"
  BY <1>1, <1>3 DEF SignalKept
<1>4. QED
  BY <1>2, <1>3

\* Outside of a scan nothing is claimed of the batch.
LEMMA RestKeeps ==
  ASSUME MailInv, UNCHANGED <<box, cursor, rows>>,
         MailTyped', SignalKept', pc' \notin {"clear", "examine"} \cup Scanning
  PROVE  MailInv'
<1>1. Known' = Known
  BY DEF Known, IsRecorded
<1>2. RowsTrue' /\ CursorsTrue'
  BY <1>1 DEF MailInv, RowsTrue, CursorsTrue
<1>3. ScanTrue'
  BY DEF ScanTrue, Scanning
<1>4. QED
  BY <1>2, <1>3 DEF MailInv

LEMMA EndKeeps ==
  ASSUME MailInv, Ended, UNCHANGED <<box, cursor, rows, folder, cur, batch, heard, arrived>>,
         UNCHANGED <<junk, relist>>,
         up' \in BOOLEAN, owed' \in BOOLEAN, sel' \in Folders \cup {"none"},
         pc \in Draining
  PROVE  MailInv'
<1>1. MailTyped'
  BY DEF MailInv, MailTyped, Ended, Stages, Draining
<1>2. SignalKept'
  BY DEF MailInv, SignalKept, Ended, Draining, Scanning
<1>3. QED
  BY <1>1, <1>2, RestKeeps DEF Ended, Scanning

LEMMA FailKeeps ==
  ASSUME MailInv, LocalFails \/ Retry \/ ScanFails
  PROVE  MailInv'
<1>. USE DEF storeVars, serverVars, listVars, bounds
<1>1. /\ MailTyped /\ SignalKept /\ pc \in Draining
      /\ up \in BOOLEAN /\ owed \in BOOLEAN /\ sel \in Folders \cup {"none"}
      /\ exists \in BOOLEAN /\ putback \in BOOLEAN
  BY DEF MailInv, MailTyped, LocalFails, Retry, ScanFails, Draining, Scanning
<1>2. /\ UNCHANGED <<box, cursor, rows, folder, cur, batch, heard, arrived>>
      /\ UNCHANGED <<junk, relist>>
      /\ owed' \in BOOLEAN /\ sel' \in Folders \cup {"none"}
  BY <1>1 DEF LocalFails, Retry, ScanFails
<1>3. CASE \E kind \in {"local", "closed", "rejected", "timeout"} : DrainFails(kind)
  BY <1>1, <1>2, <1>3, DrainFailsEnds, EndKeeps
<1>4. CASE pc' \in {"retry", "cursor"} /\ UNCHANGED <<up, exists, putback>>
  <2>1. MailTyped'
    BY <1>1, <1>2, <1>4 DEF MailTyped, Stages, Draining
  <2>2. SignalKept'
    BY <1>1, <1>2, <1>4 DEF SignalKept, Draining, Scanning
  <2>3. QED
    BY <1>2, <1>4, <2>1, <2>2, RestKeeps DEF Scanning
<1>5. QED
  BY <1>3, <1>4 DEF LocalFails, Retry, ScanFails

LEMMA ServeKeeps ==
  ASSUME MailInv, Serve \/ Crash
  PROVE  MailInv'
<1>. USE DEF storeVars, serverVars, listVars, bounds
<1>1. /\ MailTyped /\ SignalKept
      /\ up \in BOOLEAN /\ owed \in BOOLEAN /\ sel \in Folders \cup {"none"}
      /\ exists \in BOOLEAN /\ putback \in BOOLEAN /\ "INBOX" \in Folders
  BY DEF MailInv, MailTyped, Folders
<1>2. UNCHANGED <<box, cursor, rows, arrived>>
  BY DEF Serve, Connect, List, ListFails, StartRound, StartJunk, Reselect, Wait,
         StartIdle, EndIdle, IdleFails, Poll, Crash
<1>3. pc' \notin {"clear", "examine"} \cup Scanning
  BY DEF Serve, Connect, List, ListFails, StartRound, StartJunk, Reselect, Wait,
         StartIdle, EndIdle, IdleFails, Poll, Crash, Disconnect, Scanning
<1>4. MailTyped' /\ SignalKept'
  <2>. USE <1>1, <1>2 DEF MailTyped, SignalKept, Stages, Draining, Scanning
  <2>1. CASE Connect
    BY <2>1 DEF Connect
  <2>2. CASE List
    BY <2>2 DEF List, Listed
  <2>3. CASE ListFails
    BY <2>3 DEF ListFails, Disconnect
  <2>4. CASE StartRound
    BY <2>4 DEF StartRound
  <2>5. CASE StartJunk
    BY <2>5 DEF StartJunk
  <2>6. CASE Reselect
    BY <2>6 DEF Reselect, Disconnect
  <2>7. CASE Wait
    BY <2>7 DEF Wait
  <2>8. CASE StartIdle \/ EndIdle
    <3>1. /\ pc' \in {"loop", "idle"} /\ pc \in {"check", "idle"} /\ exists' \in BOOLEAN
          /\ UNCHANGED <<up, sel, owed, folder, cur, batch, putback, junk, relist, heard>>
      BY <2>8 DEF StartIdle, EndIdle
    <3>2. QED
      BY <3>1
  <2>9. CASE IdleFails
    BY <2>9 DEF IdleFails, Disconnect
  <2>10. CASE Poll
    BY <2>10 DEF Poll, Disconnect
  <2>11. CASE Crash
    BY <2>11, EmptyBatchTyped DEF Crash
  <2>12. QED
    BY <2>1, <2>2, <2>3, <2>4, <2>5, <2>6, <2>7, <2>8, <2>9, <2>10, <2>11 DEF Serve
<1>5. QED
  BY <1>2, <1>3, <1>4, RestKeeps

-------------------------------------------------------------------------------
(* The steps of a scan.                                                    *)

\* A step that leaves the folders, the database and the control alone but for
\* the next step of the scan and the batch.
LEMMA ScanKeeps ==
  ASSUME MailInv,
         UNCHANGED <<box, up, cursor, rows, folder, cur, putback, junk, relist, heard,
                     arrived>>,
         sel' \in Folders \cup {"none"}, owed' \in BOOLEAN, exists' \in BOOLEAN,
         batch' \in Batches, pc \in Draining, pc' \in Draining, ScanTrue'
  PROVE  MailInv'
<1>1. MailTyped'
  BY DEF MailInv, MailTyped, Stages, Draining, Scanning
<1>2. Known' = Known
  BY DEF Known, IsRecorded
<1>3. RowsTrue' /\ CursorsTrue'
  BY <1>2 DEF MailInv, RowsTrue, CursorsTrue
<1>4. SignalKept'
  BY DEF MailInv, SignalKept, Draining, Scanning
<1>5. QED
  BY <1>1, <1>3, <1>4 DEF MailInv

LEMMA StartKeeps ==
  ASSUME MailInv, ReadCursor \/ Clear
  PROVE  MailInv'
<1>. USE DEF storeVars, serverVars, listVars, bounds
<1>1. ScanTrue'
  BY DEF MailInv, ScanTrue, ReadCursor, Clear, Scanning
<1>2. CASE ReadCursor
  <2>1. MailTyped' /\ SignalKept'
    BY <1>2 DEF MailInv, MailTyped, SignalKept, ReadCursor, Stages, Draining, Scanning
  <2>2. Known' = Known
    BY <1>2 DEF ReadCursor, Known, IsRecorded
  <2>3. RowsTrue' /\ CursorsTrue'
    BY <1>2, <2>2 DEF MailInv, RowsTrue, CursorsTrue, ReadCursor
  <2>4. QED
    BY <1>1, <2>1, <2>3 DEF MailInv
<1>3. CASE Clear
  <2>1. /\ sel \in Folders \cup {"none"} /\ owed \in BOOLEAN /\ batch \in Batches
        /\ pc \in Draining /\ pc' \in Draining /\ exists' \in BOOLEAN
    BY <1>3 DEF MailInv, MailTyped, Clear, Draining
  <2>2. QED
    BY <1>1, <1>3, <2>1, ScanKeeps DEF Clear
<1>4. QED
  BY <1>2, <1>3

LEMMA ExamineKeeps ==
  ASSUME MailInv, Examine
  PROVE  MailInv'
<1>. USE DEF storeVars, serverVars, listVars, bounds
<1>. DEFINE b == box[folder]
            n == Start(folder)
            t == Batch(<<>>, <<>>, n, FALSE)
<1>1. /\ MailTyped /\ IsBox(b) /\ b.here /\ up /\ folder \in Folders
      /\ cur \in Cursors /\ cur = cursor[folder] /\ Passed(cur, b, Known)
      /\ pc \in Draining /\ exists \in BOOLEAN
  BY DEF MailInv, MailTyped, ScanTrue, CursorsTrue, Examine, Draining
<1>2. /\ batch' = t /\ n \in Cursors /\ n.validity = b.validity
      /\ n.last = IF cur.validity = b.validity THEN cur.last ELSE 0
  BY <1>1, ExamineWrites DEF Start
<1>3. t \in Batches /\ t.got = <<>> /\ t.todo = <<>> /\ t.next = n
  <2>1. <<>> \in Seq(Nat) /\ <<>> \in Seq(FoundMails)
    OBVIOUS
  <2>2. QED
    BY <1>2, <2>1 DEF Batch, Batches
<1>4. Len(t.got) = 0 /\ Len(t.todo) = 0
  BY <1>3
<1>5. UNCHANGED <<box, up, cursor, rows, folder, cur, putback, junk, relist, heard,
                  arrived, exists>> /\ pc' = "search" /\ sel' = folder /\ owed' = FALSE
  BY DEF Examine
<1>. HIDE DEF n, t
<1>6. n.last < b.next /\ \A u \in DOMAIN b.mail : u <= n.last => b.mail[u] \in Known
  <2>1. CASE cur.validity = b.validity
    BY <1>1, <1>2, <2>1 DEF Passed
  <2>2. CASE cur.validity # b.validity
    BY <1>1, <1>2, <2>2 DEF IsBox
  <2>3. QED
    BY <2>1, <2>2
<1>7. Covered(t, b, Known)
  BY <1>1, <1>2, <1>3, <1>4, <1>6 DEF Covered, IsBox
<1>8. InUidOrder(t) /\ Agrees(t, folder, rows)
  BY <1>4 DEF InUidOrder, Agrees
<1>9. n.validity = cur.validity => n.last >= cur.last
  BY <1>1, <1>2 DEF Cursors
<1>10. Known' = Known
  BY <1>5 DEF Known, IsRecorded
<1>11. ScanTrue'
  BY <1>1, <1>2, <1>3, <1>5, <1>7, <1>8, <1>9, <1>10 DEF ScanTrue, Scanning
<1>12. QED
  BY <1>1, <1>2, <1>3, <1>5, <1>11, ScanKeeps DEF Draining, Scanning

LEMMA FirstsOf ==
  ASSUME NEW uids \in Seq(Nat)
  PROVE  /\ Firsts(uids) \in Seq(Nat) /\ Len(Firsts(uids)) \in Nat
         /\ Len(Firsts(uids)) <= Len(uids)
         /\ \A i \in 1..Len(Firsts(uids)) : Firsts(uids)[i] = uids[i]
<1>1. MaxBatch \in Nat /\ MaxBatch > 0 /\ Len(uids) \in Nat
  BY MailAssumption
<1>2. CASE Len(uids) > MaxBatch
  <2>1. /\ SubSeq(uids, 1, MaxBatch) \in Seq(Nat)
        /\ Len(SubSeq(uids, 1, MaxBatch)) = MaxBatch
        /\ \A i \in 1..MaxBatch : SubSeq(uids, 1, MaxBatch)[i] = uids[i]
    BY <1>1, <1>2
  <2>2. QED
    BY <1>1, <1>2, <2>1 DEF Firsts
<1>3. CASE ~(Len(uids) > MaxBatch)
  BY <1>1, <1>3 DEF Firsts
<1>4. QED
  BY <1>2, <1>3

LEMMA SearchKeeps ==
  ASSUME MailInv, Search
  PROVE  MailInv'
<1>. USE DEF storeVars, serverVars, listVars, bounds
<1>. DEFINE b == box[folder]
<1>1. /\ MailTyped /\ IsBox(b) /\ folder \in Folders /\ pc = "search" /\ up
      /\ batch \in Batches /\ batch.got \in Seq(FoundMails) /\ batch.next \in Cursors
      /\ exists \in BOOLEAN /\ sel \in Folders \cup {"none"} /\ owed \in BOOLEAN
  BY DEF MailInv, MailTyped, Search, Batches
<1>2. /\ cur = cursor[folder] /\ sel = folder /\ b.here
      /\ batch.next.validity = b.validity
      /\ Covered(batch, b, Known) /\ InUidOrder(batch) /\ Agrees(batch, folder, rows)
      /\ batch.next.validity = cur.validity => batch.next.last >= cur.last
  BY <1>1 DEF MailInv, ScanTrue, Scanning
<1>3. PICK uids \in InOrder(Above(folder, batch.next.last)) :
        batch' = Batch(Firsts(uids), batch.got, batch.next, Len(uids) > MaxBatch)
  BY <1>1, SearchWrites
<1>4. /\ uids \in Seq(Nat) /\ Len(uids) \in Nat
      /\ \A i \in 1..Len(uids) : uids[i] \in Above(folder, batch.next.last)
      /\ \A u \in Above(folder, batch.next.last) : \E i \in 1..Len(uids) : uids[i] = u
      /\ \A i, j \in 1..Len(uids) : i < j => uids[i] < uids[j]
  <2>1. Above(folder, batch.next.last) \in SUBSET Nat
    BY <1>1 DEF Above, IsBox
  <2>2. IsFiniteSet(Above(folder, batch.next.last))
    BY <1>1, FS_Subset DEF Above, IsBox
  <2>3. QED
    BY <2>1, <2>2, Listing
<1>. DEFINE q == Firsts(uids)
<1>5. /\ q \in Seq(Nat) /\ Len(q) \in Nat /\ Len(q) <= Len(uids)
      /\ \A i \in 1..Len(q) : q[i] = uids[i]
  BY <1>4, FirstsOf
<1>6. /\ batch' \in Batches
      /\ batch'.todo = q /\ batch'.got = batch.got /\ batch'.next = batch.next
  <2>1. batch' = Batch(q, batch.got, batch.next, Len(uids) > MaxBatch)
    BY <1>3
  <2>. HIDE DEF q
  <2>2. QED
    BY <1>1, <1>5, <2>1 DEF Batch, Batches
<1>. HIDE DEF q
<1>7. UNCHANGED <<box, up, sel, owed, cursor, rows, folder, cur, putback, junk, relist,
                  heard, arrived, exists>> /\ pc' = "fetch"
  BY DEF Search
<1>8. \A i \in 1..Len(q) : /\ q[i] \in DOMAIN b.mail /\ q[i] \in Nat
                          /\ q[i] > batch.next.last
  BY <1>1, <1>4, <1>5 DEF Above, IsBox
<1>9. \A i, j \in 1..Len(q) : i < j => q[i] < q[j]
  <2>1. \A i \in 1..Len(q) : i \in 1..Len(uids)
    BY <1>4, <1>5
  <2>2. QED
    BY <1>4, <1>5, <2>1
<1>10. InUidOrder(batch')
  BY <1>2, <1>6, <1>8, <1>9 DEF InUidOrder
<1>11. Searched(batch', b)
  <2>1. \A i \in 1..Len(q) : q[i] < b.next
    BY <1>1, <1>8 DEF IsBox
  <2>2. ASSUME NEW u \in DOMAIN b.mail, u > batch.next.last
        PROVE  (\E i \in 1..Len(q) : q[i] = u) \/ (\A i \in 1..Len(q) : q[i] < u)
    <3>1. PICK k \in 1..Len(uids) : uids[k] = u
      BY <1>4, <2>2 DEF Above
    <3>2. CASE k <= Len(q)
      <4>1. k \in 1..Len(q)
        BY <1>4, <1>5, <3>2
      <4>2. QED
        BY <1>5, <3>1, <4>1
    <3>3. CASE k > Len(q)
      <4>1. ASSUME NEW i \in 1..Len(q) PROVE i \in 1..Len(uids) /\ i < k
        BY <1>4, <1>5, <3>3
      <4>2. QED
        BY <1>4, <1>5, <3>1, <4>1
    <3>4. QED
      BY <1>4, <1>5, <3>2, <3>3
  <2>3. QED
    BY <1>6, <2>1, <2>2 DEF Searched
<1>12. Covered(batch', b, Known) /\ Agrees(batch', folder, rows)
  BY <1>2, <1>6 DEF Covered, Agrees
<1>13. Known' = Known
  BY <1>7 DEF Known, IsRecorded
<1>14. ScanTrue'
  BY <1>1, <1>2, <1>6, <1>7, <1>10, <1>11, <1>12, <1>13 DEF ScanTrue, Scanning
<1>15. QED
  BY <1>1, <1>6, <1>7, <1>14, ScanKeeps DEF Draining, Scanning

\* One more UID is dealt with: its mail joins the batch, or it is gone.
LEMMA NextUid ==
  ASSUME NEW b, IsBox(b), b.here, NEW K, NEW t \in Batches, t.todo # <<>>,
         t.next.validity = b.validity,
         Covered(t, b, K), InUidOrder(t), Searched(t, b),
         NEW g \in Seq(FoundMails),
         \/ Head(t.todo) \notin DOMAIN b.mail /\ g = t.got
         \/ /\ Head(t.todo) \in DOMAIN b.mail
            /\ g = Append(t.got, [uid |-> Head(t.todo), mail |-> b.mail[Head(t.todo)]]),
         NEW t2 \in Batches, t2.todo = Tail(t.todo), t2.got = g,
         t2.next = [validity |-> t.next.validity, last |-> Head(t.todo)]
  PROVE  /\ Covered(t2, b, K) /\ InUidOrder(t2) /\ Searched(t2, b)
         /\ t2.next.last >= t.next.last
<1>. DEFINE u == Head(t.todo)
            n == Len(t.got)
            k == Len(t.todo)
            q == Tail(t.todo)
<1>1. /\ t.todo \in Seq(Nat) /\ t.got \in Seq(FoundMails)
      /\ t.next.last \in Nat /\ t.next.validity \in Nat
  BY DEF Batches, Cursors
<1>2. /\ k \in Nat /\ k >= 1 /\ u = t.todo[1] /\ u \in Nat
      /\ Len(q) = k - 1 /\ Len(q) \in Nat
      /\ \A i \in 1..Len(q) : i + 1 \in 1..k /\ q[i] = t.todo[i + 1]
      /\ \A i \in 1..k : t.todo[i] \in Nat
  BY <1>1
<1>3. /\ n \in Nat /\ \A i \in 1..n : t.got[i].uid \in Nat
  <2>1. n \in Nat /\ \A i \in 1..n : t.got[i] \in FoundMails
    BY <1>1, ElementOfSeq
  <2>2. QED
    BY <2>1 DEF FoundMails
<1>4. /\ u > t.next.last /\ u < b.next /\ b.next \in Nat
      /\ \A i \in 2..k : t.todo[i] > u
      /\ \A i, j \in 1..k : i < j => t.todo[i] < t.todo[j]
      /\ \A i \in 1..k : t.todo[i] > t.next.last /\ t.todo[i] < b.next
  <2>1. 1 \in 1..k /\ \A i \in 2..k : i \in 1..k /\ 1 < i
    BY <1>2
  <2>2. QED
    BY <1>2, <2>1 DEF InUidOrder, Searched, IsBox
<1>5. /\ Len(g) \in Nat /\ Len(g) >= n
      /\ \A i \in 1..n : i \in 1..Len(g) /\ g[i] = t.got[i]
      /\ \A i \in 1..Len(g) :
           \/ i \in 1..n
           \/ i = n + 1 /\ g[i].uid = u /\ u \in DOMAIN b.mail /\ g[i].mail = b.mail[u]
      /\ u \in DOMAIN b.mail => \E i \in 1..Len(g) : g[i].uid = u
  <2>1. CASE u \notin DOMAIN b.mail
    BY <1>3, <2>1
  <2>2. CASE u \in DOMAIN b.mail
    <3>. DEFINE m == [uid |-> u, mail |-> b.mail[u]]
    <3>1. g = Append(t.got, m)
      BY <2>2
    <3>2. m.uid = u /\ m.mail = b.mail[u]
      OBVIOUS
    <3>. HIDE DEF m, u
    <3>3. /\ Len(g) = n + 1 /\ g[n + 1] = m /\ \A i \in 1..n : g[i] = t.got[i]
      BY <1>1, <1>3, <3>1
    <3>4. n + 1 \in 1..Len(g) /\ \A i \in 1..Len(g) : i \in 1..n \/ i = n + 1
      BY <1>3, <3>3
    <3>. HIDE DEF n
    <3>5. QED
      BY <1>3, <2>2, <3>2, <3>3, <3>4
  <2>3. QED
    BY <2>1, <2>2
<1>6. t2.next.last = u /\ t2.next.validity = b.validity
  OBVIOUS
<1>. HIDE DEF u, n, k, q
<1>7. Covered(t2, b, K)
  <2>1. \A i \in 1..Len(g) : IsAt(g[i].mail, b.validity, g[i].uid, b)
    <3>1. \A i \in 1..n : IsAt(t.got[i].mail, b.validity, t.got[i].uid, b)
      BY DEF Covered, n
    <3>2. u \in DOMAIN b.mail => IsAt(b.mail[u], b.validity, u, b)
      BY <1>4 DEF IsAt, IsBox
    <3>3. QED
      BY <1>5, <3>1, <3>2
  <2>2. ASSUME NEW w \in DOMAIN b.mail, w <= u
        PROVE  b.mail[w] \in K \/ \E i \in 1..Len(g) : g[i].uid = w
    <3>1. w \in Nat
      BY DEF IsBox
    <3>2. CASE w <= t.next.last
      <4>1. b.mail[w] \in K \/ \E i \in 1..n : t.got[i].uid = w
        BY <3>2 DEF Covered, n
      <4>2. QED
        BY <1>5, <4>1
    <3>3. CASE w > t.next.last
      <4>1. (\E i \in 1..k : t.todo[i] = w) \/ (\A i \in 1..k : t.todo[i] < w)
        BY <3>3 DEF Searched, k
      <4>2. 1 \in 1..k
        BY <1>2
      <4>3. \A i \in 1..k : i = 1 \/ i \in 2..k
        BY <1>2
      <4>4. w = u
        BY <1>2, <1>4, <2>2, <3>1, <4>1, <4>2, <4>3
      <4>5. QED
        BY <1>5, <4>4
    <3>4. QED
      BY <1>1, <3>1, <3>2, <3>3
  <2>3. b.validity \in Nat
    BY DEF IsBox
  <2>4. QED
    BY <1>4, <1>6, <2>1, <2>2, <2>3 DEF Covered
<1>8. InUidOrder(t2)
  <2>1. /\ \A i, j \in 1..n : i < j => t.got[i].uid < t.got[j].uid
        /\ \A i \in 1..n : t.got[i].uid <= t.next.last
    BY DEF InUidOrder, n
  <2>8. ASSUME NEW i \in 1..n PROVE t.got[i].uid < u
    <3>1. t.got[i].uid \in Nat /\ t.got[i].uid <= t.next.last
      BY <1>3, <2>1
    <3>2. t.next.last \in Nat /\ u \in Nat /\ u > t.next.last
      BY <1>1, <1>2, <1>4
    <3>3. QED
      BY <3>1, <3>2
  <2>2. ASSUME NEW i \in 1..Len(g) PROVE g[i].uid <= u
    <3>1. CASE i \in 1..n
      <4>1. g[i] = t.got[i] /\ t.got[i].uid < u /\ t.got[i].uid \in Nat /\ u \in Nat
        BY <1>2, <1>3, <1>5, <2>8, <3>1
      <4>2. QED
        BY <4>1
    <3>2. CASE i \notin 1..n
      <4>1. g[i].uid = u /\ u \in Nat
        BY <1>2, <1>5, <3>2
      <4>2. QED
        BY <4>1
    <3>3. QED
      BY <3>1, <3>2
  <2>3. ASSUME NEW i \in 1..Len(g), NEW j \in 1..Len(g), i < j
        PROVE  g[i].uid < g[j].uid
    <3>1. i \in 1..n
      BY <1>3, <1>5, <2>3
    <3>2. CASE j \in 1..n
      BY <1>5, <2>1, <2>3, <3>1, <3>2
    <3>3. CASE j \notin 1..n
      <4>1. g[j].uid = u /\ g[i] = t.got[i] /\ t.got[i].uid < u
        BY <1>5, <2>8, <3>1, <3>3
      <4>2. QED
        BY <4>1
    <3>4. QED
      BY <3>2, <3>3
  <2>4. \A i, j \in 1..Len(q) : i < j => q[i] < q[j]
    BY <1>2, <1>4
  <2>5. \A i \in 1..Len(q) : q[i] > u
    <3>1. \A i \in 1..Len(q) : i + 1 \in 2..k
      BY <1>2
    <3>2. QED
      BY <1>2, <1>4, <3>1
  <2>6. t2.todo = q
    BY DEF q
  <2>7. QED
    BY <1>6, <2>2, <2>3, <2>4, <2>5, <2>6 DEF InUidOrder
<1>9. Searched(t2, b)
  <2>1. \A i \in 1..Len(q) : q[i] < b.next
    BY <1>2, <1>4
  <2>2. ASSUME NEW w \in DOMAIN b.mail, w > u
        PROVE  (\E i \in 1..Len(q) : q[i] = w) \/ (\A i \in 1..Len(q) : q[i] < w)
    <3>1. w \in Nat
      BY DEF IsBox
    <3>2. (\E i \in 1..k : t.todo[i] = w) \/ (\A i \in 1..k : t.todo[i] < w)
      <4>1. w > t.next.last
        BY <1>1, <1>2, <1>4, <2>2, <3>1
      <4>2. QED
        BY <4>1 DEF Searched, k
    <3>3. CASE \A i \in 1..k : t.todo[i] < w
      BY <1>2, <3>3
    <3>4. CASE \E i \in 1..k : t.todo[i] = w
      <4>1. PICK i \in 1..k : t.todo[i] = w
        BY <3>4
      <4>2. i # 1
        BY <1>2, <2>2, <3>1, <4>1
      <4>3. i - 1 \in 1..Len(q) /\ q[i - 1] = t.todo[i]
        BY <1>2, <4>2
      <4>4. QED
        BY <4>1, <4>3
    <3>5. QED
      BY <3>2, <3>3, <3>4
  <2>3. t2.todo = q
    BY DEF q
  <2>4. QED
    BY <1>6, <2>1, <2>2, <2>3 DEF Searched
<1>10. QED
  BY <1>1, <1>2, <1>4, <1>6, <1>7, <1>8, <1>9

LEMMA FetchKeeps ==
  ASSUME MailInv, Fetch
  PROVE  MailInv'
<1>. USE DEF storeVars, serverVars, listVars, bounds
<1>. DEFINE b == box[folder]
            t == batch
<1>1. /\ MailTyped /\ IsBox(b) /\ folder \in Folders /\ pc = "fetch" /\ up
      /\ t \in Batches /\ t.todo \in Seq(Nat) /\ t.got \in Seq(FoundMails)
      /\ t.next \in Cursors /\ t.next.last \in Nat /\ t.next.validity \in Nat
      /\ exists \in BOOLEAN /\ sel \in Folders \cup {"none"} /\ owed \in BOOLEAN
      /\ cur \in Cursors
  BY DEF MailInv, MailTyped, Fetch, Batches, Cursors
<1>2. /\ cur = cursor[folder] /\ sel = folder /\ b.here
      /\ t.next.validity = b.validity
      /\ Covered(t, b, Known) /\ InUidOrder(t) /\ Agrees(t, folder, rows)
      /\ Searched(t, b)
      /\ t.next.validity = cur.validity => t.next.last >= cur.last
  BY <1>1 DEF MailInv, ScanTrue, Scanning
<1>3. UNCHANGED <<box, up, sel, owed, cursor, rows, folder, cur, putback, junk, relist,
                  heard, arrived, exists, pc>>
  BY DEF Fetch
<1>4. Known' = Known
  BY <1>3 DEF Known, IsRecorded
<1>5. SUFFICES /\ batch' \in Batches
               /\ batch'.next.validity = b.validity
               /\ batch'.next.last >= t.next.last /\ batch'.next.last \in Nat
               /\ Covered(batch', b, Known) /\ InUidOrder(batch')
               /\ Agrees(batch', folder, rows) /\ Searched(batch', b)
  <2>1. batch'.next.validity = cur.validity => batch'.next.last >= cur.last
    <3>1. cur.last \in Nat
      BY <1>1 DEF Cursors
    <3>2. QED
      BY <1>1, <1>2, <1>5, <3>1
  <2>2. ScanTrue'
    BY <1>1, <1>2, <1>3, <1>4, <1>5, <2>1 DEF ScanTrue, Scanning
  <2>3. QED
    BY <1>1, <1>3, <1>5, <2>2, ScanKeeps DEF Draining, Scanning
<1>. DEFINE u == Head(t.todo)
            new == [validity |-> t.next.validity, last |-> u]
<1>6. CASE batch' = Batch(<<>>, t.got, t.next, TRUE)
  <2>1. /\ batch' \in Batches
        /\ batch'.todo = <<>> /\ batch'.got = t.got /\ batch'.next = t.next
    <3>1. <<>> \in Seq(Nat)
      OBVIOUS
    <3>2. QED
      BY <1>1, <1>6, <3>1 DEF Batch, Batches
  <2>2. Len(batch'.todo) = 0
    BY <2>1
  <2>3. Covered(batch', b, Known) /\ Agrees(batch', folder, rows)
    BY <1>2, <2>1 DEF Covered, Agrees
  <2>4. InUidOrder(batch')
    BY <1>2, <2>1, <2>2 DEF InUidOrder
  <2>5. Searched(batch', b)
    BY <2>2 DEF Searched
  <2>6. QED
    BY <1>1, <1>2, <2>1, <2>3, <2>4, <2>5
<1>7. CASE t.todo # <<>> /\ batch'.todo = Tail(t.todo) /\ batch'.next = new
             /\ batch' \in Batches
             /\ \/ u \notin DOMAIN b.mail /\ batch'.got = t.got
                \/ /\ u \in DOMAIN b.mail
                   /\ batch'.got = Append(t.got, [uid |-> u, mail |-> b.mail[u]])
  <2>1. /\ Covered(batch', b, Known) /\ InUidOrder(batch') /\ Searched(batch', b)
        /\ batch'.next.last >= t.next.last
    <3>1. batch'.got \in Seq(FoundMails)
      BY <1>7 DEF Batches
    <3>2. QED
      BY <1>1, <1>2, <1>7, <3>1, NextUid
  <2>2. batch'.next.validity = b.validity /\ batch'.next.last \in Nat
    BY <1>2, <1>7 DEF Batches, Cursors
  <2>3. Agrees(batch', folder, rows)
    <3>. DEFINE g == batch'.got
                n == Len(t.got)
    <3>1. \A i \in 1..n : \A r \in rows :
            r.place = Place(folder, new, t.got[i].uid) => r.mail = t.got[i].mail
      BY <1>2 DEF Agrees, Place
    <3>2. \A r \in rows : r.place = Place(folder, new, u) /\ u \in DOMAIN b.mail
                            => r.mail = b.mail[u]
      BY <1>1, <1>2 DEF MailInv, RowsTrue, IsAt, Place
    <3>3. \A i \in 1..Len(g) :
            \/ i \in 1..n /\ g[i] = t.got[i]
            \/ g[i].uid = u /\ u \in DOMAIN b.mail /\ g[i].mail = b.mail[u]
      <4>. DEFINE m == [uid |-> u, mail |-> b.mail[u]]
      <4>1. CASE u \notin DOMAIN b.mail
        BY <1>7, <4>1
      <4>2. CASE u \in DOMAIN b.mail
        <5>1. g = Append(t.got, m) /\ m.uid = u /\ m.mail = b.mail[u]
          BY <1>7, <4>2
        <5>. HIDE DEF m, u, g
        <5>2. Len(g) = n + 1 /\ g[n + 1] = m /\ \A i \in 1..n : g[i] = t.got[i]
          BY <1>1, <5>1
        <5>3. n \in Nat /\ \A i \in 1..Len(g) : i \in 1..n \/ i = n + 1
          BY <1>1, <5>2
        <5>. HIDE DEF n
        <5>4. QED
          BY <4>2, <5>1, <5>2, <5>3
      <4>3. QED
        BY <4>1, <4>2
    <3>4. batch'.next = new
      BY <1>7
    <3>. HIDE DEF g, n, new, u
    <3>5. \A i \in 1..Len(g) : \A r \in rows :
            r.place = Place(folder, new, g[i].uid) => r.mail = g[i].mail
      BY <3>1, <3>2, <3>3
    <3>6. QED
      BY <3>4, <3>5 DEF Agrees, g
  <2>4. QED
    BY <1>1, <1>7, <2>1, <2>2, <2>3
<1>8. QED
  <2>1. \/ u \in DOMAIN b.mail /\ batch' = With(t, b)
        \/ u \notin DOMAIN b.mail /\ batch' = Past(t)
        \/ batch' = Batch(<<>>, t.got, t.next, TRUE)
    BY <1>1, FetchWrites
  <2>2. t.todo # <<>> /\ Tail(t.todo) \in Seq(Nat) /\ u \in Nat /\ t.more \in BOOLEAN
    BY <1>1, FetchWrites DEF Batches
  <2>3. new \in Cursors
    BY <1>1, <2>2 DEF Cursors
  <2>4. CASE u \notin DOMAIN b.mail /\ batch' = Past(t)
    <3>1. batch' = Batch(Tail(t.todo), t.got, new, t.more)
      BY <2>4 DEF Past
    <3>. HIDE DEF new, u
    <3>2. /\ batch' \in Batches /\ batch'.todo = Tail(t.todo) /\ batch'.next = new
          /\ batch'.got = t.got
      BY <1>1, <2>2, <2>3, <3>1 DEF Batch, Batches
    <3>3. QED
      BY <1>7, <2>2, <2>4, <3>2
  <2>5. CASE u \in DOMAIN b.mail /\ batch' = With(t, b)
    <3>. DEFINE m == [uid |-> u, mail |-> b.mail[u]]
    <3>1. batch' = Batch(Tail(t.todo), Append(t.got, m), new, t.more)
      BY <2>5 DEF With
    <3>2. m \in FoundMails
      BY <1>1, <2>2, <2>5 DEF FoundMails, IsBox
    <3>3. m = [uid |-> u, mail |-> b.mail[u]]
      OBVIOUS
    <3>. HIDE DEF new, u, m
    <3>4. Append(t.got, m) \in Seq(FoundMails)
      BY <1>1, <3>2
    <3>5. /\ batch' \in Batches /\ batch'.todo = Tail(t.todo) /\ batch'.next = new
          /\ batch'.got = Append(t.got, m)
      BY <1>1, <2>2, <2>3, <3>1, <3>4 DEF Batch, Batches
    <3>6. QED
      BY <1>7, <2>2, <2>5, <3>3, <3>5
  <2>6. QED
    BY <1>6, <2>1, <2>4, <2>5

LEMMA EndScanKeeps ==
  ASSUME MailInv, EndScan
  PROVE  MailInv'
<1>. USE DEF storeVars, serverVars, listVars, bounds
<1>1. /\ MailTyped /\ SignalKept /\ pc = "fetch" /\ pc \in Draining
      /\ up \in BOOLEAN /\ owed \in BOOLEAN /\ sel \in Folders \cup {"none"}
      /\ exists \in BOOLEAN /\ batch \in Batches
  BY DEF MailInv, MailTyped, EndScan, Draining, Scanning
<1>2. UNCHANGED <<box, up, sel, owed, cursor, rows, folder, cur, batch, junk, relist,
                  heard, arrived>>
  BY DEF EndScan
<1>3. CASE pc' = "handle" /\ UNCHANGED <<exists, putback>>
  <2>1. Known' = Known
    BY <1>2 DEF Known, IsRecorded
  <2>2. ScanTrue'
    BY <1>1, <1>2, <1>3, <2>1 DEF MailInv, ScanTrue, Scanning
  <2>3. QED
    BY <1>1, <1>2, <1>3, <2>2, ScanKeeps DEF Draining, Scanning
<1>4. CASE pc' = "cursor" /\ UNCHANGED <<exists, putback>>
  <2>1. MailTyped'
    BY <1>1, <1>2, <1>4 DEF MailTyped, Stages, Draining
  <2>2. SignalKept'
    BY <1>1, <1>2, <1>4 DEF SignalKept, Draining
  <2>3. QED
    BY <1>2, <1>4, <2>1, <2>2, RestKeeps DEF Scanning
<1>5. CASE Drained
  BY <1>1, <1>2, <1>5, DrainedEnds, EndKeeps
<1>6. QED
  BY <1>3, <1>4, <1>5 DEF EndScan

\* Recording the first mail of a batch: its place and its mail are new or known.
LEMMA RecordedRows ==
  ASSUME MailTyped, NEW f \in Folders, NEW c \in Cursors, NEW g \in FoundMails,
         ~Conflicts(Place(f, c, g.uid), g.mail),
         rows' = Recorded(Place(f, c, g.uid), g.mail)
  PROVE  /\ rows' \in SUBSET Rows /\ rows \subseteq rows'
         /\ \A r \in rows' \ rows : r.place = Place(f, c, g.uid) /\ r.mail = g.mail
         /\ \E r \in rows' : r.mail = g.mail
<1>. DEFINE place == Place(f, c, g.uid)
            new == [place |-> place, mail |-> g.mail]
<1>1. /\ place \in Places /\ g.mail \in Nat
  BY DEF Place, Places, Cursors, FoundMails
<1>. HIDE DEF place
<1>2. new \in Rows /\ new.place = place /\ new.mail = g.mail
  BY <1>1 DEF Rows
<1>3. rows \in SUBSET Rows
  BY DEF MailTyped
<1>4. CASE \E r \in rows : r.place = place \/ r.mail = g.mail
  <2>1. rows' = rows
    BY <1>4 DEF Recorded, place
  <2>2. \A r \in rows : r.place = place => r.mail = g.mail
    BY DEF Conflicts, place
  <2>3. QED
    BY <1>3, <1>4, <2>1, <2>2
<1>5. CASE ~\E r \in rows : r.place = place \/ r.mail = g.mail
  <2>1. rows' = rows \cup {new}
    BY <1>5 DEF Recorded, place
  <2>. HIDE DEF new
  <2>2. /\ rows' \in SUBSET Rows /\ rows \subseteq rows'
        /\ \A r \in rows' \ rows : r.place = place /\ r.mail = g.mail
        /\ \E r \in rows' : r.mail = g.mail
    BY <1>2, <1>3, <2>1
  <2>3. QED
    BY <2>2 DEF place
<1>6. QED
  BY <1>4, <1>5

LEMMA RecordKeeps ==
  ASSUME MailInv, RecordMail
  PROVE  MailInv'
<1>. USE DEF storeVars, serverVars, listVars, bounds
<1>. DEFINE b == box[folder]
            t == batch
            m == Head(t.got)
            q == Tail(t.got)
            n == Len(t.got)
<1>1. /\ MailTyped /\ IsBox(b) /\ folder \in Folders /\ pc = "handle"
      /\ t \in Batches /\ t.got \in Seq(FoundMails) /\ t.got # <<>>
      /\ t.todo \in Seq(Nat) /\ t.more \in BOOLEAN
      /\ t.next \in Cursors /\ t.next.last \in Nat /\ t.next.validity \in Nat
  BY DEF MailInv, MailTyped, RecordMail, Batches, Cursors
<1>2. /\ cur = cursor[folder]
      /\ Covered(t, b, Known) /\ InUidOrder(t) /\ Agrees(t, folder, rows)
      /\ t.next.validity = cur.validity => t.next.last >= cur.last
  BY <1>1 DEF MailInv, ScanTrue, Scanning
<1>3. /\ UNCHANGED <<box, up, sel, owed, cursor, pc, folder, cur, exists, putback, junk,
                     relist, heard, arrived>>
      /\ ~Conflicts(Place(folder, t.next, m.uid), m.mail)
      /\ rows' = Recorded(Place(folder, t.next, m.uid), m.mail)
  BY DEF RecordMail
<1>4. /\ n \in Nat /\ n >= 1 /\ m = t.got[1] /\ m \in FoundMails
      /\ q \in Seq(FoundMails) /\ Len(q) = n - 1 /\ Len(q) \in Nat
      /\ \A i \in 1..Len(q) : i + 1 \in 2..n /\ q[i] = t.got[i + 1]
      /\ \A i \in 2..n : i - 1 \in 1..Len(q) /\ q[i - 1] = t.got[i]
      /\ \A i \in 1..n : i = 1 \/ i \in 2..n
      /\ 1 \in 1..n /\ \A i \in 2..n : i \in 1..n /\ 1 < i
  BY <1>1
<1>5. /\ batch' \in Batches /\ batch'.todo = t.todo /\ batch'.got = q
      /\ batch'.next = t.next
  <2>1. batch' = Batch(t.todo, q, t.next, t.more)
    BY <1>1, RecordWrites
  <2>. HIDE DEF q
  <2>2. QED
    BY <1>1, <1>4, <2>1 DEF Batch, Batches
<1>6. /\ rows' \in SUBSET Rows /\ rows \subseteq rows'
      /\ \A r \in rows' \ rows : r.place = Place(folder, t.next, m.uid) /\ r.mail = m.mail
      /\ \E r \in rows' : r.mail = m.mail
  <2>. HIDE DEF m
  <2>1. QED
    BY <1>1, <1>3, <1>4, RecordedRows
<1>7. m.mail \in Known' /\ Known \subseteq Known'
  BY <1>4, <1>6 DEF Known, IsRecorded, FoundMails
<1>8. \A i \in 1..n : t.got[i] \in FoundMails /\ t.got[i].uid \in Nat
  <2>1. \A i \in 1..n : t.got[i] \in FoundMails
    BY <1>1, ElementOfSeq
  <2>2. QED
    BY <2>1 DEF FoundMails
<1>. HIDE DEF m, q, n
<1>9. MailTyped'
  BY <1>1, <1>3, <1>5, <1>6 DEF MailTyped
<1>10. SignalKept'
  BY <1>3 DEF MailInv, SignalKept
<1>11. CursorsTrue'
  <2>1. \A f \in Folders : Passed(cursor[f], box[f], Known')
    BY <1>1, <1>7, SameBoxLater, PassedLater DEF MailInv, MailTyped, CursorsTrue
  <2>2. QED
    BY <1>3, <2>1 DEF CursorsTrue
<1>12. RowsTrue'
  <2>1. IsAt(m.mail, t.next.validity, m.uid, b)
    BY <1>2, <1>4 DEF Covered, n
  <2>2. ASSUME NEW r \in rows'
        PROVE  IsAt(r.mail, r.place.validity, r.place.uid, box[r.place.folder])
    <3>1. CASE r \in rows
      BY <3>1 DEF MailInv, RowsTrue
    <3>2. CASE r \notin rows
      <4>1. /\ r.mail = m.mail /\ r.place.validity = t.next.validity
            /\ r.place.uid = m.uid /\ r.place.folder = folder
        BY <1>6, <3>2 DEF Place
      <4>2. QED
        BY <2>1, <4>1
    <3>3. QED
      BY <3>1, <3>2
  <2>3. QED
    BY <1>3, <2>2 DEF RowsTrue
<1>13. Covered(batch', b, Known')
  <2>1. \A i \in 1..Len(q) : IsAt(q[i].mail, t.next.validity, q[i].uid, b)
    BY <1>2, <1>4 DEF Covered, n
  <2>2. t.next.validity <= b.validity
    BY <1>2 DEF Covered
  <2>3. ASSUME t.next.validity = b.validity, b.here
        PROVE  t.next.last < b.next
    BY <1>2, <2>3 DEF Covered
  <2>4. ASSUME t.next.validity = b.validity, b.here, NEW u \in DOMAIN b.mail,
               u <= t.next.last
        PROVE  b.mail[u] \in Known' \/ \E i \in 1..Len(q) : q[i].uid = u
    <3>1. b.mail[u] \in Known \/ \E i \in 1..n : t.got[i].uid = u
      BY <1>2, <2>4 DEF Covered, n
    <3>2. CASE \E i \in 1..n : t.got[i].uid = u
      <4>1. PICK i \in 1..n : t.got[i].uid = u
        BY <3>2
      <4>2. CASE i = 1
        <5>1. b.mail[u] = m.mail
          BY <1>2, <1>4, <2>4, <4>1, <4>2 DEF Covered, IsAt, n
        <5>2. QED
          BY <1>7, <5>1
      <4>3. CASE i \in 2..n
        BY <1>4, <4>1, <4>3
      <4>4. QED
        BY <1>4, <4>2, <4>3
    <3>3. QED
      BY <1>7, <3>1, <3>2
  <2>5. QED
    BY <1>5, <2>1, <2>2, <2>3, <2>4 DEF Covered
<1>14. InUidOrder(batch')
  <2>1. \A i, j \in 1..Len(q) : i < j => q[i].uid < q[j].uid
    <3>1. ASSUME NEW i \in 1..Len(q), NEW j \in 1..Len(q), i < j
          PROVE  q[i].uid < q[j].uid
      <4>1. i + 1 \in 1..n /\ j + 1 \in 1..n /\ i + 1 < j + 1
        BY <1>4, <3>1
      <4>2. t.got[i + 1].uid < t.got[j + 1].uid
        BY <1>2, <4>1 DEF InUidOrder, n
      <4>3. QED
        BY <1>4, <4>2
    <3>2. QED
      BY <3>1
  <2>2. \A i \in 1..Len(q) : q[i].uid <= t.next.last
    BY <1>2, <1>4 DEF InUidOrder, n
  <2>3. QED
    BY <1>2, <1>5, <2>1, <2>2 DEF InUidOrder
<1>15. Agrees(batch', folder, rows')
  <2>1. ASSUME NEW i \in 1..Len(q), NEW r \in rows',
               r.place = Place(folder, t.next, q[i].uid)
        PROVE  r.mail = q[i].mail
    <3>1. i + 1 \in 2..n /\ i + 1 \in 1..n /\ q[i] = t.got[i + 1]
      BY <1>4
    <3>2. CASE r \in rows
      BY <1>2, <2>1, <3>1, <3>2 DEF Agrees, n
    <3>3. CASE r \notin rows
      <4>1. q[i].uid = m.uid
        <5>1. Place(folder, t.next, q[i].uid) = Place(folder, t.next, m.uid)
          BY <1>6, <2>1, <3>3
        <5>2. QED
          BY <5>1 DEF Place
      <4>2. m.uid < q[i].uid
        <5>1. 1 \in 1..n /\ 1 < i + 1
          BY <1>4, <3>1
        <5>2. t.got[1].uid < t.got[i + 1].uid
          BY <1>2, <3>1, <5>1 DEF InUidOrder, n
        <5>3. QED
          BY <1>4, <3>1, <5>2
      <4>3. q[i].uid \in Nat /\ m.uid \in Nat
        BY <1>4, <1>8, <3>1
      <4>4. QED
        BY <4>1, <4>2, <4>3
    <3>4. QED
      BY <3>2, <3>3
  <2>2. QED
    BY <1>5, <2>1 DEF Agrees
<1>16. ScanTrue'
  BY <1>1, <1>2, <1>3, <1>5, <1>13, <1>14, <1>15 DEF ScanTrue, Scanning
<1>17. QED
  BY <1>9, <1>10, <1>11, <1>12, <1>16 DEF MailInv

LEMMA AdvanceKeeps ==
  ASSUME MailInv, AdvanceCursor
  PROVE  MailInv'
<1>. USE DEF storeVars, serverVars, listVars, bounds
<1>1. /\ MailTyped /\ SignalKept /\ pc = "handle" /\ pc \in Draining
      /\ batch \in Batches /\ batch.next \in Cursors /\ batch.got = <<>>
      /\ Covered(batch, box[folder], Known)
      /\ cursor \in [Folders -> Cursors] /\ folder \in Folders
      /\ up \in BOOLEAN /\ owed \in BOOLEAN /\ sel \in Folders \cup {"none"}
      /\ exists \in BOOLEAN /\ putback \in BOOLEAN
  BY DEF MailInv, MailTyped, ScanTrue, AdvanceCursor, Draining, Scanning, Batches
<1>2. /\ UNCHANGED <<box, up, sel, owed, rows, folder, cur, batch, junk, relist, heard,
                     arrived>>
      /\ cursor' = [cursor EXCEPT ![folder] = batch.next]
  BY DEF AdvanceCursor
<1>3. Passed(batch.next, box[folder], Known)
  <2>1. Len(batch.got) = 0
    BY <1>1
  <2>2. QED
    BY <1>1, <2>1 DEF Covered, Passed
<1>4. Known' = Known
  BY <1>2 DEF Known, IsRecorded
<1>5. CursorsTrue'
  <2>1. \A f \in Folders : Passed(cursor'[f], box[f], Known)
    BY <1>1, <1>2, <1>3 DEF MailInv, CursorsTrue
  <2>2. QED
    BY <1>2, <1>4, <2>1 DEF CursorsTrue
<1>6. RowsTrue'
  BY <1>2 DEF MailInv, RowsTrue
<1>7. cursor' \in [Folders -> Cursors]
  BY <1>1, <1>2
<1>8. CASE pc' = "cursor" /\ UNCHANGED <<exists, putback>>
  <2>1. MailTyped'
    BY <1>1, <1>2, <1>7, <1>8 DEF MailTyped, Stages, Draining
  <2>2. SignalKept'
    BY <1>1, <1>2, <1>8 DEF SignalKept, Draining
  <2>3. ScanTrue'
    BY <1>8 DEF ScanTrue, Scanning
  <2>4. QED
    BY <1>5, <1>6, <2>1, <2>2, <2>3 DEF MailInv
<1>9. CASE Drained
  <2>1. Ended
    BY <1>1, <1>9, DrainedEnds
  <2>2. MailTyped'
    BY <1>1, <1>2, <1>7, <2>1 DEF MailTyped, Ended, Stages, Draining
  <2>3. SignalKept'
    BY <1>1, <1>2, <2>1 DEF SignalKept, Ended, Draining, Scanning
  <2>4. ScanTrue'
    BY <2>1 DEF ScanTrue, Ended, Scanning
  <2>5. QED
    BY <1>5, <1>6, <2>2, <2>3, <2>4 DEF MailInv
<1>10. QED
  BY <1>8, <1>9 DEF AdvanceCursor

-------------------------------------------------------------------------------
(* The invariant, and what follows from it.                                *)

LEMMA MailInitInv == MailInit => MailInv
<1>. SUFFICES ASSUME MailInit PROVE MailInv
  OBVIOUS
<1>1. PICK broken \in {FALSE, JunkMayBreak} :
        box = [f \in Folders |-> [here |-> f = "INBOX" \/ JunkExists,
                                  broken |-> f = "Junk" /\ broken,
                                  validity |-> 1, next |-> 1, mail |-> <<>>]]
  BY DEF MailInit
<1>2. broken \in BOOLEAN /\ JunkExists \in BOOLEAN
  BY MailAssumption
<1>3. ASSUME NEW f \in Folders
      PROVE  /\ IsBox(box[f]) /\ DOMAIN box[f].mail = {} /\ box[f].validity = 1
             /\ box[f].next = 1
  <2>. DEFINE b == box[f]
  <2>1. /\ b.mail = <<>> /\ b.validity = 1 /\ b.next = 1
        /\ b.here = (f = "INBOX" \/ JunkExists) /\ b.broken = (f = "Junk" /\ broken)
        /\ b = [here |-> b.here, broken |-> b.broken, validity |-> b.validity,
                next |-> b.next, mail |-> b.mail]
    BY <1>1, <1>3
  <2>2. DOMAIN b.mail = {} /\ b.mail \in [{} -> Nat]
    BY <2>1
  <2>3. b.here \in BOOLEAN /\ b.broken \in BOOLEAN
    BY <1>2, <2>1
  <2>. HIDE DEF b
  <2>4. IsBox(b)
    BY <2>1, <2>2, <2>3, FS_EmptySet DEF IsBox
  <2>5. QED
    BY <2>1, <2>2, <2>4 DEF b
<1>4. /\ cursor = [f \in Folders |-> NoCursor] /\ rows = {} /\ pc = "offline"
      /\ folder = "INBOX" /\ cur = NoCursor /\ batch = EmptyBatch /\ heard = {}
      /\ up = FALSE /\ sel = "none" /\ owed = FALSE /\ exists = FALSE /\ putback = FALSE
      /\ junk = TRUE /\ relist = FALSE /\ arrived = 0
  BY DEF MailInit
<1>5. MailTyped
  <2>1. box = [f \in Folders |-> box[f]]
    BY <1>1
  <2>2. "INBOX" \in Folders
    BY DEF Folders
  <2>3. cursor \in [Folders -> Cursors] /\ cur \in Cursors /\ batch \in Batches
    BY <1>4, EmptyBatchTyped
  <2>4. QED
    BY <1>3, <1>4, <2>1, <2>2, <2>3 DEF MailTyped, Stages
<1>6. CursorsTrue
  <2>1. \A f \in Folders : cursor[f].validity = 0
    BY <1>4 DEF NoCursor
  <2>2. QED
    BY <1>3, <2>1 DEF CursorsTrue, Passed
<1>7. RowsTrue /\ ScanTrue /\ SignalKept
  BY <1>4 DEF RowsTrue, ScanTrue, SignalKept, Scanning, Draining
<1>8. QED
  BY <1>5, <1>6, <1>7 DEF MailInv

LEMMA MailStepInv == MailInv /\ [MailNext]_mailVars => MailInv'
<1>. SUFFICES ASSUME MailInv, [MailNext]_mailVars PROVE MailInv'
  OBVIOUS
<1>1. CASE ServerStep \/ Serve \/ Crash
  BY <1>1, ServerKeeps, ServeKeeps
<1>2. CASE Drain
  BY <1>2, StartKeeps, ExamineKeeps, SearchKeeps, FetchKeeps, EndScanKeeps, RecordKeeps,
     AdvanceKeeps, FailKeeps DEF Drain
<1>3. CASE UNCHANGED mailVars
  <2>1. /\ UNCHANGED <<box, cursor, rows>> /\ UNCHANGED <<up, sel, owed, pc, folder, cur>>
        /\ UNCHANGED <<batch, exists, putback, junk, relist, heard, arrived>>
    BY <1>3 DEF mailVars, serverVars, storeVars, listVars, bounds
  <2>2. MailTyped' /\ SignalKept'
    BY <2>1 DEF MailInv, MailTyped, SignalKept
  <2>3. Known' = Known
    BY <2>1 DEF Known, IsRecorded
  <2>4. RowsTrue' /\ CursorsTrue' /\ ScanTrue'
    BY <2>1, <2>3 DEF MailInv, RowsTrue, CursorsTrue, ScanTrue
  <2>5. QED
    BY <2>2, <2>4 DEF MailInv
<1>4. QED
  BY <1>1, <1>2, <1>3 DEF MailNext, ServerStep

\* The inductive invariant: what is persisted is true of the folders, what a
\* scan holds is complete up to its next cursor, and while a search is worked
\* off on a live connection the folder it is about is the selected one and has
\* kept its UIDVALIDITY.
THEOREM MailInvariant == MailSpec => []MailInv
<1>1. QED
  BY MailInitInv, MailStepInv, PTL DEF MailSpec

\* Whatever a folder still holds at or below the persisted cursor has been
\* recorded: SearchNew's filter, Fetch's limits, Handle's order (the replies
\* first, the cursor after them) and drain's restarts skip no mail.
THEOREM NoMailSkipped == MailSpec => []NothingSkipped
<1>1. MailInv => NothingSkipped
  <2>. SUFFICES ASSUME MailInv, NEW f \in Folders, cursor[f].validity = box[f].validity,
                       NEW u \in DOMAIN box[f].mail, u <= cursor[f].last
                PROVE  IsRecorded(box[f].mail[u])
    BY DEF NothingSkipped
  <2>1. IsBox(box[f]) /\ Passed(cursor[f], box[f], Known)
    BY DEF MailInv, MailTyped, CursorsTrue
  <2>2. box[f].here
    BY <2>1 DEF IsBox
  <2>3. QED
    BY <2>1, <2>2 DEF Passed, Known
<1>2. QED
  BY <1>1, MailInvariant, PTL

\* RecordReply never meets one place with two mails (ErrMessageConflict) and
\* AdvanceCursor is never asked to move the cursor back: neither refuses what
\* a Scan found, so only faults keep a batch from being recorded.
THEOREM NoScanRefused == MailSpec => []NeverRefused
<1>1. MailInv => NeverRefused
  <2>. SUFFICES ASSUME MailInv, pc = "handle" PROVE ~Refused
    BY DEF NeverRefused
  <2>1. /\ folder \in Folders /\ batch \in Batches /\ cur = cursor[folder]
        /\ cur \in Cursors /\ Agrees(batch, folder, rows)
        /\ batch.next.validity = cur.validity => batch.next.last >= cur.last
    BY DEF MailInv, MailTyped, ScanTrue, Scanning
  <2>2. ASSUME batch.got # <<>>
        PROVE  ~Conflicts(Place(folder, batch.next, Head(batch.got).uid), Head(batch.got).mail)
    <3>1. batch.got \in Seq(FoundMails)
      BY <2>1 DEF Batches
    <3>2. Head(batch.got) = batch.got[1] /\ 1 \in 1..Len(batch.got)
      BY <2>2, <3>1
    <3>3. QED
      BY <2>1, <3>2 DEF Agrees, Conflicts
  <2>3. Advances(cursor[folder], batch.next)
    BY <2>1 DEF Advances
  <2>4. QED
    BY <2>2, <2>3 DEF Refused
<1>2. QED
  BY <1>1, MailInvariant, PTL

\* When the watcher goes to IDLE, the mails that a signal announced before
\* Junk's Scan emptied the channel are recorded: drainJunk's deferred signal
\* makes another round of INBOX first.
THEOREM HeardMailRecorded == MailSpec => []HeardMailIsNotMissed
<1>1. MailInv => HeardMailIsNotMissed
  BY DEF MailInv, SignalKept, HeardMailIsNotMissed
<1>2. QED
  BY <1>1, MailInvariant, PTL
===============================================================================
