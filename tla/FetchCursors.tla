------------------------------ MODULE FetchCursors -----------------------------
(***************************************************************************)
(* Several processes collect one folder into one database: each reads the    *)
(* folder's fetch cursor, scans from it, records what it found and moves the *)
(* cursor (internal/store/sqlite/mailbox.go, driven as drain in             *)
(* internal/mail/imap/watcher.go drives it).  Steps of different processes   *)
(* interleave, the folder is rebuilt under a new UIDVALIDITY, and a process  *)
(* may die anywhere.  The store promises that none of this lets a cursor go  *)
(* back; MailFetch has a single process but all of the connection's faults.  *)
(***************************************************************************)
EXTENDS Mailbox

CONSTANTS Procs,        \* processes with the database open
          Reasons,      \* reasons for rejecting a mail
          MaxBatch,     \* mails in one Scan
          MaxMails,     \* bound: mails that ever arrive
          MaxValidity,  \* bound: UIDVALIDITY values
          MaxFaults     \* bound: deletions and crashes

ASSUME CursorsAssumption ==
  /\ MaxBatch \in Nat \ {0}
  /\ {MaxMails, MaxValidity, MaxFaults} \subseteq Nat

VARIABLES
  box,         \* server: UIDVALIDITY, UIDNEXT and the mail by UID
  cursor,      \* database: the folder's row of fetch_cursors, or NoCursor
  replies,     \* database: mails recorded by RecordReply
  rejections,  \* database: inbound_rejections, by place
  pc,          \* of a process: "rest", "read", "scan" or "handle"
  cur,         \* the cursor its Scan started from
  batch,       \* mails still to record, the next cursor, and whether more waits
  arrived, faults

server == <<box, arrived>>
database == <<cursor, replies, rejections>>
process == <<pc, cur, batch>>
cursorVars == <<server, database, process, faults>>

EmptyBatch == [got |-> <<>>, next |-> NoCursor, more |-> FALSE]
Fault == faults < MaxFaults /\ faults' = faults + 1

-------------------------------------------------------------------------------
(* The server.                                                             *)

Arrive ==
  /\ arrived < MaxMails
  /\ arrived' = arrived + 1
  /\ box' = [box EXCEPT !.next = @ + 1,
                        !.mail = [u \in DOMAIN @ \cup {box.next} |->
                                    IF u = box.next THEN arrived + 1 ELSE @[u]]]
  /\ UNCHANGED <<database, process, faults>>

Expunge ==
  /\ Fault
  /\ \E u \in DOMAIN box.mail :
       box' = [box EXCEPT !.mail = [v \in DOMAIN @ \ {u} |-> @[v]]]
  /\ UNCHANGED <<arrived, database, process>>

\* New UIDs in the old order, under a greater UIDVALIDITY.
Rebuild ==
  /\ box.validity < MaxValidity
  /\ \E uids \in InOrder(DOMAIN box.mail) :
       box' = [validity |-> box.validity + 1, next |-> Len(uids) + 1,
               mail |-> [i \in DOMAIN uids |-> box.mail[uids[i]]]]
  /\ UNCHANGED <<arrived, database, process, faults>>

-------------------------------------------------------------------------------
(* The processes.                                                          *)

HasNew == cursor.validity # box.validity \/ cursor.last + 1 < box.next

\* What a drain had in its variables goes with it.
Rest(p) ==
  /\ pc' = [pc EXCEPT ![p] = "rest"]
  /\ cur' = [cur EXCEPT ![p] = NoCursor]
  /\ batch' = [batch EXCEPT ![p] = EmptyBatch]

GoTo(p, step) ==
  /\ pc' = [pc EXCEPT ![p] = step]
  /\ batch' = [batch EXCEPT ![p] = EmptyBatch]
  /\ UNCHANGED cur

\* drain begins; a process that would find nothing may as well stay at rest.
StartDrain(p) ==
  /\ pc[p] = "rest" /\ HasNew
  /\ pc' = [pc EXCEPT ![p] = "read"]
  /\ UNCHANGED <<server, database, cur, batch, faults>>

\* The caller takes ErrNotFound for a cursor that has seen nothing.
FetchCursor(p) ==
  /\ pc[p] = "read"
  /\ cur' = [cur EXCEPT ![p] = cursor]
  /\ pc' = [pc EXCEPT ![p] = "scan"]
  /\ UNCHANGED <<server, database, batch, faults>>

\* Goes on from the old UID although the folder has been rebuilt.
StartOfFaulty(c, validity) == c.last

StartOf(c, validity) == IF c.validity = validity THEN c.last ELSE 0

\* EXAMINE, UID SEARCH and the fetches, on a folder that holds still meanwhile.
Scan(p) ==
  /\ pc[p] = "scan"
  /\ LET from == StartOf(cur[p], box.validity)
     IN  \E uids \in InOrder({u \in DOMAIN box.mail : u > from}) :
           LET n == IF Len(uids) > MaxBatch THEN MaxBatch ELSE Len(uids)
               next == [validity |-> box.validity,
                        last |-> IF n = 0 THEN from ELSE uids[n]]
           IN  IF n = 0 /\ next = cur[p] THEN Rest(p)
               ELSE /\ batch' = [batch EXCEPT ![p] =
                         [got |-> [i \in 1..n |->
                                     [uid |-> uids[i], mail |-> box.mail[uids[i]]]],
                          next |-> next, more |-> Len(uids) > MaxBatch]]
                    /\ pc' = [pc EXCEPT ![p] = "handle"]
                    /\ UNCHANGED cur
  /\ UNCHANGED <<server, database, faults>>

Place(p, m) == <<batch[p].next.validity, m.uid>>

\* An earlier rejection at this place stays as it is.
RecordRejection(place, m, reason) ==
  /\ rejections' = IF place \in DOMAIN rejections THEN rejections
                   ELSE [q \in DOMAIN rejections \cup {place} |->
                           IF q = place THEN [mail |-> m, reason |-> reason]
                           ELSE rejections[q]]
  /\ UNCHANGED replies

\* RecordReply: a mail that is known already is not recorded again.
RecordReply(m) ==
  /\ replies' = replies \cup {m}
  /\ UNCHANGED rejections

Handle(p) ==
  /\ pc[p] = "handle" /\ batch[p].got # <<>>
  /\ LET m == Head(batch[p].got)
     IN  \/ RecordReply(m.mail)
         \/ \E reason \in Reasons : RecordRejection(Place(p, m), m.mail, reason)
  /\ batch' = [batch EXCEPT ![p].got = Tail(@)]
  /\ UNCHANGED <<server, cursor, pc, cur, faults>>

\* Compares with the row the process read when its drain began.
AdvancesFaulty(p) ==
  \/ cur[p].validity # batch[p].next.validity
  \/ batch[p].next.last >= cur[p].last

\* The WHERE of the UPSERT, against the row as it is now.
Advances(p) ==
  \/ batch[p].next.validity # cursor.validity
  \/ batch[p].next.last >= cursor.last

AdvanceCursor(p) ==
  /\ pc[p] = "handle" /\ batch[p].got = <<>>
  /\ Advances(p)
  /\ cursor' = batch[p].next
  /\ IF batch[p].more THEN GoTo(p, "read") ELSE Rest(p)
  /\ UNCHANGED <<server, replies, rejections, faults>>

\* Scans again from where it scanned before.
RetriedFaulty == "scan"

\* A local failure: drain waits and begins again with the cursor.
Retried == "read"

\* ErrCursorRegression: no row was written.
Regress(p) ==
  /\ pc[p] = "handle" /\ batch[p].got = <<>>
  /\ ~Advances(p)
  /\ GoTo(p, Retried)
  /\ UNCHANGED <<server, database, faults>>

Crash(p) ==
  /\ pc[p] # "rest" /\ Fault
  /\ Rest(p)
  /\ UNCHANGED <<server, database>>

-------------------------------------------------------------------------------
CursorInit ==
  /\ box = [validity |-> 1, next |-> 1, mail |-> <<>>]
  /\ cursor = NoCursor /\ replies = {} /\ rejections = <<>>
  /\ pc = [p \in Procs |-> "rest"]
  /\ cur = [p \in Procs |-> NoCursor] /\ batch = [p \in Procs |-> EmptyBatch]
  /\ arrived = 0 /\ faults = 0

Step(p) == \/ StartDrain(p) \/ FetchCursor(p) \/ Scan(p) \/ Handle(p)
           \/ AdvanceCursor(p) \/ Regress(p)

CursorNext == \/ Arrive \/ Expunge \/ Rebuild
              \/ \E p \in Procs : Step(p) \/ Crash(p)

CursorSpec == CursorInit /\ [][CursorNext]_cursorVars

\* Every process goes on; the server and the faults owe nothing.
FairCursorSpec == CursorSpec /\ \A p \in Procs : WF_cursorVars(Step(p))

-------------------------------------------------------------------------------
(* Properties.                                                             *)

IsHandled(m) ==
  m \in replies \/ \E q \in DOMAIN rejections : rejections[q].mail = m

\* Whatever the folder holds at or below the cursor is recorded as a reply or
\* as a rejection, whichever of the processes moved the cursor there and from
\* however old a scan: nobody will look at those UIDs again.
PassedMailIsHandled ==
  cursor.validity = box.validity =>
    \A u \in DOMAIN box.mail : u <= cursor.last => IsHandled(box.mail[u])

\* The slower of two processes never takes a cursor back within one UIDVALIDITY.
CursorOnlyAdvances ==
  [][cursor'.validity = cursor.validity => cursor'.last >= cursor.last]_cursorVars

\* A process that lost the race finds its way back: it does not repeat the
\* refused batch for ever.
DrainsEnd == \A p \in Procs : pc[p] # "rest" ~> pc[p] = "rest"
===============================================================================
