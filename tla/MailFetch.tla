------------------------------- MODULE MailFetch ------------------------------
(***************************************************************************)
(* Receiving mail: the Watcher of internal/mail/imap/watcher.go drains     *)
(* INBOX and then Junk through a Session (session.go), with cursors and     *)
(* records persisted by internal/store/sqlite (mailbox.go, replies.go), and *)
(* waits for new mail with IDLE or by polling.  The server, the decoder     *)
(* goroutine's EXISTS signal, lost connections, local failures and process  *)
(* crashes interleave with it.  The handler that records a batch is not in  *)
(* the source: it follows the contract of Watcher.Handle.                   *)
(***************************************************************************)
EXTENDS Mailbox

CONSTANTS JunkExists,     \* the server has a Junk folder to begin with
          JunkChanges,    \* it may be created and deleted later
          JunkMayBreak,   \* it may be one that fails without end
          IdleOffers,     \* whether a login may find IDLE among the capabilities
          JunkFailLimit,  \* junkFailLimit
          MaxBatch,       \* MaxBatch, mails in one Scan
          MaxMails,       \* bound: mails that ever arrive
          MaxUid,         \* bound: UIDs a folder hands out
          MaxValidity,    \* bound: UIDVALIDITY values of a folder
          MaxFaults       \* bound: faults of all kinds, taken together

ASSUME MailAssumption ==
  /\ {JunkExists, JunkChanges, JunkMayBreak} \subseteq BOOLEAN
  /\ IdleOffers \subseteq BOOLEAN /\ IdleOffers # {}
  /\ {JunkFailLimit, MaxBatch} \subseteq Nat \ {0}
  /\ {MaxMails, MaxUid, MaxValidity, MaxFaults} \subseteq Nat

Folders == {"INBOX"} \cup (IF JunkExists \/ JunkChanges THEN {"Junk"} ELSE {})

VARIABLES
  box,      \* server: of each folder whether it is there and whether its
            \* failures never end, its UIDVALIDITY, its UIDNEXT and its mail
            \* by UID
  up,       \* the connection is alive at both ends
  sel,      \* server: the folder this connection has selected
  owed,     \* server: mail arrived in sel that no EXISTS has announced
  cursor,   \* database: fetch_cursors
  rows,     \* database: inbound_messages, and so the replies
  pc,       \* the watcher's next step
  folder,   \* the folder being drained
  cur,      \* the cursor this Scan started from
  batch,    \* the Batch under construction or in Handle's hands
  exists,   \* Session.exists holds a signal
  putback,  \* drainJunk deferred signal(s.exists)
  junk,     \* runner: the last LIST had Junk, TRUE to begin with
  relist,   \* an hour has passed since this connection's last LIST
  junkFails, junkOff, junkDue,  \* runner: Junk's degradation; its hour is over
  local,    \* local failures in this drain
  idleTimeouts, idleOff,        \* runner: IDLE's degradation
  canIdle,  \* the Session's caps have IDLE
  heard,    \* history: INBOX mails announced before this round's Junk scan
  arrived,  \* how many mails have arrived
  faults

serverVars == <<box, up, sel, owed>>
storeVars == <<cursor, rows>>
junkVars == <<junkFails, junkOff, junkDue>>
listVars == <<junk, relist>>
idleVars == <<idleTimeouts, idleOff, canIdle>>
bounds == <<arrived, faults>>
mailVars == <<serverVars, storeVars, pc, folder, cur, batch, exists, putback,
              listVars, junkVars, local, idleVars, heard, bounds>>

MailsIn(f) == {box[f].mail[u] : u \in DOMAIN box[f].mail}
EmptyBatch == [todo |-> <<>>, got |-> <<>>, next |-> NoCursor, more |-> FALSE]

Fault == faults < MaxFaults /\ faults' = faults + 1

-------------------------------------------------------------------------------
(* The store.                                                              *)

Place(f, c, u) == [folder |-> f, validity |-> c.validity, uid |-> u]

\* A place that already holds another mail is refused (ErrMessageConflict).
Conflicts(place, m) == \E r \in rows : r.place = place /\ r.mail # m

\* RecordReply finds a known mail by its place or by its Message-ID, in
\* whatever folder, and then inserts nothing.
Recorded(place, m) ==
  IF \E r \in rows : r.place = place \/ r.mail = m THEN rows
  ELSE rows \cup {[place |-> place, mail |-> m]}

\* AdvanceCursor's UPSERT: within one UIDVALIDITY the cursor never goes back.
Advances(old, new) ==
  new.validity # old.validity \/ new.last >= old.last

-------------------------------------------------------------------------------
(* The server.                                                             *)

Deliverable(f) == box[f].here /\ box[f].next <= MaxUid

Stored(f, m) ==
  [box[f] EXCEPT !.next = @ + 1,
                 !.mail = [u \in DOMAIN @ \cup {box[f].next} |->
                             IF u = box[f].next THEN m ELSE @[u]]]

Without(f, u) ==
  [box[f] EXCEPT !.mail = [v \in DOMAIN @ \ {u} |-> @[v]]]

Rebuilt(f, uids) ==
  [here |-> TRUE, broken |-> box[f].broken, validity |-> box[f].validity + 1,
   next |-> Len(uids) + 1, mail |-> [i \in DOMAIN uids |-> box[f].mail[uids[i]]]]

\* A folder that is there is deleted with its mail; one that is not is created.
Toggled(f) ==
  [here |-> ~box[f].here, broken |-> box[f].broken, next |-> 1, mail |-> <<>>,
   validity |-> box[f].validity + IF box[f].here THEN 0 ELSE 1]

Owes(f) == owed \/ (up /\ sel = f)

Arrive(f) ==
  /\ arrived < MaxMails /\ Deliverable(f)
  /\ arrived' = arrived + 1
  /\ box' = [box EXCEPT ![f] = Stored(f, arrived + 1)]
  /\ owed' = Owes(f)
  /\ UNCHANGED <<up, sel, storeVars, pc, folder, cur, batch, exists, putback,
                 listVars, junkVars, local, idleVars, heard, faults>>

\* Somebody deletes a mail, or finds it in Junk and moves it to INBOX.
Expunge(f) ==
  /\ Fault
  /\ \E u \in DOMAIN box[f].mail : box' = [box EXCEPT ![f] = Without(f, u)]
  /\ UNCHANGED <<up, sel, owed, storeVars, pc, folder, cur, batch, exists,
                 putback, listVars, junkVars, local, idleVars, heard, arrived>>

Rescue ==
  /\ "Junk" \in Folders /\ Deliverable("INBOX") /\ Fault
  /\ \E u \in DOMAIN box["Junk"].mail :
       box' = [box EXCEPT !["INBOX"] = Stored("INBOX", box["Junk"].mail[u]),
                          !["Junk"] = Without("Junk", u)]
  /\ owed' = Owes("INBOX")
  /\ UNCHANGED <<up, sel, storeVars, pc, folder, cur, batch, exists, putback,
                 listVars, junkVars, local, idleVars, heard, arrived>>

\* The folder is rebuilt: a greater UIDVALIDITY and new UIDs in the old order.
\* A connection that has it selected does not survive.
Rebuild(f) ==
  /\ box[f].here /\ box[f].validity < MaxValidity /\ Fault
  /\ \E uids \in InOrder(DOMAIN box[f].mail) :
       box' = [box EXCEPT ![f] = Rebuilt(f, uids)]
  /\ up' = (up /\ sel # f)
  /\ UNCHANGED <<sel, owed, storeVars, pc, folder, cur, batch, exists,
                 putback, listVars, junkVars, local, idleVars, heard, arrived>>

\* Junk is deleted, or created anew with another UIDVALIDITY.
ChangeJunk ==
  /\ JunkChanges /\ Fault
  /\ box["Junk"].here \/ box["Junk"].validity < MaxValidity
  /\ box' = [box EXCEPT !["Junk"] = Toggled("Junk")]
  /\ up' = (up /\ sel # "Junk")
  /\ UNCHANGED <<sel, owed, storeVars, pc, folder, cur, batch, exists,
                 putback, listVars, junkVars, local, idleVars, heard, arrived>>

\* The decoder goroutine reads an EXISTS outside EXAMINE: signal(exists).
Push ==
  /\ up /\ owed
  /\ owed' = FALSE /\ exists' = TRUE
  /\ UNCHANGED <<box, up, sel, storeVars, pc, folder, cur, batch, putback,
                 listVars, junkVars, local, idleVars, heard, bounds>>

Drop ==
  /\ up /\ Fault
  /\ up' = FALSE
  /\ UNCHANGED <<box, sel, owed, storeVars, pc, folder, cur, batch, exists,
                 putback, listVars, junkVars, local, idleVars, heard, arrived>>

\* junkRetryAt passes.
HourPasses ==
  /\ junkOff /\ ~junkDue
  /\ junkDue' = TRUE
  /\ UNCHANGED <<serverVars, storeVars, pc, folder, cur, batch, exists,
                 putback, junkFails, junkOff, listVars, local, idleVars,
                 heard, bounds>>

\* relistInterval passes since this connection's last LIST, during some round.
RelistDue ==
  /\ JunkChanges /\ ~relist
  /\ pc \notin {"offline", "list", "loop"}
  /\ relist' = TRUE
  /\ UNCHANGED <<serverVars, storeVars, pc, folder, cur, batch, exists,
                 putback, junk, junkVars, local, idleVars, heard, bounds>>

-------------------------------------------------------------------------------
(* The watcher: Run and serve.                                             *)

\* Dial; a new Session has an empty channel, selects nothing and knows from its
\* login whether the server has IDLE.
Connect ==
  /\ pc = "offline"
  /\ pc' = "list"
  /\ up' = TRUE /\ sel' = "none" /\ owed' = FALSE /\ exists' = FALSE
  /\ canIdle' \in IdleOffers
  /\ UNCHANGED <<box, storeVars, folder, cur, batch, putback, listVars,
                 junkVars, local, idleTimeouts, idleOff, heard, bounds>>

\* A folder that was missing once is not looked for again.
ListedFaulty == junk' = (junk /\ "Junk" \in Folders /\ box["Junk"].here)

Listed == junk' = ("Junk" \in Folders /\ box["Junk"].here)

\* LIST after login, and again when the last one is an hour old.
List ==
  /\ pc = "list" \/ (pc = "loop" /\ relist)
  /\ up
  /\ Listed /\ relist' = FALSE
  /\ pc' = "loop"
  /\ UNCHANGED <<serverVars, storeVars, folder, cur, batch, exists, putback,
                 junkVars, local, idleVars, heard, bounds>>

\* The degradation is lifted by the clock, not by a new LIST.
Restored ==
  IF junkOff /\ junkDue THEN junkOff' = FALSE /\ junkFails' = 0
  ELSE junkOff' = junkOff /\ junkFails' = junkFails

StartRound ==
  /\ pc = "loop" /\ ~relist
  /\ Restored
  /\ junkDue' = (junkOff' /\ junkDue)
  /\ folder' = "INBOX" /\ local' = 0 /\ heard' = {}
  /\ pc' = "cursor"
  /\ UNCHANGED <<serverVars, storeVars, cur, batch, exists, putback,
                 idleVars, listVars, bounds>>

\* The top of drainJunk: remember a signal that Junk's Scan would discard.
StartJunk ==
  /\ pc = "junk"
  /\ putback' = exists
  /\ heard' = IF exists THEN MailsIn("INBOX") ELSE {}
  /\ folder' = "Junk" /\ local' = 0
  /\ pc' = "cursor"
  /\ UNCHANGED <<serverVars, storeVars, cur, batch, exists, listVars,
                 junkVars, idleVars, bounds>>

\* The limit-th failure in a row switches Junk off for relistInterval.
Degrade ==
  /\ junkFails' = junkFails + 1
  /\ junkOff' = (junkFails' >= JunkFailLimit)
  /\ junkDue' = FALSE

PutBackSignalFaulty == exists' = exists

PutBackSignal == exists' = (exists \/ putback)

LeaveJunk ==
  /\ pc' = "reselect"
  /\ PutBackSignal
  /\ putback' = FALSE

\* drain returns without an error.
Drained ==
  IF folder = "INBOX"
  THEN /\ pc' = IF junk /\ ~junkOff THEN "junk" ELSE "wait"
       /\ UNCHANGED <<exists, putback, junkVars>>
  ELSE /\ LeaveJunk
       /\ junkFails' = 0
       /\ UNCHANGED <<junkOff, junkDue>>

Disconnect ==
  /\ up' = FALSE
  /\ pc' = "offline"
  /\ UNCHANGED <<exists, putback, junkVars>>

ListFails ==
  /\ pc = "list" \/ (pc = "loop" /\ relist)
  /\ IF up THEN Fault ELSE UNCHANGED faults
  /\ Disconnect
  /\ UNCHANGED <<box, sel, owed, storeVars, folder, cur, batch, listVars,
                 local, idleVars, heard, arrived>>

\* drain returns an error: INBOX's ends the connection, Junk's only skips it
\* this round and counts unless the connection was closed (ErrClosed).
DrainFails(kind) ==
  IF folder = "INBOX" THEN Disconnect
  ELSE /\ LeaveJunk
       /\ up' = (up /\ kind # "timeout")
       /\ IF kind = "closed" THEN UNCHANGED junkVars ELSE Degrade

-------------------------------------------------------------------------------
(* drain and Scan.                                                         *)

ReadCursor ==
  /\ pc = "cursor"
  /\ cur' = cursor[folder]
  /\ pc' = "clear"
  /\ UNCHANGED <<serverVars, storeVars, folder, batch, exists, putback,
                 listVars, junkVars, local, idleVars, heard, bounds>>

\* Scan empties the channel before EXAMINE.
Clear ==
  /\ pc = "clear"
  /\ exists' = FALSE
  /\ pc' = "examine"
  /\ UNCHANGED <<serverVars, storeVars, folder, cur, batch, putback,
                 listVars, junkVars, local, idleVars, heard, bounds>>

\* The EXISTS in EXAMINE's own response belongs to the command: no signal.
Examine ==
  /\ pc = "examine" /\ up /\ box[folder].here
  /\ sel' = folder /\ owed' = FALSE
  /\ LET v == box[folder].validity
     IN  batch' = [EmptyBatch EXCEPT
                     !.next = [validity |-> v,
                               last |-> IF cur.validity = v THEN cur.last ELSE 0]]
  /\ pc' = "search"
  /\ UNCHANGED <<box, up, storeVars, folder, cur, exists, putback, listVars,
                 junkVars, local, idleVars, heard, bounds>>

\* UID SEARCH <last+1>:*, in which * is the last UID even when it is smaller.
Matches(f, last) ==
  LET uids == DOMAIN box[f].mail
  IN  {u \in uids : u > last \/ \A v \in uids : v <= u}

FoundFaulty(f, last) == Matches(f, last)

Found(f, last) == {u \in Matches(f, last) : u > last}

Search ==
  /\ pc = "search" /\ up
  /\ \E uids \in InOrder(Found(folder, batch.next.last)) :
       LET more == Len(uids) > MaxBatch
       IN  batch' = [batch EXCEPT !.todo = IF more THEN SubSeq(uids, 1, MaxBatch) ELSE uids,
                                  !.more = more]
  /\ pc' = "fetch"
  /\ UNCHANGED <<serverVars, storeVars, folder, cur, exists, putback,
                 listVars, junkVars, local, idleVars, heard, bounds>>

CutFaulty(b) ==
  [b EXCEPT !.more = TRUE, !.todo = <<>>, !.next.last = b.todo[Len(b.todo)]]

\* The next body would exceed MaxBatchBytes.
Cut(b) == [b EXCEPT !.more = TRUE, !.todo = <<>>]

\* One UID of the search result: fetched, already deleted, or left for later.
Fetch ==
  /\ pc = "fetch" /\ up /\ batch.todo # <<>>
  /\ LET u == Head(batch.todo)
         passed == [batch EXCEPT !.todo = Tail(@), !.next.last = u]
     IN  \/ /\ u \in DOMAIN box[folder].mail
            /\ batch' = [passed EXCEPT !.got =
                           Append(@, [uid |-> u, mail |-> box[folder].mail[u]])]
         \/ /\ u \notin DOMAIN box[folder].mail
            /\ batch' = passed
         \/ /\ batch.got # <<>>
            /\ batch' = Cut(batch)
  /\ UNCHANGED <<serverVars, storeVars, pc, folder, cur, exists, putback,
                 listVars, junkVars, local, idleVars, heard, bounds>>

\* Scan returns: an unchanged cursor with no mail is not worth a Handle.
EndScan ==
  /\ pc = "fetch" /\ batch.todo = <<>>
  /\ IF batch.got # <<>> \/ batch.next # cur
     THEN pc' = "handle" /\ UNCHANGED <<exists, putback, junkVars>>
     ELSE IF batch.more
     THEN pc' = "cursor" /\ UNCHANGED <<exists, putback, junkVars>>
     ELSE Drained
  /\ UNCHANGED <<serverVars, storeVars, folder, cur, batch, listVars, local,
                 idleVars, heard, bounds>>

-------------------------------------------------------------------------------
(* Handle, local failures and commands that fail.                          *)

RecordMail ==
  /\ pc = "handle" /\ batch.got # <<>>
  /\ LET m == Head(batch.got)
         place == Place(folder, batch.next, m.uid)
     IN  /\ ~Conflicts(place, m.mail)
         /\ rows' = Recorded(place, m.mail)
  /\ batch' = [batch EXCEPT !.got = Tail(@)]
  /\ UNCHANGED <<serverVars, cursor, pc, folder, cur, exists, putback,
                 listVars, junkVars, local, idleVars, heard, bounds>>

AdvanceCursor ==
  /\ pc = "handle" /\ batch.got = <<>>
  /\ Advances(cursor[folder], batch.next)
  /\ cursor' = [cursor EXCEPT ![folder] = batch.next]
  /\ IF batch.more THEN pc' = "cursor" /\ UNCHANGED <<exists, putback, junkVars>>
     ELSE Drained
  /\ UNCHANGED <<serverVars, rows, folder, cur, batch, listVars, local,
                 idleVars, heard, bounds>>

LocalLimitFaulty(f) == 0

\* maxLocal: INBOX is retried without limit (0), Junk is not.
LocalLimit(f) == IF f = "Junk" THEN JunkFailLimit ELSE 0

\* What the database refuses, or what goes wrong in it (busy, no key).
Refused ==
  \/ /\ batch.got # <<>>
     /\ LET m == Head(batch.got)
        IN  Conflicts(Place(folder, batch.next, m.uid), m.mail)
  \/ batch.got = <<>> /\ ~Advances(cursor[folder], batch.next)

\* A fault, unless it is one of those that never end.
MayFail == IF box[folder].broken THEN UNCHANGED faults ELSE Fault

LocalFails ==
  /\ \/ pc \in {"cursor", "handle"} /\ MayFail
     \/ pc = "handle" /\ Refused /\ UNCHANGED faults
  /\ local' = IF local < JunkFailLimit THEN local + 1 ELSE local   \* compared with it
  /\ IF LocalLimit(folder) > 0 /\ local' >= LocalLimit(folder)
     THEN DrainFails("local")
     ELSE pc' = "retry" /\ UNCHANGED <<up, exists, putback, junkVars>>
  /\ UNCHANGED <<box, sel, owed, storeVars, folder, cur, batch, idleVars,
                 heard, listVars, arrived>>

\* After the wait the drain starts over, unless the connection has closed.
Retry ==
  /\ pc = "retry"
  /\ IF up THEN pc' = "cursor" /\ UNCHANGED <<up, exists, putback, junkVars>>
     ELSE DrainFails("closed")
  /\ UNCHANGED <<box, sel, owed, storeVars, folder, cur, batch, listVars,
                 local, idleVars, heard, bounds>>

\* A command of Scan is rejected, times out or finds the connection closed.
\* A failed EXAMINE leaves no folder selected.
ScanFails ==
  /\ pc \in {"examine", "search", "fetch"}
  /\ pc = "fetch" => batch.todo # <<>>
  /\ \/ ~up /\ DrainFails("closed") /\ UNCHANGED <<sel, owed, faults>>
     \/ /\ up /\ pc = "examine" /\ ~box[folder].here
        /\ DrainFails("rejected")
        /\ sel' = "none" /\ owed' = FALSE /\ UNCHANGED faults
     \/ /\ up
        /\ \E kind \in {"rejected", "timeout"} : DrainFails(kind)
        /\ IF pc = "examine" THEN sel' = "none" /\ owed' = FALSE
           ELSE UNCHANGED <<sel, owed>>
        /\ MayFail
  /\ UNCHANGED <<box, storeVars, folder, cur, batch, listVars, local,
                 idleVars, heard, arrived>>

-------------------------------------------------------------------------------
(* Back to INBOX, and waiting.                                             *)

\* EXAMINE INBOX after Junk; its failure is INBOX's.
Reselect ==
  /\ pc = "reselect"
  /\ \/ /\ up
        /\ sel' = "INBOX" /\ owed' = FALSE
        /\ pc' = "wait"
        /\ UNCHANGED <<up, exists, putback, junkVars, faults>>
     \/ ~up /\ Disconnect /\ UNCHANGED <<sel, owed, faults>>
     \/ up /\ Fault /\ Disconnect /\ UNCHANGED <<sel, owed>>
  /\ UNCHANGED <<box, storeVars, folder, cur, batch, listVars, local,
                 idleVars, heard, arrived>>

\* Without IDLE, or when it has been given up, the watcher polls.  A signal left
\* over from the scans means another round, not an IDLE.
Wait ==
  /\ pc = "wait"
  /\ pc' = IF idleOff \/ ~canIdle THEN "poll" ELSE IF exists THEN "loop" ELSE "check"
  /\ UNCHANGED <<serverVars, storeVars, folder, cur, batch, exists, putback,
                 listVars, junkVars, local, idleVars, heard, bounds>>

\* Idle looks once more, and takes the signal it finds.
StartIdle ==
  /\ pc = "check"
  /\ \/ /\ exists
        /\ exists' = FALSE /\ pc' = "loop" /\ idleTimeouts' = 0
     \/ ~exists /\ up /\ pc' = "idle" /\ UNCHANGED <<exists, idleTimeouts>>
  /\ UNCHANGED <<serverVars, storeVars, folder, cur, batch, putback,
                 listVars, junkVars, local, idleOff, canIdle, heard, bounds>>

\* DONE after an EXISTS or after IdleMax.
EndIdle ==
  /\ pc = "idle" /\ up
  /\ exists' = FALSE
  /\ pc' = "loop" /\ idleTimeouts' = 0
  /\ UNCHANGED <<serverVars, storeVars, folder, cur, batch, putback,
                 listVars, junkVars, local, idleOff, canIdle, heard, bounds>>

\* IDLE is rejected, or its continuation or its end does not come in time
\* (the second time in a row IDLE is given up), or the connection is closed.
IdleFails ==
  /\ pc \in {"check", "idle"}
  /\ pc = "check" => ~exists
  /\ \/ /\ up /\ Fault
        /\ idleTimeouts' = idleTimeouts + 1
        /\ idleOff' = (idleTimeouts' >= 2)
     \/ /\ IF up THEN Fault ELSE UNCHANGED faults
        /\ idleTimeouts' = 0 /\ UNCHANGED idleOff
  /\ Disconnect
  /\ UNCHANGED <<box, sel, owed, storeVars, folder, cur, batch, listVars,
                 local, canIdle, heard, arrived>>

\* Session.sleep(Poll): it ends early when the connection closes.
Poll ==
  /\ pc = "poll"
  /\ IF up THEN pc' = "loop" /\ UNCHANGED <<up, exists, putback, junkVars>>
     ELSE Disconnect
  /\ UNCHANGED <<box, sel, owed, storeVars, folder, cur, batch, listVars,
                 local, idleVars, heard, bounds>>

\* The process dies and starts anew: only the database and the server remain.
Crash ==
  /\ Fault
  /\ pc' = "offline" /\ up' = FALSE
  /\ folder' = "INBOX" /\ cur' = NoCursor /\ batch' = EmptyBatch
  /\ exists' = FALSE /\ putback' = FALSE /\ heard' = {}
  /\ junkFails' = 0 /\ junkOff' = FALSE /\ junkDue' = FALSE
  /\ local' = 0 /\ idleTimeouts' = 0 /\ idleOff' = FALSE
  /\ junk' = TRUE /\ relist' = FALSE
  /\ UNCHANGED <<box, sel, owed, storeVars, canIdle, arrived>>

-------------------------------------------------------------------------------
MailInit ==
  /\ \E broken \in {FALSE, JunkMayBreak} :
       /\ faults = IF broken THEN 1 ELSE 0
       /\ box = [f \in Folders |-> [here |-> f = "INBOX" \/ JunkExists,
                                    broken |-> f = "Junk" /\ broken,
                                    validity |-> 1, next |-> 1, mail |-> <<>>]]
  /\ up = FALSE /\ sel = "none" /\ owed = FALSE
  /\ cursor = [f \in Folders |-> NoCursor] /\ rows = {}
  /\ pc = "offline" /\ folder = "INBOX" /\ cur = NoCursor /\ batch = EmptyBatch
  /\ exists = FALSE /\ putback = FALSE /\ heard = {}
  /\ junk = TRUE /\ relist = FALSE
  /\ junkFails = 0 /\ junkOff = FALSE /\ junkDue = FALSE
  /\ local = 0 /\ idleTimeouts = 0 /\ idleOff = FALSE
  /\ canIdle = FALSE /\ arrived = 0

Server == \/ \E f \in Folders : Arrive(f) \/ Expunge(f) \/ Rebuild(f)
          \/ Rescue \/ ChangeJunk \/ Push \/ Drop

Drain == \/ ReadCursor \/ Clear \/ Examine \/ Search \/ Fetch \/ EndScan
         \/ RecordMail \/ AdvanceCursor \/ Retry \/ LocalFails \/ ScanFails

Serve == \/ Connect \/ List \/ ListFails \/ StartRound \/ StartJunk
         \/ Reselect \/ Wait \/ StartIdle \/ EndIdle \/ IdleFails \/ Poll

MailNext == Server \/ HourPasses \/ RelistDue \/ Drain \/ Serve \/ Crash

MailSpec == MailInit /\ [][MailNext]_mailVars

\* Every command, wait and transaction of the watcher ends (each has a
\* deadline), hours pass, also over rounds that are each shorter, and the server
\* tells of what it owes.  Arrivals, deletions and faults owe nothing.
FairMailSpec ==
  /\ MailSpec
  /\ WF_mailVars(Drain \/ Serve)
  /\ WF_mailVars(HourPasses) /\ SF_mailVars(RelistDue) /\ WF_mailVars(Push)

-------------------------------------------------------------------------------
(* Properties.                                                             *)

IsRecorded(m) == \E r \in rows : r.mail = m

\* No mail is skipped: whatever the folder still holds at or below the
\* persisted cursor has been recorded, however batches are cut, mails deleted
\* between commands, folders rebuilt and processes killed between recording
\* and advancing.
NothingSkipped ==
  \A f \in Folders :
    cursor[f].validity = box[f].validity =>
      \A u \in DOMAIN box[f].mail :
        u <= cursor[f].last => IsRecorded(box[f].mail[u])

\* AdvanceCursor and RecordReply never refuse what Scan found: the watcher
\* never asks to move the cursor back (a server that answers "*" with an old
\* UID included) and never meets one place with two mails.
NeverRefused == pc = "handle" => ~Refused

\* While IDLE waits in silence on a live connection INBOX holds no mail that
\* is not recorded: a mail is covered by the last UID SEARCH or its EXISTS
\* ends the IDLE (the comment in Scan).
IdleMissesNothing ==
  pc = "idle" /\ up /\ ~exists /\ ~owed =>
    \A m \in MailsIn("INBOX") : IsRecorded(m)

\* A signal that was in the channel when Junk's scan began is not lost to it:
\* the watcher does not go to IDLE before a scan of INBOX has recorded the
\* mails it announced.
HeardMailIsNotMissed ==
  pc = "idle" => \A m \in heard \cap MailsIn("INBOX") : IsRecorded(m)

\* Every mail that stays in INBOX is recorded, although Junk may fail without
\* end and the server may never answer IDLE.
InboxRecorded ==
  \A m \in 1..MaxMails :
    m \in MailsIn("INBOX") ~> (IsRecorded(m) \/ m \notin MailsIn("INBOX"))

\* The same of every folder that does not fail for ever, when the faults end:
\* a degraded Junk comes back, and so does one that was missing for a while.
EveryMailRecorded ==
  \A m \in 1..MaxMails : \A f \in Folders :
    m \in MailsIn(f) /\ ~box[f].broken ~> (IsRecorded(m) \/ m \notin MailsIn(f))
===============================================================================
