------------------------------- MODULE StoreOpen -------------------------------
(***************************************************************************)
(* Open of internal/store/sqlite (store.go) and the migrations it applies    *)
(* (migrate.go), by several processes at once, of builds that know different *)
(* numbers of migrations.  The first of them turns an empty file into a WAL   *)
(* database, which SQLite refuses at once when two try; each migration is a   *)
(* transaction of its own, and a process may die in any of them.  Whoever has *)
(* the store open goes on with transactions on its one connection, and        *)
(* truncates the WAL after those that removed a body (wal.go).                *)
(***************************************************************************)
EXTENDS Naturals, Sequences

CONSTANTS Procs,      \* processes that open the store
          Knows,      \* how many migrations the build of a process has
          MaxCrashes  \* bound

ASSUME OpenAssumption ==
  /\ Knows \in [Procs -> Nat \ {0}] /\ MaxCrashes \in Nat
  /\ "none" \notin Procs

VARIABLES
  file,      \* turncourier.db exists
  wal,       \* it is in WAL mode
  version,   \* its user_version
  schema,    \* the migrations its schema is made of, in the order applied
  shared,    \* who reads the file in order to convert it to WAL
  reserved,  \* who is about to write it in rollback mode, or None
  lock,      \* who is in an IMMEDIATE transaction, or None
  conn,      \* a process's connection: "none", "patient" (busy_timeout 5000)
             \* or "hasty" (0)
  pc,        \* "closed", "ping", "convert", "upgrade", "migrate", "tx",
             \* "apply", "failed" or "open"; with the store open "begin" and
             \* "change"; in truncateWAL "lower", "checkpoint" and "restore"
  next,      \* the migration a process is at
  seen,      \* user_version as its transaction read it
  crashes

None == "none"
database == <<file, wal, version, schema>>
locks == <<shared, reserved, lock>>
openVars == <<database, locks, conn, pc, next, seen, crashes>>

GoTo(p, step) == pc' = [pc EXCEPT ![p] = step]

-------------------------------------------------------------------------------
(* prepareFiles and openDB.                                                *)

\* Creates the file unless somebody has.
PrepareFiles(p) ==
  /\ pc[p] = "closed"
  /\ file' = TRUE
  /\ next' = [next EXCEPT ![p] = 1]
  /\ GoTo(p, "ping")
  /\ UNCHANGED <<wal, version, schema, locks, conn, seen, crashes>>

\* A new connection has the settings of connectionParams.
Connected(p) == conn' = [conn EXCEPT ![p] = "patient"]

\* PRAGMA journal_mode(WAL): nothing to do, or the file is read first.
Ping(p) ==
  /\ pc[p] = "ping"
  /\ IF wal THEN GoTo(p, "migrate") /\ Connected(p) /\ UNCHANGED shared
     ELSE GoTo(p, "convert") /\ shared' = shared \cup {p} /\ UNCHANGED conn
  /\ UNCHANGED <<database, reserved, lock, next, seen, crashes>>

Convert(p) ==
  /\ pc[p] = "convert" /\ reserved = None
  /\ reserved' = p
  /\ GoTo(p, "upgrade")
  /\ UNCHANGED <<database, shared, lock, conn, next, seen, crashes>>

Upgrade(p) ==
  /\ pc[p] = "upgrade" /\ shared = {p}
  /\ wal' = TRUE
  /\ shared' = {} /\ reserved' = None
  /\ GoTo(p, "migrate") /\ Connected(p)
  /\ UNCHANGED <<file, version, schema, lock, next, seen, crashes>>

\* SQLITE_BUSY without any wait: a second converter is in the way.
PingIsBusy(p) == \/ pc[p] = "convert" /\ reserved # None
                 \/ pc[p] = "upgrade" /\ shared # {p}

LetGo(p) ==
  /\ shared' = shared \ {p}
  /\ reserved' = IF reserved = p THEN None ELSE reserved

\* Tries again for ever.
GiveUpFaulty(p) == FALSE

\* openBusyTimeout is over.
GiveUp(p) == GoTo(p, "failed")

\* retryWhileBusy.
RetryPing(p) ==
  /\ PingIsBusy(p)
  /\ LetGo(p)
  /\ GoTo(p, "ping")
  /\ UNCHANGED <<database, lock, conn, next, seen, crashes>>

FailPing(p) ==
  /\ PingIsBusy(p)
  /\ LetGo(p)
  /\ GiveUp(p)
  /\ UNCHANGED <<database, lock, conn, next, seen, crashes>>

-------------------------------------------------------------------------------
(* migrate and applyMigration.                                             *)

\* A transaction that takes no lock to begin with.
LockedFaulty(p) == lock' = lock

\* _txlock=immediate.
Locked(p) == lock = None /\ lock' = p

BeginMigration(p) ==
  /\ pc[p] = "migrate" /\ next[p] <= Knows[p]
  /\ Locked(p)
  /\ GoTo(p, "tx")
  /\ UNCHANGED <<database, shared, reserved, conn, next, seen, crashes>>

\* Open fails and closes the database.
Closed(p) == conn' = [conn EXCEPT ![p] = "none"]

\* SQLITE_BUSY after busy_timeout.
LockTimeout(p) ==
  /\ pc[p] = "migrate" /\ next[p] <= Knows[p] /\ lock \notin {None, p}
  /\ GoTo(p, "failed") /\ Closed(p)
  /\ UNCHANGED <<database, locks, next, seen, crashes>>

Unlock(p) == lock' = IF lock = p THEN None ELSE lock

TooNewFaulty(p) == FALSE

\* ErrSchemaTooNew.
TooNew(p) == version > Knows[p]

\* The version is read inside the transaction: another process may have applied
\* this migration since.
ReadVersion(p) ==
  /\ pc[p] = "tx"
  /\ seen' = [seen EXCEPT ![p] = version]
  /\ \/ /\ TooNew(p)
        /\ GoTo(p, "failed") /\ Unlock(p) /\ Closed(p) /\ UNCHANGED next
     \/ /\ ~TooNew(p) /\ version >= next[p]
        /\ GoTo(p, "migrate") /\ Unlock(p)
        /\ next' = [next EXCEPT ![p] = @ + 1] /\ UNCHANGED conn
     \/ /\ ~TooNew(p) /\ version < next[p]
        /\ GoTo(p, "apply") /\ UNCHANGED <<lock, conn, next>>
  /\ UNCHANGED <<database, shared, reserved, crashes>>

\* The script, user_version and the commit, which make one change.
CommitMigration(p) ==
  /\ pc[p] = "apply"
  /\ schema' = Append(schema, next[p])
  /\ version' = next[p]
  /\ Unlock(p)
  /\ next' = [next EXCEPT ![p] = @ + 1]
  /\ GoTo(p, "migrate")
  /\ UNCHANGED <<file, wal, shared, reserved, conn, seen, crashes>>

\* The transaction does not begin, for another reason than the lock, user_version
\* cannot be read, or the script or the commit fails: rolled back.
MigrationFails(p) ==
  /\ \/ pc[p] = "migrate" /\ next[p] <= Knows[p]
     \/ pc[p] \in {"tx", "apply"}
  /\ crashes < MaxCrashes
  /\ crashes' = crashes + 1
  /\ Unlock(p)
  /\ GoTo(p, "failed") /\ Closed(p)
  /\ UNCHANGED <<database, shared, reserved, next, seen>>

\* Then Open truncates the WAL.
EndMigrate(p) ==
  /\ pc[p] = "migrate" /\ next[p] > Knows[p]
  /\ GoTo(p, "lower")
  /\ UNCHANGED <<database, locks, conn, next, seen, crashes>>

-------------------------------------------------------------------------------
(* truncateWAL, which Open and the calls that remove a body end with: it has *)
(* no say in their results.                                                *)

\* PRAGMA busy_timeout = 0, which may fail before or after it took effect.
Lower(p) ==
  /\ pc[p] = "lower"
  /\ \/ conn' = [conn EXCEPT ![p] = "hasty"]
        /\ (GoTo(p, "checkpoint") \/ GoTo(p, "restore"))
     \/ GoTo(p, "restore") /\ UNCHANGED conn
  /\ UNCHANGED <<database, locks, next, seen, crashes>>

\* Done, busy because of another process, or failed.
Checkpoint(p) ==
  /\ pc[p] = "checkpoint"
  /\ GoTo(p, "restore")
  /\ UNCHANGED <<database, locks, conn, next, seen, crashes>>

\* The connection goes back to the pool although it was not restored.
RestoreFaulty(p) ==
  /\ pc[p] = "restore"
  /\ GoTo(p, "open")
  /\ Connected(p) \/ UNCHANGED conn
  /\ UNCHANGED <<database, locks, next, seen, crashes>>

\* PRAGMA busy_timeout = 5000; when that fails, as it must when the context is
\* over, driver.ErrBadConn makes database/sql close the connection.
Restore(p) ==
  /\ pc[p] = "restore"
  /\ GoTo(p, "open")
  /\ Connected(p) \/ Closed(p)
  /\ UNCHANGED <<database, locks, next, seen, crashes>>

-------------------------------------------------------------------------------
(* A call of the open store: one IMMEDIATE transaction.  SetMaxOpenConns(1)  *)
(* lets a process run one at a time.  changeReply stands for all that end in  *)
(* truncateWAL: as to the connection, applyEvent, changeNotification and the  *)
(* claim of a notification are the same.                                    *)

Call(p) ==
  /\ pc[p] = "open"
  /\ IF conn[p] = "none" THEN Connected(p) ELSE UNCHANGED conn
  /\ GoTo(p, "begin")
  /\ UNCHANGED <<database, locks, next, seen, crashes>>

Begin(p) ==
  /\ pc[p] = "begin"
  /\ lock = None /\ lock' = p
  /\ GoTo(p, "change")
  /\ UNCHANGED <<database, shared, reserved, conn, next, seen, crashes>>

\* SQLITE_BUSY: another process has the lock, and busy_timeout is over.
Refused(p) ==
  /\ pc[p] = "begin" /\ lock # None
  /\ GoTo(p, "open")
  /\ UNCHANGED <<database, locks, conn, next, seen, crashes>>

\* Committed or rolled back; a change that removed a body goes on to truncate
\* the WAL, on the connection that the transaction has given back.
EndChange(p) ==
  /\ pc[p] = "change"
  /\ Unlock(p)
  /\ GoTo(p, "open") \/ GoTo(p, "lower")
  /\ UNCHANGED <<database, shared, reserved, conn, next, seen, crashes>>

-------------------------------------------------------------------------------
\* The process dies: its locks go with it, and its transaction is undone.
Crash(p) ==
  /\ pc[p] \notin {"closed", "failed"} /\ crashes < MaxCrashes
  /\ crashes' = crashes + 1
  /\ LetGo(p) /\ Unlock(p) /\ Closed(p)
  /\ GoTo(p, "closed")
  /\ UNCHANGED <<database, next, seen>>

\* Whoever failed may be started again.
Restart(p) ==
  /\ pc[p] = "failed" /\ crashes < MaxCrashes
  /\ crashes' = crashes + 1
  /\ GoTo(p, "closed")
  /\ UNCHANGED <<database, locks, conn, next, seen>>

OpenInit ==
  /\ file = FALSE /\ wal = FALSE /\ version = 0 /\ schema = <<>>
  /\ shared = {} /\ reserved = None /\ lock = None
  /\ conn = [p \in Procs |-> "none"]
  /\ pc = [p \in Procs |-> "closed"] /\ next = [p \in Procs |-> 1]
  /\ seen = [p \in Procs |-> 0] /\ crashes = 0

Opening(p) == \/ Ping(p) \/ Convert(p) \/ Upgrade(p) \/ RetryPing(p) \/ FailPing(p)
              \/ BeginMigration(p) \/ LockTimeout(p) \/ ReadVersion(p)
              \/ CommitMigration(p) \/ EndMigrate(p)
              \/ Lower(p) \/ Checkpoint(p) \/ Restore(p)

Using(p) == Call(p) \/ Begin(p) \/ Refused(p) \/ EndChange(p)

OpenNext == \E p \in Procs : PrepareFiles(p) \/ Opening(p) \/ Using(p)
                             \/ MigrationFails(p) \/ Crash(p) \/ Restart(p)

OpenSpec == OpenInit /\ [][OpenNext]_openVars

\* Processes run, and the deadline of a retry comes even if each single attempt
\* finds the file free for a moment.
FairOpenSpec ==
  OpenSpec /\ \A p \in Procs : WF_openVars(Opening(p)) /\ SF_openVars(FailPing(p))

-------------------------------------------------------------------------------
(* Properties.                                                             *)

\* The schema is the migrations 1 to user_version, each applied once and in
\* order, whoever opens, dies or fails at the same time.
SchemaWhole == schema = [i \in 1..version |-> i]

\* A process gets past its last migration only if the schema is the very one
\* its build knows at that moment: none is missing, although others apply them
\* too, and a build that is older than the database is turned away.
MigratedExactly ==
  [][\A p \in Procs :
       pc[p] \in {"tx", "apply"} /\ next[p] <= Knows[p] /\ next'[p] > Knows[p]
         => version' = Knows[p]]_openVars

\* No transaction is refused at once because truncateWAL, of Open or of an
\* earlier call, left the one connection without its busy_timeout: not when the
\* checkpoint or either PRAGMA failed or the context ended between them.
RefusedOnlyAfterWaiting ==
  [][\A p \in Procs : Refused(p) => conn[p] = "patient"]_openVars

\* Every Open ends, in a store or an error, although those who convert the file
\* at once keep putting each other off.
OpensEnd == \A p \in Procs : pc[p] = "ping" ~> pc[p] \in {"open", "failed", "closed"}
===============================================================================
