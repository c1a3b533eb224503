---------------------------- MODULE StoreOpenProofs ----------------------------
(***************************************************************************)
(* Proofs about StoreOpen, for any number of processes of any builds: the    *)
(* schema is always whole, nobody finishes migrating with another schema     *)
(* than its own, and no connection is left without its busy_timeout.         *)
(***************************************************************************)
EXTENDS StoreOpen, TLAPS

Step == {"closed", "ping", "convert", "upgrade", "migrate", "tx", "apply",
         "failed", "open", "begin", "change", "lower", "checkpoint", "restore"}

TypeOK ==
  /\ version \in Nat
  /\ lock \in Procs \cup {None}
  /\ conn \in [Procs -> {"none", "patient", "hasty"}]
  /\ pc \in [Procs -> Step]
  /\ next \in [Procs -> Nat \ {0}]

\* The write lock belongs to the process inside an IMMEDIATE transaction.
LockIsHeld == \A p \in Procs : pc[p] \in {"tx", "apply", "change"} <=> lock = p

\* Nobody is past a migration that is not applied.
NobodyAhead == \A p \in Procs : next[p] <= version + 1

\* A transaction is about a migration the build has, and one that goes on to
\* apply it has seen that it is missing: the lock keeps that true.
Migrating == \A p \in Procs : pc[p] \in {"tx", "apply"} => next[p] <= Knows[p]

Missing == \A p \in Procs : pc[p] = "apply" => version < next[p]

\* The timeout is lowered inside truncateWAL only.
TimeoutKept ==
  \A p \in Procs : /\ conn[p] = "hasty" => pc[p] \in {"checkpoint", "restore"}
                   /\ pc[p] = "begin" => conn[p] = "patient"

OpenInv ==
  TypeOK /\ SchemaWhole /\ LockIsHeld /\ NobodyAhead /\ Migrating /\ Missing
  /\ TimeoutKept

-------------------------------------------------------------------------------
\* An empty file satisfies the invariant.
LEMMA InitOpenInv == OpenInit => OpenInv
<1> SUFFICES ASSUME OpenInit PROVE OpenInv
  OBVIOUS
<1>1. TypeOK
  BY OpenAssumption DEF OpenInit, TypeOK, Step, None
<1>2. SchemaWhole
  BY DEF OpenInit, SchemaWhole
<1>3. LockIsHeld
  BY OpenAssumption DEF OpenInit, LockIsHeld, None
<1>4. NobodyAhead /\ Migrating /\ Missing /\ TimeoutKept
  BY DEF OpenInit, NobodyAhead, Migrating, Missing, TimeoutKept
<1> QED
  BY <1>1, <1>2, <1>3, <1>4 DEF OpenInv

-------------------------------------------------------------------------------
(* Steps.                                                                  *)

InTx == {"tx", "apply", "change"}

\* A process that is not inside a transaction holds no lock to give back.
LEMMA NothingToUnlock ==
  ASSUME OpenInv, NEW p \in Procs, pc[p] \notin InTx, lock' = lock
  PROVE  Unlock(p)
BY DEF OpenInv, LockIsHeld, InTx, Unlock

\* Most steps: the database stays as it is, and one process goes on to a place
\* outside of any transaction, which gives back the lock if it was in one.
LEMMA StepOutside ==
  ASSUME OpenInv, NEW p \in Procs,
         NEW s \in Step \ InTx, GoTo(p, s),
         NEW c \in {"none", "patient", "hasty"}, conn' = [conn EXCEPT ![p] = c],
         c = "hasty" => s \in {"checkpoint", "restore"},
         s = "begin" => c = "patient",
         NEW n \in Nat \ {0}, next' = [next EXCEPT ![p] = n], n <= version + 1,
         Unlock(p), version' = version, schema' = schema
  PROVE  OpenInv'
<1>1. TypeOK'
  BY DEF OpenInv, TypeOK, GoTo, Unlock
<1>2. SchemaWhole'
  BY DEF OpenInv, SchemaWhole
<1>3. LockIsHeld'
  BY OpenAssumption DEF OpenInv, TypeOK, LockIsHeld, GoTo, Unlock, InTx, None
<1>4. NobodyAhead'
  BY DEF OpenInv, TypeOK, NobodyAhead
<1>5. Migrating' /\ Missing'
  BY DEF OpenInv, TypeOK, Migrating, Missing, GoTo, InTx
<1>6. TimeoutKept'
  BY DEF OpenInv, TypeOK, TimeoutKept, GoTo
<1> QED
  BY <1>1, <1>2, <1>3, <1>4, <1>5, <1>6 DEF OpenInv

\* The same for a step that leaves the place in the migrations and the
\* connection alone, and for one that leaves only the former.
LEMMA StepKeepingConn ==
  ASSUME OpenInv, NEW p \in Procs, conn[p] # "hasty",
         NEW s \in Step \ (InTx \cup {"begin"}), GoTo(p, s),
         conn' = conn, next' = next,
         Unlock(p), version' = version, schema' = schema
  PROVE  OpenInv'
<1>1. /\ conn' = [conn EXCEPT ![p] = conn[p]]
      /\ next' = [next EXCEPT ![p] = next[p]]
      /\ conn[p] \in {"none", "patient", "hasty"}
      /\ next[p] \in Nat \ {0} /\ next[p] <= version + 1
  BY DEF OpenInv, TypeOK, NobodyAhead
<1> QED
  BY <1>1, StepOutside

LEMMA StepKeepingPlace ==
  ASSUME OpenInv, NEW p \in Procs,
         NEW s \in Step \ InTx, GoTo(p, s),
         NEW c \in {"none", "patient", "hasty"}, conn' = [conn EXCEPT ![p] = c],
         c = "hasty" => s \in {"checkpoint", "restore"},
         s = "begin" => c = "patient",
         next' = next,
         Unlock(p), version' = version, schema' = schema
  PROVE  OpenInv'
<1>1. /\ next' = [next EXCEPT ![p] = next[p]]
      /\ next[p] \in Nat \ {0} /\ next[p] <= version + 1
  BY DEF OpenInv, TypeOK, NobodyAhead
<1> QED
  BY <1>1, StepOutside

\* A failure of Open closes the connection, wherever it happens.
LEMMA StepToFailed ==
  ASSUME OpenInv, NEW p \in Procs, GoTo(p, "failed"), Closed(p), next' = next,
         Unlock(p), version' = version, schema' = schema
  PROVE  OpenInv'
<1>1. conn' = [conn EXCEPT ![p] = "none"]
  BY DEF Closed
<1>2. /\ "failed" \in Step \ InTx /\ "failed" # "begin"
      /\ "none" \in {"none", "patient", "hasty"} /\ "none" # "hasty"
  BY DEF Step, InTx
<1> QED
  BY ONLY OpenInv, p \in Procs, GoTo(p, "failed"), next' = next, Unlock(p),
          version' = version, schema' = schema, <1>1, <1>2, StepKeepingPlace

\* Outside truncateWAL a connection is not hasty.
LEMMA NotHasty ==
  ASSUME OpenInv, NEW p \in Procs, pc[p] \notin {"checkpoint", "restore"}
  PROVE  conn[p] # "hasty"
BY DEF OpenInv, TimeoutKept

-------------------------------------------------------------------------------
(* prepareFiles and openDB.                                                *)

LEMMA PrepareFilesStep ==
  ASSUME OpenInv, NEW p \in Procs, PrepareFiles(p) PROVE OpenInv'
<1>1. /\ pc[p] \notin InTx /\ conn[p] # "hasty" /\ GoTo(p, "ping")
      /\ lock' = lock /\ version' = version /\ schema' = schema
      /\ conn' = [conn EXCEPT ![p] = conn[p]]
      /\ conn[p] \in {"none", "patient", "hasty"}
      /\ next' = [next EXCEPT ![p] = 1] /\ 1 <= version + 1
  BY NotHasty DEF PrepareFiles, InTx, OpenInv, TypeOK, locks
<1>2. Unlock(p)
  BY <1>1, NothingToUnlock
<1>3. "ping" \in Step \ InTx /\ "ping" # "begin" /\ 1 \in Nat \ {0}
  BY DEF Step, InTx
<1> QED
  BY ONLY OpenInv, <1>1, <1>2, <1>3, StepOutside

LEMMA PingStep ==
  ASSUME OpenInv, NEW p \in Procs, Ping(p) PROVE OpenInv'
<1>1. /\ pc[p] \notin InTx /\ conn[p] # "hasty"
      /\ lock' = lock /\ version' = version /\ schema' = schema /\ next' = next
  BY NotHasty DEF Ping, InTx, database
<1>2. Unlock(p)
  BY <1>1, NothingToUnlock
<1>3. CASE wal
  <2>1. GoTo(p, "migrate") /\ conn' = [conn EXCEPT ![p] = "patient"]
    BY <1>3 DEF Ping, Connected
  <2> QED
    BY <1>1, <1>2, <2>1, StepKeepingPlace DEF Step, InTx
<1>4. CASE ~wal
  <2>1. GoTo(p, "convert") /\ conn' = conn
    BY <1>4 DEF Ping
  <2> QED
    BY <1>1, <1>2, <2>1, StepKeepingConn DEF Step, InTx
<1> QED
  BY <1>3, <1>4

\* The conversion to WAL touches neither the schema nor the write lock.
LEMMA ConversionStep ==
  ASSUME OpenInv, NEW p \in Procs,
         Convert(p) \/ Upgrade(p) \/ RetryPing(p) \/ FailPing(p)
  PROVE  OpenInv'
<1>1. /\ pc[p] \notin InTx /\ conn[p] # "hasty"
      /\ lock' = lock /\ version' = version /\ schema' = schema /\ next' = next
  BY NotHasty DEF Convert, Upgrade, RetryPing, FailPing, PingIsBusy, InTx, database
<1>2. Unlock(p)
  BY <1>1, NothingToUnlock
<1>3. CASE Convert(p) \/ RetryPing(p) \/ FailPing(p)
  <2>1. conn' = conn /\ \E s \in {"upgrade", "ping", "failed"} : GoTo(p, s)
    BY <1>3 DEF Convert, RetryPing, FailPing, GiveUp
  <2> QED
    BY <1>1, <1>2, <2>1, StepKeepingConn DEF Step, InTx
<1>4. CASE Upgrade(p)
  <2>1. GoTo(p, "migrate") /\ conn' = [conn EXCEPT ![p] = "patient"]
    BY <1>4 DEF Upgrade, Connected
  <2> QED
    BY <1>1, <1>2, <2>1, StepKeepingPlace DEF Step, InTx
<1> QED
  BY <1>3, <1>4

-------------------------------------------------------------------------------
(* Migrations.                                                             *)

\* A transaction begins: the lock was free, so nobody else is in one.
LEMMA StepInside ==
  ASSUME OpenInv, NEW p \in Procs, pc[p] \notin InTx, conn[p] # "hasty",
         NEW s \in {"tx", "change"}, GoTo(p, s),
         s = "tx" => next[p] <= Knows[p],
         lock = None, lock' = p,
         next' = next, conn' = conn, version' = version, schema' = schema
  PROVE  OpenInv'
<1>1. TypeOK'
  BY DEF OpenInv, TypeOK, GoTo, Step
<1>2. SchemaWhole'
  BY DEF OpenInv, SchemaWhole
<1>3. LockIsHeld'
  BY OpenAssumption DEF OpenInv, TypeOK, LockIsHeld, GoTo, InTx, None
<1>4. NobodyAhead'
  BY DEF OpenInv, NobodyAhead
<1>5. Migrating' /\ Missing'
  BY DEF OpenInv, TypeOK, Migrating, Missing, GoTo
<1>6. TimeoutKept'
  BY DEF OpenInv, TypeOK, TimeoutKept, GoTo
<1> QED
  BY <1>1, <1>2, <1>3, <1>4, <1>5, <1>6 DEF OpenInv

LEMMA BeginStep ==
  ASSUME OpenInv, NEW p \in Procs, BeginMigration(p) \/ Begin(p) PROVE OpenInv'
<1>1. /\ pc[p] \notin InTx /\ conn[p] # "hasty" /\ conn' = conn /\ next' = next
      /\ version' = version /\ schema' = schema /\ lock = None /\ lock' = p
  BY NotHasty DEF BeginMigration, Begin, Locked, InTx, database
<1>2. \E s \in {"tx", "change"} : GoTo(p, s) /\ (s = "tx" => next[p] <= Knows[p])
  BY DEF BeginMigration, Begin
<1> QED
  BY <1>1, <1>2, StepInside

LEMMA LockTimeoutStep ==
  ASSUME OpenInv, NEW p \in Procs, LockTimeout(p) PROVE OpenInv'
<1>1. /\ pc[p] \notin InTx
      /\ lock' = lock /\ version' = version /\ schema' = schema /\ next' = next
      /\ GoTo(p, "failed") /\ Closed(p)
  BY DEF LockTimeout, InTx, database, locks
<1>2. Unlock(p)
  BY <1>1, NothingToUnlock
<1> QED
  BY <1>1, <1>2, StepToFailed

\* A transaction reads the version that the lock keeps from changing.
LEMMA ReadVersionStep ==
  ASSUME OpenInv, NEW p \in Procs, ReadVersion(p) PROVE OpenInv'
<1>1. /\ pc[p] = "tx" /\ version' = version /\ schema' = schema
      /\ conn[p] # "hasty"
  BY NotHasty DEF ReadVersion, database
<1>2. version \in Nat /\ next[p] \in Nat \ {0}
  BY DEF OpenInv, TypeOK
<1>3. CASE TooNew(p) /\ GoTo(p, "failed") /\ Unlock(p) /\ Closed(p) /\ next' = next
  BY <1>1, <1>3, StepToFailed
<1>4. CASE /\ version >= next[p] /\ GoTo(p, "migrate") /\ Unlock(p)
           /\ next' = [next EXCEPT ![p] = @ + 1] /\ conn' = conn
  <2>1. /\ next' = [next EXCEPT ![p] = next[p] + 1] /\ next[p] + 1 \in Nat \ {0}
        /\ next[p] + 1 <= version + 1
    BY <1>2, <1>4
  <2>2. /\ conn' = [conn EXCEPT ![p] = conn[p]]
        /\ conn[p] \in {"none", "patient", "hasty"}
    BY <1>4 DEF OpenInv, TypeOK
  <2>3. "migrate" \in Step \ InTx /\ "migrate" # "begin"
    BY DEF Step, InTx
  <2> QED
    BY ONLY OpenInv, <1>1, <1>4, <2>1, <2>2, <2>3, StepOutside
<1>5. CASE /\ version < next[p] /\ GoTo(p, "apply")
           /\ lock' = lock /\ conn' = conn /\ next' = next
  <2>1. TypeOK' /\ SchemaWhole' /\ NobodyAhead'
    BY <1>1, <1>5 DEF OpenInv, TypeOK, GoTo, Step, SchemaWhole, NobodyAhead
  <2>2. LockIsHeld'
    BY <1>1, <1>5 DEF OpenInv, TypeOK, LockIsHeld, GoTo
  <2>3. Migrating' /\ Missing'
    BY <1>1, <1>5 DEF OpenInv, TypeOK, Migrating, Missing, GoTo
  <2>4. TimeoutKept'
    BY <1>1, <1>5 DEF OpenInv, TypeOK, TimeoutKept, GoTo
  <2> QED
    BY <2>1, <2>2, <2>3, <2>4 DEF OpenInv
<1> QED
  BY <1>3, <1>4, <1>5 DEF ReadVersion

\* The one step that changes the schema: by exactly the migration it lacks.
LEMMA CommitMigrationStep ==
  ASSUME OpenInv, NEW p \in Procs, CommitMigration(p) PROVE OpenInv'
<1> USE DEF OpenInv
<1>1. version \in Nat /\ next \in [Procs -> Nat \ {0}] /\ pc \in [Procs -> Step]
  BY DEF TypeOK
<1>2. pc[p] = "apply" /\ next[p] = version + 1 /\ lock = p
  BY <1>1 DEF CommitMigration, Missing, NobodyAhead, LockIsHeld
<1>3. /\ version' = version + 1 /\ lock' = None /\ conn' = conn
      /\ next' = [next EXCEPT ![p] = version + 2] /\ pc' = [pc EXCEPT ![p] = "migrate"]
  BY <1>1, <1>2 DEF CommitMigration, Unlock, GoTo
<1>4. TypeOK'
  BY <1>1, <1>3 DEF TypeOK, Step
<1>5. SchemaWhole'
  <2>1. schema' = Append([i \in 1..version |-> i], version + 1)
    BY <1>2 DEF CommitMigration, SchemaWhole
  <2>2. Append([i \in 1..version |-> i], version + 1) = [i \in 1..(version + 1) |-> i]
    BY <1>1
  <2> QED
    BY <1>3, <2>1, <2>2 DEF SchemaWhole
<1>6. LockIsHeld'
  BY <1>1, <1>2, <1>3, OpenAssumption DEF LockIsHeld, None
<1>7. NobodyAhead'
  BY <1>1, <1>3 DEF NobodyAhead
<1>8. \A q \in Procs : pc'[q] \notin {"apply", "tx"}
  BY <1>1, <1>2, <1>3 DEF LockIsHeld
<1>9. Migrating' /\ Missing'
  BY <1>8 DEF Migrating, Missing
<1>10. TimeoutKept'
  BY <1>1, <1>2, <1>3 DEF TimeoutKept, TypeOK
<1> QED
  BY <1>4, <1>5, <1>6, <1>7, <1>9, <1>10

LEMMA EndOfMigrationStep ==
  ASSUME OpenInv, NEW p \in Procs, MigrationFails(p) \/ EndMigrate(p)
  PROVE  OpenInv'
<1>1. version' = version /\ schema' = schema /\ next' = next
  BY DEF MigrationFails, EndMigrate, database
<1>2. CASE MigrationFails(p)
  <2>1. Unlock(p) /\ GoTo(p, "failed") /\ Closed(p)
    BY <1>2 DEF MigrationFails
  <2> QED
    BY <1>1, <2>1, StepToFailed
<1>3. CASE EndMigrate(p)
  <2>1. /\ pc[p] \notin InTx /\ conn[p] # "hasty" /\ conn' = conn
        /\ lock' = lock /\ GoTo(p, "lower")
    BY <1>3, NotHasty DEF EndMigrate, InTx, locks
  <2>2. Unlock(p)
    BY <2>1, NothingToUnlock
  <2> QED
    BY <1>1, <2>1, <2>2, StepKeepingConn DEF Step, InTx
<1> QED
  BY <1>2, <1>3

-------------------------------------------------------------------------------
(* truncateWAL, the calls, and the end of a process.                       *)

LEMMA TruncateStep ==
  ASSUME OpenInv, NEW p \in Procs, Lower(p) \/ Checkpoint(p) \/ Restore(p)
  PROVE  OpenInv'
<1>1. /\ pc[p] \notin InTx
      /\ lock' = lock /\ version' = version /\ schema' = schema /\ next' = next
  BY DEF Lower, Checkpoint, Restore, InTx, database, locks
<1>2. Unlock(p)
  BY <1>1, NothingToUnlock
<1>3. conn[p] \in {"none", "patient", "hasty"} /\ conn = [conn EXCEPT ![p] = conn[p]]
  BY DEF OpenInv, TypeOK
<1>4. \E s \in {"checkpoint", "restore", "open"}, c \in {"none", "patient", "hasty"} :
        /\ GoTo(p, s) /\ conn' = [conn EXCEPT ![p] = c]
        /\ c = "hasty" => s \in {"checkpoint", "restore"}
  <2>1. CASE Lower(p)
    BY <2>1, <1>3 DEF Lower
  <2>2. CASE Checkpoint(p)
    BY <2>2, <1>3 DEF Checkpoint
  <2>3. CASE Restore(p)
    BY <2>3 DEF Restore, Connected, Closed
  <2> QED
    BY <2>1, <2>2, <2>3
<1>5. \A s \in {"checkpoint", "restore", "open"} : s \in Step \ InTx /\ s # "begin"
  BY DEF Step, InTx
<1> QED
  BY ONLY OpenInv, p \in Procs, <1>1, <1>2, <1>4, <1>5, StepKeepingPlace

LEMMA CallStep ==
  ASSUME OpenInv, NEW p \in Procs, Call(p) PROVE OpenInv'
<1>1. /\ pc[p] \notin InTx /\ GoTo(p, "begin")
      /\ lock' = lock /\ version' = version /\ schema' = schema /\ next' = next
  BY DEF Call, InTx, database, locks
<1>2. Unlock(p)
  BY <1>1, NothingToUnlock
<1>3. conn' = [conn EXCEPT ![p] = "patient"]
  <2>1. conn[p] # "hasty" /\ conn \in [Procs -> {"none", "patient", "hasty"}]
    BY NotHasty DEF Call, OpenInv, TypeOK
  <2> QED
    BY <2>1 DEF Call, Connected
<1>4. /\ "begin" \in Step \ InTx /\ "patient" # "hasty"
      /\ "patient" \in {"none", "patient", "hasty"}
  BY DEF Step, InTx
<1> QED
  BY ONLY OpenInv, p \in Procs, <1>1, <1>2, <1>3, <1>4, StepKeepingPlace

LEMMA EndOfCallStep ==
  ASSUME OpenInv, NEW p \in Procs, Refused(p) \/ EndChange(p) PROVE OpenInv'
<1>1. /\ conn' = conn /\ version' = version /\ schema' = schema /\ next' = next
      /\ conn[p] # "hasty"
  BY NotHasty DEF Refused, EndChange, database
<1>2. Unlock(p)
  <2>1. CASE Refused(p)
    <3>1. pc[p] \notin InTx /\ lock' = lock
      BY <2>1 DEF Refused, InTx, locks
    <3> QED
      BY <3>1, NothingToUnlock
  <2>2. CASE EndChange(p)
    BY <2>2 DEF EndChange
  <2> QED
    BY <2>1, <2>2
<1>3. \E s \in {"open", "lower"} : GoTo(p, s)
  BY DEF Refused, EndChange
<1>4. {"open", "lower"} \subseteq Step \ (InTx \cup {"begin"})
  BY DEF Step, InTx
<1> QED
  BY ONLY OpenInv, p \in Procs, <1>1, <1>2, <1>3, <1>4, StepKeepingConn

\* The death of a process leaves the database as its last commit made it.
LEMMA EndOfProcessStep ==
  ASSUME OpenInv, NEW p \in Procs, Crash(p) \/ Restart(p) PROVE OpenInv'
<1>1. version' = version /\ schema' = schema /\ next' = next /\ GoTo(p, "closed")
  BY DEF Crash, Restart, database
<1>2. CASE Crash(p)
  <2>1. Unlock(p) /\ conn' = [conn EXCEPT ![p] = "none"]
    BY <1>2 DEF Crash, Closed
  <2>2. /\ "closed" \in Step \ InTx /\ "closed" # "begin" /\ "none" # "hasty"
        /\ "none" \in {"none", "patient", "hasty"}
    BY DEF Step, InTx
  <2> QED
    BY ONLY OpenInv, p \in Procs, <1>1, <2>1, <2>2, StepKeepingPlace
<1>3. CASE Restart(p)
  <2>1. pc[p] \notin InTx /\ conn[p] # "hasty" /\ conn' = conn /\ lock' = lock
    BY <1>3, NotHasty DEF Restart, InTx, locks
  <2>2. Unlock(p)
    BY <2>1, NothingToUnlock
  <2>3. "closed" \in Step \ (InTx \cup {"begin"})
    BY DEF Step, InTx
  <2> QED
    BY ONLY OpenInv, p \in Procs, <1>1, <2>1, <2>2, <2>3, StepKeepingConn
<1> QED
  BY <1>2, <1>3

LEMMA StepOpenInv == OpenInv /\ [OpenNext]_openVars => OpenInv'
<1> SUFFICES ASSUME OpenInv, [OpenNext]_openVars PROVE OpenInv'
  OBVIOUS
<1>1. CASE UNCHANGED openVars
  BY <1>1 DEF openVars, database, locks, OpenInv, TypeOK, SchemaWhole, LockIsHeld,
              NobodyAhead, Migrating, Missing, TimeoutKept
<1>2. ASSUME NEW p \in Procs,
             PrepareFiles(p) \/ Opening(p) \/ Using(p)
               \/ MigrationFails(p) \/ Crash(p) \/ Restart(p)
      PROVE  OpenInv'
  <2>1. CASE PrepareFiles(p)
    BY <2>1, PrepareFilesStep
  <2>2. CASE Opening(p)
    BY <2>2, PingStep, ConversionStep, BeginStep, LockTimeoutStep, ReadVersionStep,
       CommitMigrationStep, EndOfMigrationStep, TruncateStep DEF Opening
  <2>3. CASE Using(p)
    BY <2>3, CallStep, BeginStep, EndOfCallStep DEF Using
  <2>4. CASE MigrationFails(p) \/ Crash(p) \/ Restart(p)
    BY <2>4, EndOfMigrationStep, EndOfProcessStep
  <2> QED
    BY <1>2, <2>1, <2>2, <2>3, <2>4
<1> QED
  BY <1>1, <1>2 DEF OpenNext

-------------------------------------------------------------------------------
(* Theorems.                                                               *)

\* Any number of processes that open, use, crash and come back keep the
\* invariant.
THEOREM OpenInvariant == OpenSpec => []OpenInv
<1>1. OpenInit => OpenInv
  BY InitOpenInv
<1>2. OpenInv /\ [OpenNext]_openVars => OpenInv'
  BY StepOpenInv
<1> QED
  BY <1>1, <1>2, PTL DEF OpenSpec

\* However many processes migrate one database at once, and wherever they die,
\* it has each migration up to its user_version exactly once and in order.
THEOREM SchemaStaysWhole == OpenSpec => []SchemaWhole
<1>1. OpenInv => SchemaWhole
  BY DEF OpenInv
<1> QED
  BY <1>1, OpenInvariant, PTL

\* Whoever gets past the last migration of its build has the schema of its
\* build: applyMigration looks for a newer one in every transaction.
THEOREM MigratesExactly == OpenSpec => MigratedExactly
<1> DEFINE Exact ==
      \A p \in Procs :
        pc[p] \in {"tx", "apply"} /\ next[p] <= Knows[p] /\ next'[p] > Knows[p]
          => version' = Knows[p]
<1>1. ASSUME OpenInv, [OpenNext]_openVars PROVE Exact
  <2> SUFFICES ASSUME NEW p \in Procs, pc[p] \in {"tx", "apply"},
                      next[p] <= Knows[p], next'[p] > Knows[p]
               PROVE  version' = Knows[p]
    OBVIOUS
  <2>1. /\ version \in Nat /\ next \in [Procs -> Nat \ {0}] /\ Knows[p] \in Nat
        /\ pc[p] = "apply" => version < next[p]
    BY <1>1, OpenAssumption DEF OpenInv, TypeOK, Missing
  <2>2. next'[p] # next[p]
    BY <2>1
  <2>3. PICK q \in Procs : \/ PrepareFiles(q) \/ Opening(q) \/ Using(q)
                           \/ MigrationFails(q) \/ Crash(q) \/ Restart(q)
    BY <1>1, <2>2 DEF OpenNext, openVars
  <2>4. CommitMigration(q) \/ ReadVersion(q) \/ PrepareFiles(q)
    BY <2>2, <2>3 DEF Opening, Using, Ping, Convert, Upgrade, RetryPing, FailPing,
         BeginMigration, LockTimeout, EndMigrate, Lower, Checkpoint, Restore, Call,
         Begin, Refused, EndChange, MigrationFails, Crash, Restart
  <2>5. CASE CommitMigration(q)
    <3>1. next' = [next EXCEPT ![q] = next[q] + 1] /\ version' = next[q]
      BY <2>5 DEF CommitMigration
    <3> QED
      BY <2>1, <2>2, <3>1
  <2>6. CASE ReadVersion(q)
    <3>1. /\ next' = [next EXCEPT ![q] = next[q] + 1] /\ version' = version
          /\ ~(version > Knows[q]) /\ version >= next[q]
      BY <2>2, <2>6 DEF ReadVersion, TooNew, database
    <3> QED
      BY <2>1, <2>2, <3>1
  <2>7. CASE PrepareFiles(q)
    <3>1. next' = [next EXCEPT ![q] = 1] /\ pc[q] = "closed"
      BY <2>7 DEF PrepareFiles
    <3> QED
      BY <2>1, <2>2, <3>1
  <2> QED
    BY <2>4, <2>5, <2>6, <2>7
<1> QED
  BY <1>1, OpenInvariant, PTL DEF OpenSpec, MigratedExactly

\* A transaction is never turned away by a connection that truncateWAL left
\* without its busy_timeout.
THEOREM BusyTimeoutKept == OpenSpec => RefusedOnlyAfterWaiting
<1> DEFINE Waits == \A p \in Procs : Refused(p) => conn[p] = "patient"
<1>1. ASSUME OpenInv PROVE Waits
  BY <1>1 DEF OpenInv, TimeoutKept, Refused
<1> QED
  BY <1>1, OpenInvariant, PTL DEF OpenSpec, RefusedOnlyAfterWaiting
===============================================================================
