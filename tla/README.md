# TurnCourier in TLA+

TurnCourier (Go, macOS) is a mail bridge for coding agents: when an agent
finishes a turn, a *notification* is sent by SMTP; a *reply* to that mail is
fetched by IMAP and becomes the next user message of the same agent session.
The repository holds the state machines, the SQLite store, the two mail clients
and `turncourier init`; the loops around them (the background service, the
agent adapters, the renderer and the parser of mails) do not exist yet. The
modules here model the parts that exist, and put them to use under the
contracts their comments state for the loops to come.

- [The system](#the-system) · [Modules](#modules) · [Runs](#runs) ·
  [Proofs](#proofs) · [Finding](#finding) ·
  [Assumptions and what is left out](#assumptions-and-what-is-left-out) ·
  [Plan](#plan)

Run a model with `tlc -config MCOutboxDelivery.cfg OutboxDelivery.tla`, the proofs
with `tlapm ReplyProofs.tla` (and likewise every module named `...Proofs`).
`PROJECT.json` lists runs, hazards, theorems, and for every definition the lines
of source it models.

## The system

| Component | State | Operations | Hard parts |
|---|---|---|---|
| Task state machine (`internal/task`) | a task's state | `Next`, `AcceptsReplies`, `CanDispatchReply`, `ResumeAfterUnsent` | the table is the only truth; `DELIVERY_UNCERTAIN` has few ways out |
| Queue state machines (`internal/queue`) | state of a reply, of a notification | `Next`, `NextOutbox` | |
| Tasks and replies (`store/sqlite/tasks.go`, `replies.go`) | tables `tasks`, `task_events`, `inbound_messages`, `replies`, `reply_payloads` | `CreateTask`, `StartTask`, `ApplyTaskEvent`, `RecordReply`, `ClaimNextReply`, `AcknowledgeReply`, `MarkReplyUncertain`, `RequeueUnsentReply`, `ResolveUncertainReply`, `RecoverInFlight` | several processes; stale snapshots; a crash while a reply is with the agent; put-backs that race with turns, fail and close |
| Outbox (`store/sqlite/notifications.go`) | `notifications`, `notification_payloads` | `CreateNotification`, `ClaimNextNotification` (two transactions), `MarkNotificationSent`, `MarkNotificationUncertain`, `RequeueNotification`, `AbandonNotification`, `ResolveUncertainNotification`, `RecordDeliveredMessageID`, `RecoverSendingNotifications` | expiry against a moving clock between the two transactions; close during a send; crash during a send |
| SMTP (`mail/smtp`) | the connection, the watchdog goroutine, its timer | `Send` | silent server, cancelled context, buffered writes, an answer lost after the mail was taken |
| IMAP session (`mail/imap/session.go`) | selected folder, the EXISTS channel, whether it is closed; a goroutine per command, one in `shutdown`, the library's decoder | `Dial`, `ListFolders`, `Scan`, `Idle`, `Close`, all through `do` | a command that outlives its caller, an answer that races with the end of the connection, a decoder that must never wait |
| Watcher (`mail/imap/watcher.go`) | Junk's and IDLE's degradation; login times | `Run`, `serve`, `drain`, `drainJunk`, `wait`, `loginWait` | pushes from the decoder goroutine, cut batches, folders rebuilt, connections lost, a Junk folder that comes, goes or fails without end, a provider that blocks frequent logins |
| Fetch cursors (`store/sqlite/mailbox.go`) | `fetch_cursors`, `inbound_rejections` | `FetchCursor`, `AdvanceCursor`, `RecordRejection`, `Rejections` | a crash between recording mails and advancing; two processes on one folder |
| init (`cli/init.go`, `store/sqlite/instance.go`, `config/write.go`, `security/keychain`) | configuration file, Keychain items, `instance`, `crypto_keys` | `initialize`, `ensureKey`, `findOrAddKey`, `RegisterKey`, `CreateFile`, Keychain `Get`/`Set`/`Add` | three stores without a common transaction; concurrent inits; commands that fail after taking effect |
| Store opening, migrations (`store.go`, `migrate.go`, `wal.go`) | the file, its WAL mode, schema and version; the one connection and its busy timeout | `Open`, `migrate`, `truncateWAL` | several processes and builds at once, SQLITE_BUSY without any wait, a death inside a migration, a PRAGMA that fails between two others |
| Payloads, tokens, configuration, doctor, CLI | none, or text | pure functions and I/O | |

How they meet: the watcher hands a batch to a handler that calls `RecordReply`
(or `RecordRejection`) and then `AdvanceCursor`. A dispatcher claims replies,
gives them to the agent, and reports back; the agent's adapter moves the task
with `ApplyTaskEvent`. Events of a task create notifications; a sender claims
them, calls `smtp.Send`, and records the outcome. Closing a task, in one
transaction, rejects its queued replies and abandons its pending notifications.
`init` makes the keys that payloads are sealed with.

What makes each correct: a reply reaches the agent at most once, in order, and
always ends; a notification is delivered at most once, its recorded outcome is
true, and it always ends; `Send` never calls something "not sent" that may have
been; no command of a session meets another one or the answer to it; no mail is
skipped or left behind; the account is not locked by frequent logins; a
registered key is always the one the Keychain holds; a database has exactly the
schema of its version, and whoever uses it the one of his build.

## Modules

| Module | Models | State and actions |
|---|---|---|
| `TaskStates`, `QueueStates` | the three transition tables | operators only |
| `ReplyStore` | `tasks.go`, `replies.go` | tables as functions by task and a sequence of replies by `seq`. One exported method, which is one IMMEDIATE transaction, is one action; a method that returns an error rolls back and is a stutter. `recent` keeps the two newest events of a task, as many as `putBack` reads. `readable` says of a reply whether `openPayload` can open its body: one that cannot be opened stays at the head of the queue and nothing behind it is claimed. `seen` is the snapshot a caller read before; `dispatchedAt` is a history variable. |
| `ReplyLine` | what the reply queue promises | one line of mails per task, which a mail enters at most once, wherever it is found again: join, be handed out first and alone, come back to the old place, finish, be thrown out when the task is shut |
| `ReplyDispatch` | the queue in use | `ReplyStore` with a dispatcher that claims, hands over and reports, an agent with turns and approvals, a user, an operator, and crashes between any two steps |
| `Outbox` | `notifications.go`, and close in `tasks.go` | a clock, notifications by id, and claims split into `BeginClaim` (abandon what cannot be sent) and `EndClaim` (take the earliest), between which anything may happen. It has no next-state relation of its own: |
| `OutboxDelivery` | the outbox in use | `Outbox` with one sender that crashes, an SMTP session that behaves as `SmtpContract` says, an operator, and the watcher that sees what was delivered |
| `SmtpContract` | what `Send` promises | begin, decide, conclude |
| `SmtpSend` | `smtp.go` | `Send` step by step and the watchdog goroutine; they meet on the unbuffered channel `deadlines` (`Set`), on `quit` and on `done` |
| `SessionContract` | what a command of a session promises | begin, the server's answer, return, refuse, close |
| `SessionCommand` | `do`, `shutdown`, `sleep`, `Idle`, `Close` and `classify` of `session.go` | the caller, the goroutine of `do`, the goroutine of `shutdown`, the decoder (external: as the library behaves towards this code) and the server as processes; `done`, `exists` and `Closed()` as the channels they meet on |
| `MailFetch` | `watcher.go`, the other methods of `session.go`, and from the store the recording of a mail and the cursor | the server's folders, the connection, the EXISTS channel; the watcher as a program counter over the steps of `serve`, `drainJunk`, `drain`, `Scan`, `wait` and `Idle`; Junk created, deleted and found by the hourly LIST |
| `Mailbox` | what `MailFetch` and `FetchCursors` share | operators only: the cursor of a folder without a row, sorted lists of UIDs |
| `FetchCursors` | `mailbox.go`, `drain` | several processes, each with the cursor it read and the batch it scanned, on one row of `fetch_cursors` |
| `LoginPacing` | the loop of `Run`, `loginWait`, `retry` | integer time; where the watcher may sleep, dial or serve, time passes freely |
| `KeyInit` | `init.go`, `instance.go`, `CreateFile`, the Keychain wrapper | several inits as program counters over the three stores; every command of a Keychain operation is a step of its own |
| `StoreOpen` | `store.go`, `migrate.go`, `wal.go` | several processes with a program counter each, over the conversion to WAL (SQLite's locks are external), `retryWhileBusy`, the migrations, `truncateWAL`, and the transactions of the store once it is open |
| `MCReplyStore`, `MCReplyDispatch`, `MCStoreOpen` | | mails, and processes of two builds, for TLC |
| `ReplyProofs` | | theorems about `ReplyStore` and `ReplyDispatch` |
| `MailClientProofs` | | theorems about `SmtpSend` and `SessionCommand` |
| `OutboxDeliveryProofs`, `StoreOpenProofs`, `KeyInitProofs`, `MailFetchProofs`, `FetchCursorsProofs`, `LoginPacingProofs` | | theorems about the module of that name |

Definitions named `...Faulty` (and `UntouchedForgetsMark`, `SetNeverStops`) are
wrong variants of the definition after them: a bug one could make in that code.
Each property of each run is violated when one of them takes the place of the
right definition, which shows that the property can fail. The models never use
them.

A few definitions deserve a word:

- `UntouchedSinceDispatch` (ReplyStore) is the test of `eventsSinceDispatch`:
  the newest events of the task are exactly the dispatch and, for an uncertain
  reply, the loss of its trace. `PutBackOnlyUntouched` says what it is for, in
  terms of the whole history (`dispatchedAt`) and not of the last two events.
- `Restored` (MailFetch) lifts Junk's degradation by `junkRetryAt`, not by a new
  LIST; `HourPasses` makes that instant come.
- `broken` (MailFetch) is a Junk folder whose failures never end: one such folder
  is one fault, whatever it does afterwards.
- `TakeResult`, `Deadline`, `ContextEnds` and `SeeClosed` (SessionCommand) are the
  cases of the select in `do`: when several are ready Go picks any of them.
- `conn` (StoreOpen) is the busy timeout of the one pooled connection;
  `Restore` either puts it back or gives the connection up.
- `Clear`, `Examine` and `Push` (MailFetch) carry the EXISTS protocol: the
  channel is emptied before EXAMINE; what EXAMINE itself reports leaves no
  signal; a mail that arrives in the selected folder is `owed` until the decoder
  reads its EXISTS; mail in another folder is never announced.
- `Begun` (SmtpSend) is when the refinement mapping lets the submission begin:
  when its deadline has been set, before the end mark is written.

## Runs

State counts are distinct states; every run ends in less than three minutes on
four cores.

| Run | Shows | Bounds and why they are enough |
|---|---|---|
| `reply_store` (`MCReplyStore.cfg`) | order, nobody queued in a dead task, uncertain tasks, safe put-backs, the inductive invariant of the proofs, refinement of `ReplyLine` | one task, three replies (one finished, one in flight, one waiting), a duplicate in Junk and a conflicting mail, bodies that can and cannot be opened, one caller with a snapshot, eight versions: dispatch, loss, approval round trip and put-back fit. Several tasks are left to the proofs |
| `reply_dispatch` | at most once, truthful final states, the truth is always accepted, no interrupted turn, every reply ends | two mails and a copy of one found in Junk, bodies that can and cannot be opened, two replies, one crash, one failed hand-over, one approval. The bound on versions is out of reach, so it stops nothing |
| `outbox_delivery` | closed tasks are silent, at most once, true outcomes, claims in time, every notification ends | two notifications, two faults (crash, unanswered submission, abandonment by hand), lifetimes of 3 and a margin of 1 on a clock to 4: a notification can expire between the transactions of a claim |
| `smtp_send` | `Send` returns and keeps `SmtpContract`; an early end is never uncertain; a deadline ends only its own step | two recipients and two chunks: a first, a later and a last step of each kind |
| `session_command` | commands keep `SessionContract`, do not overlap, report a refusal, and everything ends | two commands and two EXISTS: a command after one that timed out, a second signal while the channel holds one |
| `mail_fetch` | nothing skipped, nothing refused, announced mail is not missed | two mails, batches of two (and cut earlier), three UIDs, two UIDVALIDITY values, three faults of any kind, servers that offer IDLE and servers that do not; 4.7 million states |
| `mail_junk` | INBOX is recorded although Junk fails without end; every mail is recorded in the end, also in a Junk that was missing or degraded | one mail, two UIDs, two UIDVALIDITY values, three faults, Junk created and deleted, a server that offers IDLE (without it, and when IDLE degrades, the watcher waits by the same poll); liveness over 341 000 states |
| `mail_idle` | the [finding](#finding) | one mail, no fault |
| `fetch_cursors` | the cursor passes no unhandled mail, never goes back, and a process that lost a race finds its way | two processes, two mails, batches of one, one rebuild, one fault (crash or deletion): a slow process can be two cursors behind |
| `login_pacing` | spacing, pause after a refusal, hourly limit | times scaled to small integers (interval 2, cap 4, window 8 with two logins, pause 5), a run of 14: more than a window |
| `key_init` | a registered key is held, init succeeds and is complete in the end | two inits, two faults (cancel, crash, failed command, replaced code) |
| `store_open` | the schema is whole, builds get their own schema, no hasty refusal, every `Open` ends | three processes of two builds, with one and two migrations, two crashes or failures |

Bounds that are in the guards: rows, versions, attempts, mails, UIDs,
UIDVALIDITY values, time, keys, commands, crashes and faults; each is a `Max...`
constant. Deadlock is checked in `reply_store`, where some operation is always
possible. The other models really stop (`Send` has
returned, both inits are done, the bounded mail and faults are used up), so
their cfg switches the check off, and progress is stated as liveness.

### Fairness

- `ReplyDispatch`: a dispatcher is restarted and goes on, the adapter reports the
  end of a turn and the resolution of an approval, the operator answers for
  every uncertain reply, and stops a task whose queue is blocked by a body that
  cannot be opened. These are the callers' duties in the comments of
  `RecoverInFlight`, `ResolveUncertainReply` and `ClaimNextReply` ("waiting to be
  handled by hand": the store offers no other way out of a blocked queue than to
  shut the task). Nobody owes a new mail, an approval, or any other stop.
- `OutboxDelivery`: the sender is restarted and polls, `Send` ends (`Returns` in
  `SmtpSend`), time passes, the operator answers.
- `SmtpSend`: both goroutines are scheduled, a running timer expires, an
  operation on a closed connection returns. The server owes no answer and the
  context need not end.
- `SessionCommand`: goroutines run, the timers of `do` and `shutdown` expire, the
  decoder sees a connection that this end closed. The server owes no answer, and
  nobody has to call.
- `MailFetch`: every command, wait and transaction of the watcher ends, as each
  has a deadline (`Timeouts`, `IdleMax`, `Poll`, the busy timeout); an hour passes, also
  over rounds that are each shorter (strong fairness of `RelistDue`: the clock runs
  on while the watcher serves); the server announces what it owes. Mail,
  deletions, faults and rebuilds owe nothing.
- `FetchCursors`: every process goes on.
- `StoreOpen`: processes run, and the deadline of `retryWhileBusy` comes even if
  each single attempt finds the file free for a moment (strong fairness of
  `FailPing`: the deadline is absolute, so an attempt that is made again and again
  meets it).
- `KeyInit`: an init that is not stopped goes on; a failed one is run again, as
  its messages tell the user.

## Proofs

`ReplyProofs` proves about `ReplyStore`, for every set of tasks, mails and
callers and every bound, from `StoreAssumption` alone (mails name existing
tasks, `NoTask` is not a task, the bounds are naturals):

| Theorem | States |
|---|---|
| `TypeCorrect` | `Spec => []TypeOK` |
| `StoreInvariant` | `Spec => []IInv` |
| `RepliesInOrder` | `Spec => []InOrder` |
| `NobodyWaitsInVain` | `Spec => []QueuedOnlyWhileAccepting` |
| `BodiesKept` | `Spec => []BodyWhileNeeded` |
| `UncertaintyHasCause` | `Spec => []UncertainTaskHasReply` |
| `NoStaleDecision` | `Spec => []SnapshotIsCurrent` |
| `PutBackIsSafe` | `Spec => PutBackOnlyUntouched` |

The argument. No property is inductive alone, so `IInv` joins to them four
facts: a snapshot is never ahead of its task (`SnapshotsNotAhead`), a task with a
reply in flight was started (`InFlightHasStarted`), no mail has two rows
(`OneRowPerMail`, which is what lets the refinement name a mail), and the newest events of a
task show no dispatch but that of its reply in flight (`DispatchMarks`). The last one
is what makes the two-event test of `putBack` mean "nothing happened since the
dispatch". `QueuedOnlyWhileAccepting` needs `InFlightHasStarted`: a put-back leads
to the state recorded at dispatch, which accepts. The proofs come in three layers:
the tables (`ManualNext`, `StoreNext`, `ReplyTable`); what each operation writes,
with the type of the row (`UpdateReplyWrites`, `ClaimWrites`, `PutBackWrites`, ...);
and one lemma per conjunct of `IInv` that a step can disturb (`OrderStep`,
`BodyStep`, `SnapshotStep`, `StartedStep`, `MarksStep`, `QueuedStep`,
`UncertainStep`), joined in `InvariantStep`.

`StoreOpenProofs` proves about `StoreOpen`, for any processes, builds and number of
crashes, from `OpenAssumption` (every build has a migration, `None` is no process):

| Theorem | States |
|---|---|
| `OpenInvariant` | `OpenSpec => []OpenInv` |
| `SchemaStaysWhole` | `OpenSpec => []SchemaWhole` |
| `MigratesExactly` | `OpenSpec => MigratedExactly` |
| `BusyTimeoutKept` | `OpenSpec => RefusedOnlyAfterWaiting` |

A commit appends the migration a process is at, so the schema stays whole only if
that is the one the database lacks. `Missing` says it is not applied yet (the process
has read the version, and the lock has kept it since), `NobodyAhead` that none
before it is missing either; both need `LockIsHeld`, that nobody else is in a
transaction. `TimeoutKept` follows the connection through `truncateWAL`. Most steps
are instances of one lemma, `StepOutside`: the database stays as it is and one
process goes to a place outside of any transaction.

`OutboxDeliveryProofs` proves about `OutboxDelivery`, for any tasks, notifications,
lifetimes, delays and faults, from `OutboxAssumption`:

| Theorem | States |
|---|---|
| `DeliveryInvariant` | `DeliverySpec => []DeliveryInv` |
| `OutboxTypeCorrect` | `DeliverySpec => []OutboxTypeOK` |
| `ClosedTasksAreSilent` | `DeliverySpec => []ClosedTasksSendNothing` |
| `DeliversAtMostOnce` | `DeliverySpec => []DeliveredAtMostOnce` |
| `OutcomesAreTrue` | `DeliverySpec => []OutcomeIsTrue` |
| `NoExpiredClaims` | `DeliverySpec => ClaimsInTime` |

The heart is `RowTrue`: a PENDING row was certainly not accepted by the server.
Every way back to PENDING must establish it, which takes three facts about what
is not in the table: the session knows how it stands with the server
(`SessionIsTrue`), a running sender works on the only SENDING row
(`SendingHasSession`, which recovery at start-up makes true again after a crash), and
it claims only between two sessions (`ClaimsAlone`). `RowStep` covers every
operation on one row, `AbandonPendingStep` both sweeps, and
`OnlyEndNextClaims` says that no other step starts a send. `OutboxTypeOK` holds of
each row what the CHECK constraints of `0002_mail.sql` demand (`Checked`: expiry
after creation, a reason exactly for ABANDONED, a delivered id only on SENT, a sending
time exactly for SENT), so the theorem says that no statement of the code can
ever be refused for one of them; `MarkSent` is the step it could have failed in.

`ReplyProofs` proves about `ReplyDispatch`, for any tasks, mails, crashes and failed
hand-overs, from `StoreAssumption` and `DispatchAssumption`, and about the
refinement:

| Theorem | States |
|---|---|
| `DispatchInvariant` | `DispatchSpec => []DispatchInv` |
| `NeverTwice` | `DispatchSpec => []AtMostOnce` |
| `FinalStatesAreTrue` | `DispatchSpec => []FinalStateIsTrue` |
| `TruthAlwaysAccepted` | `DispatchSpec => []TruthIsAccepted` |
| `AgentNotInterrupted` | `DispatchSpec => NeverInterrupts` |
| `StoreImplementsLine` | `Spec => ImplementsLine` |
| `DispatchImplementsLine` | `DispatchSpec => ImplementsLine` |

Every step of the queue in use is a call of the store with the version it has just
read, or leaves the store alone; `StoreCall` says so, and the lemmas about
`ReplyStore` are about it, so `IInv` holds here for nothing. What is added
relates the tables to the people around them: what the state of a reply says about
whether the agent got it (`ReceivedTrue`, with `OneRowPerMail` also that it got no
mail as two replies), what the dispatcher's job is and that it
is the reply in flight (`JobTrue`), that a reply in flight which the agent never got
has left its task as it was at the dispatch (`Undisturbed`), and that the agent is
where its task is (`AgentFollows`). `Undisturbed` is what makes the store's
two-event test accept the truth: it is the converse of `PutBackIsSafe`. The
refinement splits by action of the store, and for each by what it does to the one
row it writes and, for a close or a fail, to the rows it sweeps.

`KeyInitProofs` proves about `KeyInit`, for any number of inits and faults, from
`InitAssumption` (`"none"` is not the name of an init):

| Theorem | States |
|---|---|
| `InitKeepsKeys` | `FairInitSpec => []RegisteredKeyIsHeld` |
| `InitLeavesUsable` | `FairInitSpec => []UsableWhenDone`, what an init that returns without error leaves behind |

`KeysAgree` says of each init what it has made sure of by the stage it is in
(`ConfigAndCode`, `KeysSoFar`), and that the key it is about to register is the one
the item holds (`KeyInHand`); a key item once there is never replaced, as `Add` refuses
an existing one. Six lemmas take the six kinds of steps; that the other inits undo
nothing of this is in `Frame` and `OthersKeep`.

`MailFetchProofs` proves about `MailFetch`, with a Junk folder, without one or with one
that comes and goes, for any number of mails, UIDs, rebuilds and faults and any size
of a batch, from `MailAssumption`:

| Theorem | States |
|---|---|
| `MailInvariant` | `MailSpec => []MailInv` |
| `NoMailSkipped` | `MailSpec => []NothingSkipped` |
| `NoScanRefused` | `MailSpec => []NeverRefused` |
| `HeardMailRecorded` | `MailSpec => []HeardMailIsNotMissed` |

A scan reads the folder in several commands, and between any two of them the server
may deliver, delete, move or rebuild. `Covered` is what stays true of the batch all the
same: up to its next cursor everything still there is recorded or in the batch, and
what was found at a UID is what is there (`IsAt`), if the UIDVALIDITY is still the
one of the batch. `Searched` is what the rest of a search is good for: mail that came
later lies above all of it. It needs the folder to keep its UIDVALIDITY, and that is
what `ScanTrue` ties to the connection: while it lives, the folder being scanned
is the selected one, and a selected folder is not rebuilt under a live connection.
The cursor may only be written when the batch is empty of mail to record, which
is where `Covered` becomes `Passed` and then `NothingSkipped`. `NeverRefused` needs
that the rows are true of the folders too (`RowsTrue`), so that a mail fetched again
meets its own row (`Agrees`); and that UIDs in a batch differ (`InUidOrder`).
`SignalKept` follows a signal that Junk's scan takes out of the channel: into
`putback`, back into the channel, and into another round.
All that the server can do to a folder is `Later`, as below.

`FetchCursorsProofs` proves about `FetchCursors`, for any processes, mails, rebuilds
and faults and any size of a batch, from `CursorsAssumption`:

| Theorem | States |
|---|---|
| `CursorsInvariant` | `CursorSpec => []CursorsInv` |
| `NoMailPassedOver` | `CursorSpec => []PassedMailIsHandled` |
| `CursorsNeverGoBack` | `CursorSpec => CursorOnlyAdvances` |

What the row promises must hold of every stale copy of it as well, since a process
that was overtaken may yet write (`Passed`); a batch accounts for what lies between
its copy and its next cursor (`Covered`); and a rejection found at its place must be
of the mail that is there now (`IsAt`). `Later` is all that the server can do to
a folder, and the three survive it (`PassedLater`, `CoveredLater`, `IsAtLater`).

`LoginPacingProofs` proves about `LoginPacing`, for any intervals, limit and window,
from `PacingAssumption`:

| Theorem | States |
|---|---|
| `PacingInvariant` | `PacingSpec => []LimitInv` |
| `NeverTooManyLogins` | `PacingSpec => []LoginsLimited` |
| `NeverTooSoon` | `PacingSpec => []LoginsSpaced`, if `Initial <= LoginWindow` |

The watcher counts by its own times, which are never before those of the server,
and forgets a login that is a window old. `Counted` ties the two: the list it keeps is
the end of what it sent, and what it forgot is old enough. The pause needs the
list to remember at least the last login, and so `NeverTooSoon` has the hypothesis
`ShortPause`. The code does not compare the two settings; by default they are 15
seconds and one hour. Where the invariant needs a least element (the first fresh
login), it comes from the well-founded order of the naturals.

`MailClientProofs` proves about the two mail clients: `SmtpSend`, for any number of
recipients and chunks, from `SendAssumption`, and `SessionCommand` (whose
specification is `SessionSpec`), for any number of commands and signals:

| Theorem | States |
|---|---|
| `SendInvariant` | `Spec => []SendInv` |
| `EarlyEndNotSent` | `Spec => EarlyEndIsNotSent` |
| `DeadlinesBelongToSteps` | `Spec => DeadlineBelongsToStep` |
| `SendKeepsContract` | `Spec => KeepsContract`, `Send` implements `SmtpContract` |
| `SessionInvariant` | `SessionSpec => []SessionInv` |
| `SessionKeepsContract` | `SessionSpec => KeepsSessionContract`, a session implements `SessionContract` |
| `CommandsAreAlone` | `SessionSpec => CommandsDoNotOverlap` |
| `RefusalsAreSeen` | `SessionSpec => RefusalIsSeen` |

So what `OutboxDelivery` and `MailFetch` take for granted of the clients is itself
proved. For `Send`, `StepsShape` says where the submission stands among the steps
of any list of recipients and chunks; `WireFollows` that the end mark is on the wire
only once the submission has begun, and that an answer to it is the server's; and
`TimerFollows` that the watchdog holds a timer only between the two `set`s around an
operation. `EarlyEndIsNotSent` looks into the future, so it needs a fact that persists:
`StoppedInTime`, a context or deadline that ended by the time of `Check`.
For the session the difficulty is that `do` returns while its goroutine, the
decoder and the server's answer are still under way. `DoneWithLast` says that a
session which is open and at rest has neither a goroutine left nor an answer
unread, because every way to leave `do` without the result closes the session
(`CallerFollows`); `AnswerFollows` that a tagged answer among what the decoder has still to read is
the only one and the server's to the command that runs. `RefusalIsSeen` holds
since a command ends in `closed` only when its answer is an error or never came.

Only model-checked: all liveness (`Returns`, `CallsEndCleanly`, and the `~>` and
"in the end" properties of the other runs), as fairness and ENABLED are out of the
prover's reach. Every other property of a run that passes is a theorem.

## Finding

The comment in `Scan` (`session.go:394`, and `docs/zh-CN/plans/phase-04.md:1738`)
says that every new mail is either covered by the UID SEARCH or makes the next
Idle return at once. That was written when INBOX was the last folder scanned. Now
`serve` scans Junk after INBOX and selects INBOX again before IDLE. Run
`mail_idle` shows a mail that reaches INBOX while Junk is selected: no EXISTS is sent
for a folder that is not selected, the EXAMINE INBOX in `serve` reports the mail in
its own result and leaves no signal, and IDLE waits with the mail unrecorded
until another one arrives or `IdleMax` is over. The same happens to an EXISTS that
is read between `drainJunk`'s look at the channel (`watcher.go:267`) and the emptying
of it in Junk's `Scan`. The mail is late by one IDLE, not lost: `EveryMailRecorded`
holds (`mail_junk`), and with `JunkExists = FALSE` `IdleMissesNothing` holds too. What the put-back
of the signal does protect is `HeardMailIsNotMissed`.

## Assumptions and what is left out

- The operator tells the truth about uncertain replies and notifications, and a
  server does not take a mail after the operator has looked.
- There is one dispatcher, one sender and one watcher; the code says so for
  recovery, and leaves the lock to the service to come. Two senders are not
  composed: `RecoverSendingNotifications` takes every SENDING row for its own. The
  store's other callers are any number of processes, two of which drain one
  folder in `FetchCursors`.
- The clock never goes back.
- Validation of arguments, ids, token fields and message owners is abstracted: the
  actions take valid arguments. Whether a payload can be opened is a Boolean of
  the row (`readable`), of replies as of notifications, and does not change. The WAL checkpoint after a commit changes no row; what it
  does to the connection is in `StoreOpen`.
- In `MailFetch` a command of an IMAP session is one step with the outcomes of
  `SessionContract`; the goroutines under it are in `SessionCommand`. There, a
  goroutine that has its answer is not kept from the processor for the whole
  of `IdleStop`; without that a refusal could be reported as a lost connection.
- UIDVALIDITY only grows, and a folder rebuilt while selected drops the
  connection. UIDs stay below their 32-bit limit, at which `Scan` stops searching.
- SQLite's behaviour (locks, SQLITE_BUSY, undone transactions) is modelled as
  `store.go` and its comments rely on it. The permission checks of `prepareFiles` are left out. In
  `StoreOpen` one kind of transaction, that of `changeReply`, stands for all that end in
  `truncateWAL` (`applyEvent`, `changeNotification`, the claim of a notification):
  what they do to the connection is the same. A migration can fail when it begins,
  when it reads the version and while it applies; each is a `MigrationFails`.
- The user runs a failed init again; replacing an authorization code counts as a
  fault so that it cannot go on for ever.

Not modelled, because there is no protocol in them, only byte strings, text or
plain I/O: payload encryption and reply tokens (pure functions; the store sees
whether a content can be opened, `readable`), reading and checking the configuration
(writing it is in `KeyInit`), message parsing, doctor (external tools run one after
another), the command line and terminal, repository tools and live probes. Of the
Keychain wrapper, `Delete`, which no command uses, and the text formats of
the `security` tool are left out.

## Plan

Done: the store core first (`ReplyStore`, its abstraction, its proofs), then its
use, the outbox and its use, SMTP with its contract, mail fetching, login pacing,
init; then the session under the watcher, cursors shared by processes, Junk
created and deleted, opening and using the store; then the proofs of the store,
the outbox, the queue in use, init, mail fetching, cursors and pacing; last, that
the two mail clients keep their contracts. What is left is for the code to come:
the background service's lock on dispatcher and sender, and the handler between
a batch and the store, which the models now take to be as the comments ask.
