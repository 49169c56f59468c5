# Verification of Sky-Claw's transactional core

Sky-Claw is a local control plane for modding Skyrim over Mod Organizer 2: one
Python process, built on asyncio, that lets services and an LLM agent run
external tools (LOOT, xEdit, Synthesis, DynDOLOD, ...) on the user's mod files.
What keeps those files and the program's own databases intact is a layer of
coordination code: who owns which SQLite connection, who holds which lease on a
resource, how a failed tool run is rolled back, how the operator's approval
reaches a tool, how a sandboxed run is promoted, how the access lists of a
protected installation are changed, and how events travel between the parts. This
directory holds TLA+ models of that layer, the TLC runs that check them on small
instances, and proofs checked by TLAPS for every instance.

`PROJECT.json` is the index: components, runs, mutants, the map from every
definition to the lines it models, hazards and theorems.

## 1. The system

| Part | State it keeps | Operations | What makes it correct |
| --- | --- | --- | --- |
| `app/core/db_lifecycle.py` DatabaseLifecycleManager | registry path -> connection, quarantined paths, count of admitted work, transition / init / per-path locks | `operation`, `transaction`, `get_connection`, `checkpoint_all`, `recover_connection`, `init_all`, `shutdown_all` | nobody uses a closed, dirty or replaced connection; shutdown waits for everything and closes everything; a condemned file is not served |
| `app/db/locks.py` DistributedLockManager, `adquirir_lease_definitiva`, `liberar_lease_definitiva` | the `resource_locks` table, last token minted, supervisors of late operations | acquire, renew, release, force_release, cleanup_expired, close | one holder per resource while its term runs; no lease outlives its caller unnoticed; no session touches another's lease |
| `app/db/locks.py` SnapshotTransactionLock with `app/db/snapshot_manager.py` | snapshots, heartbeat, `lease_lost`, `rollback_failures` | enter, body, `assert_owned`, exit with rollback | on failure the files are as before and nobody else's work is lost; what is reported about the rollback is true |
| `app/core/event_bus.py` CoreEventBus | bounded queue, dispatcher, handler tasks, DLQ tasks, counters | start, stop, publish, subscribe, unsubscribe | no accepted event vanishes uncounted; stop() ends and leaves nothing behind |
| `app/core/dlq_manager.py` DLQManager | `dead_letter_events` rows: pending, in_progress, dead | enqueue, retry loop, stale-row recovery | at-least-once delivery, bounded attempts |
| `app/security/hitl.py` HITLGuard, `app/comms/telegram.py` prompt registry, `_hitl_notify` of `app_context.py` | pending requests and their decisions; tokens and messages of prompts | request_approval, respond, timeout, register / release of a token, edits of the message | one decision per request, and the waiter returns it; a finished request leaves no token and no live button |
| `app/orchestrator/tool_state_machine.py`, `tool_strategies/middleware.py` | tool state, idempotency keys with a TTL | acquire, release, transition, the approval gate around a tool | a destructive tool runs only when approved; one run per key within its TTL |
| `local/tools/_dir_rollback.py`, `rollback_reconciler.py` | a target directory, its move-aside backups, the ritual's lease | enter, body, restore, discard, commit; reconcile at start | the last good generation is never destroyed, and comes back |
| `local/mo2/profile_sandbox.py`, `app/orchestrator/sandbox_promotion.py`, `execute_synthesis.py` | clone, baseline, `rollback-*` copies, the deferred journal transaction | clone, diff, gate, promote, undo, discard, resolve, sweep | all files or none; user edits survive; the journal says which |
| `app/db/journal.py`, `rollback_manager.py` | journal of transactions and file operations | begin / commit / mark rolled back / undo | a transaction's row says what became of its files |
| `local/runtime_vault/*` | authorized plan, write-ahead journal, lock file, backup archive, access lists of the Golden | apply, recover, finalize | a crash between two steps is recoverable, fail-closed; what the journal says of the tree is true |
| `local/frozen_runtime/*` | durable binding journal, root lock, generations | bind, approve, recover | a crash between two steps is recoverable |
| `local/mo2/*` | broker and worker processes of the virtual file system | session messages | a worker's outcome is known or reported as unknown |
| tools, agent, comms, GUI, scraper, formats, installer | mostly I/O | | not the subject of models |

How they interact: every database of the process is opened by the
DatabaseLifecycleManager. DistributedLockManager, the journal, the registry of
mods and the DLQ run their statements in its `transaction()`, so they are
serialised per file and refused during shutdown. SnapshotTransactionLock
composes a lease with snapshots; the tool services wrap their runs in it. The
event bus hands failed or dropped deliveries to the DLQ. A tool call passes the
idempotency guard, then the approval gate, which asks the operator over
Telegram, and then runs its strategy; the Synthesis strategy runs in a sandbox and
promotes the result, its journal transaction being resolved afterwards. At the
next start the reconciler puts back or collects what a dead process left. The
runtime vault is a program of its own kind: processes that share only files.
Everything else runs in one event loop: between two awaits nothing else runs, at every await anything may,
and any task may be cancelled there. Threads appear only behind
`asyncio.to_thread` and aiosqlite, and those a cancellation does not stop.

What is hard: cancellation at every await; a commit whose result arrives late;
a rollback or a close that fails too; work admitted before a shutdown and
suspended anywhere; a TTL that lapses while something without a heartbeat runs;
a dispatcher that dies with a full queue; a decision that arrives while the
prompt is still being sent; a thread that goes on writing after its awaiter was
cancelled; a crash between a record and the change it announces. `PROJECT.json`
lists these under `hazards`, each at its line.

## 2. Modules

| Module | Models | Runs |
| --- | --- | --- |
| `DbLifecycle` | DatabaseLifecycleManager, and the recovery window of `AsyncModRegistry.open` | `db_*` (module `MCDbLifecycle`) |
| `DbLifecycleProofs` | theorems about `DbLifecycle` | proofs |
| `Lease` | what a lease promises (abstract specification) | through `LeaseLocks` |
| `LeaseLocks` | the lock table, its transactions, the durable primitives, heartbeat, close | `lease_*` (module `MCLeaseLocks`) |
| `SnapshotTx` | SnapshotTransactionLock over `LeaseLocks` (EXTENDS it) | `tx_*` (module `MCSnapshotTx`) |
| `LeaseProofs` | theorems about `LeaseLocks` and `SnapshotTx` | proofs |
| `EventBus` | CoreEventBus | `bus_lifetimes` (module `MCEventBus`) |
| `EventBusProofs` | theorems about `EventBus` | proofs |
| `DlqManager` | DLQManager, several of them over one table | `dlq_retry` (module `MCDlqManager`) |
| `DlqManagerProofs` | theorems about `DlqManager` | proofs |
| `DirRollback` | DirectoryRollback and the reconciler of move-aside backups | `dir_moves` (module `MCDirRollback`) |
| `DirRollbackProofs` | theorems about `DirRollback` | proofs |
| `HitlPrompt` | HITLGuard, the notify closure, the registry of Telegram prompts | through `ToolDispatch` |
| `ToolDispatch` | IdempotencyGuard and the middlewares around a tool, over `HitlPrompt` (EXTENDS it) | `tool_gate` (module `MCToolDispatch`) |
| `ToolDispatchProofs` | theorems about `ToolDispatch` and `HitlPrompt` | proofs |
| `SandboxPromotion` | the sandbox flow, its promotion thread, the deferred journal row, the sweep and collection of a later start | `promotion` (module `MCSandboxPromotion`) |
| `SandboxPromotionProofs` | theorems about `SandboxPromotion` | proofs |
| `VaultProtection` | the protection transaction of the runtime vault | `vault_crashes` (module `MCVaultProtection`) |
| `VaultProtectionProofs` | theorems about `VaultProtection` | proofs |

Each module has a `TypeOK`: the declaration of its state, for the reader and for
proofs. It is proved for every module (section 4) and is not among the properties
of the runs, which are about behaviour.

Definitions marked `mutant` stand before the definition they are a wrong variant
of; they are used by no specification, only listed in `PROJECT.json` as what each
property must be able to reject.

### DbLifecycle

`pc[t]` is the await at which task `t` is suspended, so one action is the code
between two awaits. `connections`, `quarantined`, `dbPaths`, `admitted`,
`drained`, `shuttingDown`, `closed` and the locks are the manager's fields.
Connections are numbers; `connOpen` and `dirty` say which have an open
descriptor and an open transaction; `inode` is the generation of the file at a
path, which the forensic rename of a recovery bumps. `condemned` records, for the
properties, which files were declared corrupt.

* `Enter*` are the public calls past `_admit()`; a rejected call changes nothing
  and is no step.
* `Resolve`, `AcquireInit` and `Open*` are `_resolve_connection` and
  `_init_single`: the opening may work, fail cleanly, fail with the handle lost
  (logged), or leave a connection that is registered and quarantined.
* `BodyReturn`, `BodyRaise`, `Commit`, `Rollback` and `Invalidate*` are
  `transaction()` with `_rollback_after_failure` and the shared invalidation.
* `BeginInvalidate`, `Rename`, `Reopen` are the recovery window.
* `Scan`, `BeginCheckpoint`, `Checkpoint`, `Drained`, `Truncate`, `BeginClose`,
  `CloseOk`, `CloseFail` are the loops of `checkpoint_all`, `init_all` and
  `shutdown_all`.
* `Cancel` is a cancellation (or a failing file move) at any await outside the
  SQL of a body; cancellation inside SQL is shielded by the code and shows up as
  `BodyRaise` or a failing rollback.

Abstractions: `init_all` iterates over a snapshot of `dbPaths`; `asyncio.Lock`
is not modelled as FIFO (any waiter may get it); a rename whose await is
cancelled counts as not done. `health_check`, `evict_connection` and
the synchronous atexit shutdown are not modelled.

### LeaseLocks and Lease

One resource. A session is one caller: its coroutine (`pc`), the shielded task
running `acquire_lock` or `release_lock` (`job`), which outlives a cancelled
caller, and the heartbeat (`hb`). `tx` is the transaction inside the lifecycle
boundary: the clock is read when it begins (`JobBegin`, `RenewBegin`) and the row
changes when it commits. The commit's return to the task is a third step
(`JobReturn`, `RenewReturn`), which is where the checks C6 and C7 compare the
clock with the expiry. `until` is the last expiry a session was told and `owner`
the session whose commit wrote the row; both are history. `AgentOf` gives all
sessions the same `agent_id` in the runs, as the services do.

`Lease` is the promise without tasks, tokens or transactions: one holder, entry
only with the term running, an end by leaving or by the term alone.
`KeepsPromise` says that `LeaseLocks` implements it under the mapping of
`Promise`.

The branch of each method that runs without a lifecycle manager is legacy and is
not modelled. `release_lock` and `acquire_lock` of other resources do not
interact beyond the boundary, so one resource is enough.

### SnapshotTx

EXTENDS `LeaseLocks`; `Next` is a step of the lease machinery that leaves the
context alone, or a step of a context, which uses the lease actions
(`StartHeartbeat`, `StopHeartbeat`, `StartRelease`) where `__aenter__` and
`__aexit__` call them. A file's content is the session that wrote it last, and
`Torn` after a copy that broke off. The order of snapshots and of restores is
left open. Targets that do not exist when the context is entered are skipped by
the code and are not in `Files`. A crash is not part of this module: what
happens then is the business of the journal and the reconciler.

`Pace` names what a run assumes of time, because the code's guarantees depend on
it: "free" nothing; "prompt" a heartbeat renews in time (which `renew_divisor` is
chosen for) and a fresh lease is handed over within its term; "entered" also the
snapshots end within the term; "timely" also the rollback does. `tx_timely` shows
what holds under the strongest. The weaker ones are there because the code covers
neither the snapshots nor the rollback with a heartbeat (`locks.py:1562`, `1654`):
with `Pace = "prompt"` TLC finds `SafeZoneHeld` violated (snapshots that outlast
the term let the body start without the lease), with `Pace = "entered"`
`RestoreNeverClobbers` (a rollback that outlasts the term restores over the next
holder's work); changing that one line of `SnapshotTx_timely.cfg` reproduces either.

### EventBus

The dispatcher does not await while it routes one event, so `Dispatch` is one
step over all subscribers. `stopping` is the phase `_stop_started_bus` is in.
Every handler matches every event; `subscribe`, `unsubscribe` and pattern
matching are left out. A handler task counts as running from the step that
creates it: the event loop's ready queue is first in, first out, so it takes its
first step before a `stop()` that waits for the dispatcher goes on. `done`,
`saved`, `counted` and `accepted` are history.

### DlqManager

A row of `dead_letter_events` is its status, its counter and two relative times
(`age` since `updated_at`, `wait` until `next_retry_at`); a worker is one
DLQManager on the file, and `pc` says where its `_retry_loop` is. Every
transaction is one step, because `_write_transaction` finishes its commit or its
rollback whatever cancels it; handlers run between steps. `Interrupt` is a stop
or a crash, `DbError` a transaction that fails, `RecoverFails` the error that
ends the loop before its first poll. `good`, `bad`, `undeleted` and `erred` are
history.

Two assumptions are constants, because the guarantees depend on them. `Prompt`: a
claimed row is settled within the minute after which a second manager takes it
for abandoned; no code enforces that, and with `Prompt = FALSE` TLC finds
`RepeatsAccounted` violated. `LateStart`: the start that follows a crash comes when
the rows of the crash are stale; only a start looks for them, so after an
immediate restart a row waits for the next one, and `RowSettles` fails with
`LateStart = FALSE`.

### DirRollback

One target directory. A run is one use of `DirectoryRollback`, numbered in order,
so that its number is its nonce and the generation it writes. Trees are whole,
partial, empty or a link; every call on a tree may fail half way. `Enter`,
`MoveAside`, `BodyReturns`, `BodyRaises`, `ClearTarget`, `PutBack`, `Validate`,
`Discard` and the others are the steps of the context; `SweepBegins`, `SweepOne`
and `SweepEnds` are the reconciler of a later start, which takes the ritual's
lease first. The lease is external here: it is held, lost with the heartbeat's flag
raised, or left behind by a dead process until it expires. `CalmRestore` says
that it is not lost between the look at the flag and the end of the moves: the code
looks once (`_dir_rollback.py:488`), and without the assumption a restore may
replace what the next holder wrote.

### HitlPrompt and ToolDispatch

`HitlPrompt` is a request to the operator from the insertion into `_pending` to the
finally block, with the notification that sends the prompt, the task that
registers its message, the operator's `respond()` and the observers that edit the
message, each cut at its suspensions. `wait_for` runs an observer as a task, which
a cancellation in the same instant stops before its first step (Python 3.11):
`cutOff` records that, `unshown` an edit that failed, was cut off or had no
message to edit; they are the exceptions `PromptSettled` names.

`ToolDispatch` puts the idempotency guard and the gate around it. A middleware runs
on without suspension when the inner call returns, so `Resume` has priority over
every other step (`Returned`). The middlewares for progress and timing are left
out. Two calls share one key; being interchangeable they are ordered by the state
constraint `C1First`, which, unlike a symmetry set, is sound with liveness here:
it removes whole behaviours, never the end of one (once `c1` is dispatched the
constraint stays true).

### SandboxPromotion

One run of the flow over a few files. A content is `old`, `new`, `user`, `torn` or
`absent`; `real`, `base` and `copy` are the real tree, the baseline of the clone and
the clone. `thread` is `_promote_sync`, which goes on when its awaiter is cancelled:
gate, backup, application and undo, one file a step. `pc` is the flow's coroutine
with its clean-up; `tx` and `staged` are the journal's row and the deferred
commit of `StagingJournal`. `Restart` is a later start: the sweep of pending rows and
the collection of clones. `Edit` is the user or MO2 changing a real file at any
time; `early` remembers edits before the drift gate, which must survive, `late` the
files edited after it, of which nothing can be promised. The properties name
their exceptions by the history variables `unclean`, `swept` and `torn`; section 3
says what the code does there.

### VaultProtection

One operation on one Golden tree, worked on by processes that share only files:
the plan, the journal (its derived state `jst`, the last record `wal` of every node
and whether the file's end is whole), the lock file, the archive of backups, and
the access list of every node. `mem[p]` is what process `p` believes of the journal
since it opened it. Every call may fail, an append may reach the disk although
its flush reports an error, and a process may die at any step (`Crash`). `Drift` is a
foreign change to the tree, only while nobody has the lock file open and the
journal is open: the lock cannot stop one at other times, but then
no property speaks of the tree.

Apply (`Establish` ... `CloseSession`), recover (`ReadPlan` ... `Restored`) and
finalize (`StartFinalize` ... `Commit`) are the three entry points. The repository
has no productive caller of the session yet, so what its holder does next is left
open. The finalizer reads the journal's state before it takes the lock, and is
right only because the append handle's share mode refuses a second writer
(`protection_journal_store.py:527-544`): `OneWriter` is violated as soon as
`OpenJournal` shares. A lock that was retained keeps every other process out, its
own process included, until that process ends. `lock.phase = "loose"` marks
releases that the code does although the transaction is not settled (section 3);
`ReleasedIsSettled` is about all others. Not modelled: a torn lock file, the
publication of the operation's lock binding (it precedes the first lock), and a
second operation on the same Golden.

## 3. Runs

State counts are TLC's distinct states; each run ends within two minutes on two
workers.

| Run | Instance | Shows |
| --- | --- | --- |
| `db_boundary` | 3 tasks, 1 path, 2 connections, all operations but `get_connection`; 209,042 | `NoUseAfterClose`, `ExclusiveUse`, `NoDirtyHandover`, `ServedFromCurrentFile` |
| `db_paths` | 2 tasks, 2 paths, transactions, recoveries, `get_connection` and `shutdown_all`, fair; 465,712 | `ClosedMeansClosed`, `EntryLeavesClosed`, `ShutdownEnds` |
| `lease_renewal` | 2 sessions, TTL 2, 5 time units, one crash; 392,554 | `HolderHolds`, `KeepsPromise` (refinement of `Lease`) |
| `lease_durable` | 2 sessions, TTL 1, one clock step back, one force_release, close; 2,599,981 | `NoLeakedLease`, `ForeignLeaseUntouched` |
| `tx_rollback` | 1 context, 2 files, 2 attempts, time free, cancellable restores; 56,427 | `RollbackReportTruthful`, `RestoreBeforeRelease` |
| `tx_timely` | 2 contexts, 1 file, TTL 1, 3 time units, timely; 1,795,900 | `SafeZoneHeld`, `RestoreNeverClobbers` |
| `bus_lifetimes` | 2 publishers, 2 handlers, 2 events, queue 1, caps 2 and 1, 2 starts, fair; 298,079 | `EventsAccounted`, `StoppedMeansQuiet`, `StopReachesStopped`, `PublishEnds` |
| `dlq_retry` | 1 row, 2 managers, 2 attempts, 4 faults, fair; 57,655 | `RowEndEarned`, `RepeatsAccounted`, `RowSettles` |
| `dir_moves` | 2 runs, 3 faults, the reconciler, fair; 156,671 | `LastGoodKept`, `ReportTruthful`, `NeverClobbers`, `TargetComesBack` |
| `tool_gate` | 2 calls with one key, a registry of 1 entry, TTL 1, fair; 321,081 | `NoUnapprovedRun`, `FirstAnswerCounts`, `PromptSettled`, `KeyFollowsCall`, `GateReturns` |
| `promotion` | 2 files, 1 edit, 2 faults, 2 cancellations, fair; 130,247 | `AllOrNothing`, `BackupOutlives`, `JournalTruthful`, `NothingLeftBehind` |
| `vault_crashes` | 3 processes, 2 nodes, 2 archive attempts, any number of crashes; 603,848 | `RolledBackIsClean`, `CommittedIsWhole`, `ReleasedIsSettled`, `OneWriter`, `OnlyRecordedNodes` |

Why the bounds are enough to be interesting. Three tasks are one in service, one
that fails or recovers and one that shuts down; two connections on one path are
the one that is replaced and its replacement. Two sessions are a
holder and a challenger; TTL 2 with 5 time units lets a term run, be renewed once
and lapse under a slow commit, while TTL 1 makes every commit race its own
expiry; the loop of attempts is run with two of them in `tx_rollback`. In
`tx_timely` TTL 1 with 3 time units lets a lease that nothing renews any more lapse
and be taken over with time left for the new holder to write: under the weaker
paces the same bounds show both violations. One clock step or one force_release
suffices to reuse a token if the minting were wrong. The bus's queue of one makes
publishers wait, its caps are below what two events times two handlers ask for, and
two starts let a second life inherit what the first left. In `dlq_retry` rows do
not interact, so one is enough; two managers let one recover what the other has
claimed, and four faults are more than two attempts with a fault in each. Two runs
of a directory ritual are one that leaves something behind and one that meets it,
and three faults let a failed run's restore fail and the sweep die too. A registry
of one entry is full as soon as one of two calls leaks its token. Two files make a
promotion stop half way and its undo stop half way of that; a fault to stop the
run and one for its clean-up. Two nodes are one mutated and one untouched; of
three processes one dies in the apply, one in its recovery, and one finalizes or
races them (with 3 nodes TLC finds the same in 1,707,490 states). Symmetry sets
are used in runs without liveness only. `CHECK_DEADLOCK FALSE` appears where the
bounds make the system stop (sessions are used once, events and rows run out); the
database and the vault runs check for deadlock.

### Where code and comments disagree

While modelling, these statements of the repository were found not to be what the
code does. The models follow the code; the properties either do not claim the
statement or name the exception.

| Statement | What the code does |
| --- | --- |
| "Sólo el dueño de la ventana lo atraviesa" (`db_lifecycle.py:1250`) | the quarantine is not looked at again after the wait for `_init_lock`, so a `get_connection` opens a path under recovery; hence `ServedFromCurrentFile` is for callers inside the boundary |
| "Ni `init_all()` ni `shutdown_all()` levantan esa marca" (`db_lifecycle.py:1594`) | shutdown discards the quarantine when it closes the connection an aborted recovery had reopened |
| "so the caller is never hung indefinitely" (`locks.py:155`) | the compensating release of a cancelled acquisition has no deadline of its own |
| "rollback happens BEFORE lock release" (`locks.py:29`) | a cancelled copy thread writes after the release; `RestoreBeforeRelease` says that only a file reported as not restored is written then |
| the reconciler puts back the previous good tree (`rollback_reconciler.py:456`, `_dir_rollback.py:442`) | it walks a sorted listing (`rollback_reconciler.py:515`) and restores the first backup; if an older orphan is left beside the last good one, the older one comes back. `LastGoodKept` says the good one is still on the disk |
| a cancelled promotion task "terminó cancelado antes de mutar" (`sandbox_promotion.py:439`) | when the loop is torn down the task is cancelled and its thread goes on; the clone with the backups is discarded under it (`torn`) |
| removing `rollback-*` is "best-effort" (`profile_sandbox.py:458-460`) | an error there leaves `promote()` as an exception after a complete promotion (`unclean`) |
| "Sin rollback-* → nada se promovió" (`rollback_reconciler.py:553`) | false after a crash right after a success, or in the middle of a diff that only adds files |
| RELEASED is for normal termination (ADR 0010) and a recovery keeps the lock otherwise (`recovery_orchestrator.py:46`, `600`) | closing a session releases its lock whatever the journal says (`authorization_context.py:240`), and a takeover whose metadata write fails is cleaned up to RELEASED (`golden_mutation_lock.py:922-948`): both are the `loose` phase |

### Fairness

`db_paths`: weak fairness of `Progress(t)` for each task, that is, the event loop
runs every task that can go on, SQLite answers, and the body of an operation
ends. Cancellation and new calls are not assumed. `bus_lifetimes`: the dispatcher,
`stop()`, publishers whose put can go on, handlers that were cancelled, and
enqueues; a handler that was not cancelled may run for ever. `dlq_retry`: time
passes, a started worker goes on (its handlers end), and the program that stopped
starts again with its bus. `dir_moves`: a run's body and clean-up end, the lease of
a dead process expires, and there is a later start. `tool_gate`: each suspension of a
request ends, since `sendMessage`, the edits and the answer all have deadlines
(the sender's, the observer's, the guard's); the operator is not assumed to answer.
`promotion`: the flow and its thread go on and the program is started again one day.
`vault_crashes` claims no liveness: nothing in the code makes anybody recover.

## 4. Proofs

Every safety property a run checks, invariant or action property, is also a
theorem for every value of the constants, in the component's `...Proofs` module.
Only liveness is left to TLC.

Each module is laid out in the same way: the inductive invariant as a conjunction
of named parts, one lemma per action with a step for each part it may disturb, a
lemma for `[Next]_vars`, and theorems that follow from the invariant. The
invariants were model-checked first on the instances of the runs, some on larger
ones (`DirRollback` with 3 runs and 3 faults, `SandboxPromotion` with 2 edits, 2 faults
and 2 cancellations). Every constant has the assumption its module names
(`ConstantsAssumption`, `LeaseAssumption`, `TxAssumption`, `BusAssumption`,
`DlqConstants`, `DirConstants`, `DispatchConstants`, `PromotionConstants`,
`VaultConstants`): finite sets where something is counted, natural bounds, a
"nobody" outside the set it completes. `PowersAreNatural` in `DlqManager` states a
fact about `^`, of which the provers know nothing. Further hypotheses are part of
the theorem they are needed for and are explained below.

| Module | Theorem | States | Hypothesis |
| --- | --- | --- | --- |
| `DbLifecycleProofs` | `TypeCorrect`, `BaseInvariant` | `TypeOK`, `BaseInv` | |
| | `ShutdownIsAlone` | `DrainedBeforeClose` | |
| | `ConnectionsAreExclusive` | `ExclusiveUse` | |
| | `RegistryKeepsOwnership` | `EntryLeavesClosed` | |
| | `ClosedIsClosed` | `ClosedMeansClosed` | |
| | `NoSqlAfterClose` | `NoUseAfterClose` | nobody calls `get_connection` |
| | `CleanHandover` | `NoDirtyHandover` | the same |
| | `CurrentFileServed` | `ServedFromCurrentFile` | the same |
| `LeaseProofs` | `TypeCorrect` | `LeaseTypeOK` | |
| | `Exclusion` | `HolderHolds` | while the clock was not stepped back |
| | `NothingLeaks` | `NoLeakedLease` | |
| | `Fencing` | `ForeignLeaseUntouched` | |
| | `Refinement` | `KeepsPromise` (implements `Lease`) | no clock step, no forced release |
| | `ContextTypes` | `TypeOK` of `SnapshotTx` | |
| | `ReportsAreTrue` | `RollbackReportTruthful` | |
| | `RestoredUnderLease` | `RestoreBeforeRelease` | |
| | `BodyIsSafe` | `SafeZoneHeld` | `Pace` is "entered" or "timely", no clock step, no forced release |
| | `NothingClobbered` | `RestoreNeverClobbers` | `Pace` is "timely", restores are not cut off, no clock step, no forced release |
| `EventBusProofs` | `TypeCorrect` | `TypeOK` | |
| | `NoEventVanishes` | `EventsAccounted` | |
| | `StopLeavesNothing` | `StoppedMeansQuiet` | |
| `DlqManagerProofs` | `EndsAreEarned` | `RowEndEarned` | |
| | `RepeatsArePaid` | `RepeatsAccounted` | `Prompt` |
| | `TypeCorrect` | `TypeOK` | `Prompt` |
| `DirRollbackProofs` | `TypeCorrect` | `TypeOK` | `CalmRestore` |
| | `KeepsLastGood` | `LastGoodKept` | `CalmRestore` |
| | `ReportIsTrue` | `ReportTruthful` | `CalmRestore` |
| | `NothingClobbered` | `NeverClobbers` | `CalmRestore` |
| `ToolDispatchProofs` | `TypeCorrect` | `TypeOK` | |
| | `ApprovalNeeded` | `NoUnapprovedRun` | |
| | `FirstAnswer` | `FirstAnswerCounts` | |
| | `PromptLeavesNothing` | `PromptSettled` | |
| | `KeysFollow` | `KeyFollowsCall` | |
| | `DecisionIsFinal` | no step changes a decision | |
| `SandboxPromotionProofs` | `TypeCorrect` | `TypeOK` | |
| | `PromotesWhole` | `AllOrNothing` | |
| | `UndoStaysPossible` | `BackupOutlives` | |
| | `RowIsTrue` | `JournalTruthful` | |
| `VaultProtectionProofs` | `TypeCorrect` | `TypeOK` | |
| | `RollbackIsTrue` | `RolledBackIsClean` | |
| | `CommitIsTrue` | `CommittedIsWhole` | |
| | `ReleaseIsSafe` | `ReleasedIsSettled` | |
| | `SingleWriter` | `OneWriter` | |
| | `RecordedNodes` | `OnlyRecordedNodes` | |

### The hypotheses

* *Nobody calls `get_connection`.* It hands out a connection without the path
  lock, as its documentation says; with it the three properties are false (the
  first row of the table of disagreements shows how), and `db_boundary` leaves it
  out for that reason. What does not depend on the lock is proved with it.
* *No clock step.* `HolderHolds` is about a term that has not ended yet; when the
  wall clock goes back, an expiry that has passed lies ahead again, and the row
  may already be somebody else's. The code reads the wall clock, so this is
  a real limit of the program, not of the proof; `Exclusion` holds up to the first
  step back. `NoLeakedLease` names the same exception in its statement (a step back
  revives a lease that had ended); `Fencing` needs nothing of the kind.
* *No forced release* (for the refinement and the two results that build on
  exclusion). `force_release` exists to take a lease from a holder, which `Lease`
  rules out; `HolderHolds` names it as its exception.
* *`Pace`*, *`MayCancelRestore`*, *`Prompt`*, *`CalmRestore`* are the assumptions on
  time that section 2 explains at their modules. The weaker values are not
  artificial: the properties are false there. The code makes none of them certain,
  only likely, by the intervals it chooses; the theorems say what follows from
  them alone.

### DbLifecycle

`BaseInv` adds to the types what the code maintains silently: `Accounting` (the
counter is the number of tasks between `_admit` and `_release`, and `drained` says it
is zero), `PcOp` (which operation can be suspended where), `Transition` (a
transition holds its lock, a shutdown past its drain is alone, CLOSED means an
empty registry), `LockHeld` (who uses or closes a connection holds the path lock and
the connection is the registered one; who opens holds the init lock and the entry
is empty), `Fresh` and `OneOwner` (a connection number has one path), `LoopItems`.
`ShutdownIsAlone` follows from `Transition` and `Accounting` (with the theorems on
cardinality), `ConnectionsAreExclusive` from `LockHeld` and `OneOwner`,
`RegistryKeepsOwnership` from `LockHeld` at the openings. `ClosedIsClosed` needs
one more part, `Traced`: what is open is registered or was logged as lost.

`IndInv` adds `WindowInv` (a recovery window keeps its path quarantined and empty,
and is the only one on its path) and `InService` (what is registered and not
quarantined is open until a shutdown has drained). `ServeInv` stands on it:
`DirtyHeld` (a dirty connection in service is in the hands of the transaction
that holds its path), `CleanBirth` (a fresh connection number is clean, which is
what a finished recovery brings back into service), `CurrentFile` (a registered
connection was opened on the file now at its path: a rename only happens while the
entry is empty) and `CondemnedInv` (a condemned path is quarantined and empty until
its own window has moved the file). The lemmas are `...Step` for `BaseInv`,
`...Open` for `IndInv` and `...Serve` for `ServeInv`.

### LeaseLocks and SnapshotTx

One module holds both, because a context's proof uses the lemmas of the lock table at
every lease action it takes. `LeaseInv`: the boundary keeps the row as the
statement found it until its commit (`TxInv`); tokens of sessions are distinct
and none is above the last one minted (`TokenInv`), so a statement that matches the row's token
is its owner's, which gives `Fencing` (`FenceInv`); without a clock step a commit
comes no earlier than its reading (`TimeInv`), so, unless a release was forced, a
told expiry that lies ahead means the row is the session's (`TermInv`), which gives
`Exclusion`; and a running lease has
a holder, an attempt, a compensation or a supervisor (`OwnInv`), which gives
`NothingLeaks`. The refinement maps the initial states and shows each action of
`LeaseLocks` to be an action of `Lease` or a stutter under `Promise`. To reason
about it the overlapping guards of three CASE expressions (`JobStart`, `NextAttempt`,
`ClientOf`) were written as IF; TLC took the first branch that applies, where TLA+
leaves the choice open, and the code is an if-chain.

`SnapInv`: where a context is, and what it has of the lease, the heartbeat and the
snapshots (`Stages`); that a rollback that reports no failure has been through
every file (`Books`); that what a context alone has put back is as it was
(`PutBack`); and under the paces that the term just acquired, or covered by a guard,
lies ahead (`Handed`, `Covered`).

### The others

* `EventBus`. `BusInv` follows an event: before the dispatcher it is with one
  publisher or once in the queue and nothing was done with it (`Before`); after it
  each of its pairs is in one place (`Apart`) and none goes uncounted (`Held`);
  `Life` says what each phase of `stop()` has ended, `Counts` that the caps hold and
  that the loss counter is the number of losses. The proofs use cardinalities
  of the sets of pending pairs.
* `DlqManager`. `CountInv` holds whatever the workers do: attempts in the row plus
  workers about to write one more are at most the runs that raised.
  `ExclusiveInv` says that a claimed row is in progress and not stale, hence
  claimed once; that is where `Prompt` is needed, and without it even `TypeOK`
  fails, since a dead row can be postponed by a late worker and its
  counter pass the maximum.
* `DirRollback`. `DirInv`: the run that has not lost its lease is the last that
  entered (`LockInv`, `OrderInv`); a backup is older than the run that made it
  (`BirthInv`); what the run finds aside and at the target is what it put there
  (`AsideInv`, `TargetInv`); the generation to be kept never gets older at a commit
  (`GoodInv`); what was reported is what was done (`ReportInv`).
* `ToolDispatch` with `HitlPrompt`. `PromptInv` says for each suspension of
  `request_approval` which decision may be committed there, who will release the
  token and who will take the buttons off; `Staging` ties it to the call's place in
  the middleware chain, `KeyInv` is the guard's. `DecisionIsFinal` is an action
  property no run checks.
* `SandboxPromotion`. `PromotionInv`: without a teardown the thread runs only while
  the flow waits for it (`FlowInv`, `CloneInv`); after the gate a file nobody edits
  is as approved if its change is in the list and untouched if not (`GateInv`,
  `ChangeInv`), with a backup where there was something to lose (`BackupInv`); so
  each ending of the thread is what it says (`EndInv`, `HeldInv`, `RowInv`). The
  list names a file once, hence is no longer than there are files.
* `VaultProtection`. `IndInv`: a process between two labels that need the lock holds
  it (`LockInv`), one that appends has the only append handle (`HandleInv`) and a
  faithful copy of the journal unless its own last write failed (`CopyInv`,
  `AbsentInv`); so its label fixes the journal's state (`StateInv`), the nodes it works
  on are recorded and the others untouched (`RecordedInv`, `UntouchedInv`), and an end
  is written only when it is true (`FinalInv`, `TruthInv`). The overlapping guards of
  `Verdict` became IF here too.

### Only model-checked

All liveness: `ShutdownEnds`, `StopReachesStopped`, `PublishEnds`, `RowSettles`,
`TargetComesBack`, `GateReturns`, `NothingLeftBehind`. Fairness and ENABLED are
beyond the prover. `DrainedBeforeClose`, `BaseInv` and `DecisionIsFinal` are, the other
way round, proved and not part of a run.

## 5. Not modelled, and the plan

Not modelled for good: presentation, network and file formats (see `components`
in `PROJECT.json`), and reads that change no state.

Of the modelled components, what is left out is said in section 2 and in
`components`.

Order of what comes next:

1. Proofs. Weaken hypotheses where the code allows it: `BodyIsSafe` up to the
   first forced release instead of without any; `ReportsAreTrue` and
   `UndoStaysPossible` restated as action properties where that says more. The
   safety part behind the liveness properties: that the measure each of them
   descends along (work admitted, phases of `stop()`, attempts left) never grows.
2. `RollbackManager` over the operations of the journal, with the file operations
   of the sync engine, receipts and the eviction of snapshots: an undo that
   restores and then fails to mark, or marks what it did not restore.
3. `DlqManager` composed with `EventBus` (its `saved` pairs become rows) for
   at-least-once delivery across a restart.
4. The frozen runtime's binding journal with its root lock, and what is left of the
   vault (plan review, elevation hand-over, two operations on one Golden).
5. Handoffs; the circuit breaker of the token budget.
