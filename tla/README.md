# TLA+ models of llama-server-manager

llama-server-manager is a desktop manager for `llama-server` processes: a Tauri
application, a detached *runtime daemon* that starts, stops and watches the
processes, and an HTTP *router* in that daemon which forwards OpenAI-style
requests to them. These modules model the parts of it where threads, crashes and
time meet. Paths below are relative to `src-tauri/src/`.

## 1. Inventory

| Part | State | Operations | Hard because |
|---|---|---|---|
| Router admission, `commands/proxy_admission.rs` | queue, rotation of keys, active permits, counters per key, policy | `acquire`, drop of a permit or a waiter, `configure` | tasks park on a `Notify` outside the lock; timeouts and cancellations at every await |
| Router targets, `commands/proxy_runtime.rs` | health, circuit breaker, permits per target | selection, probes, failures, eviction | results of an old process arrive at a new one |
| Router requests, `commands/proxy.rs`, `proxy_delivery.rs` | guards, counters, response memory, delivery queue | admit, receive, forward, collect, deliver | every await is a place where the client leaves or a deadline passes |
| Quota ledger, `commands/usage_quota*.rs`, `proxy_quota.rs`, `proxy_usage.rs` | SQLite tables of periods and requests | reserve, settle, prune | cancelled handlers, crashes, settlements on another day |
| Checkpoint coordinator, `checkpoint.rs`, `checkpoint_idle.rs`, `runtime_service/supervisor.rs` | phase, stop request and gate per instance; process map | start, stop, monitor, restore, idle save, recovery | monitor threads run without the lifecycle mutex |
| Checkpoint store, `checkpoint.rs` | generation directories, latest pointers, rejection markers | commit, load, reject, prune, reconcile, clear | a crash or an I/O error between any two file-system calls |
| Instances, `commands/server.rs`, `runtime_service/` | the daemon's table and `runtime-state.json`, the desktop's mirror and `instances.json` | start, stop, restore, recover, watchdog, reconcile, reload, quit, update of the application | two processes with a copy each, lost answers, crashes between launch and save, requests that race a shutdown |
| Router control, `commands/proxy.rs`, `runtime_service/` | configuration on both sides, revisions, listener, background mode | save, start, stop, restart, synchronise, hand over, quit | rollbacks of half-done operations, restart loops, a retried command |
| Downloads, `commands/download*.rs` | queue, active entries, two files, flags | hand-over, retry, pause, cancel, resume, clear, flush, recover | an entry moves between two files in several writes; snapshots overtake each other |
| Management tasks, `management/` | journal of tasks, resource locks | submit, begin, finish, cancel, remove, recover | journal before effect, cancellation against begin |
| Scanner, telemetry, usage reports, cluster, maintenance, frontend | mostly data and I/O | | see section 6 and `PROJECT.json` |

How they interact: the router asks the coordinator's gate (`gate_allows_routing`)
when it resolves a request, takes an admission permit, reserves quota, takes a
permit on the target, and only then sends. The supervisor's stop path closes the
gate, waits for permits to drain, has the coordinator save through the store,
and kills the process. A monitor thread per process reports health, restores
from the store, saves when idle and records the exit. The desktop process gives
the daemon its commands over a local pipe; a bridge task fetches the daemon's
status every three seconds, repairs what is out of date and updates the mirror.

What makes each part correct: admission loses no wakeup, leaks no slot, starves
nobody and keeps its limits; a target's count is the number of its permits and
its breaker follows the engine; a request is counted once, gives back what it
took and is called a success only when it is complete; the ledger balances and
never over-commits; the gate is closed exactly when the process must not be used,
and reopens; the store never loses a checkpoint it acknowledged and never offers
one that is incomplete; no `llama-server` runs that nobody knows, and what the
user was told holds after a restart; daemon and desktop end up agreeing; a
download survives a crash anywhere; a task's effects happen at most once.

## 2. Modules

| Module | Models | Run by | Proofs |
|---|---|---|---|
| `Admission` | router admission | `MCAdmission`, itself | `AdmissionProofs` |
| `RouterTargets` | targets, permits, breaker, probe rounds | `MCRouterTargets` | `ProxyProofs` |
| `RouterRequest` | a request from the middleware to its last byte | itself | `RouterRequestProofs` |
| `QuotaLedger` | quota ledger and the permit's owner | `MCQuotaLedger` | `QuotaLedgerProofs` |
| `CheckpointGate` | coordinator, supervisor's lifecycle, idle save, the router's use of the gate | itself | `CheckpointProofs` |
| `CheckpointStore` | generations on disk, the save path, rejection | `MCCheckpointStore` | `CheckpointProofs` |
| `InstanceControl` | one instance: daemon and desktop process together | itself | `InstanceControlProofs` |
| `ProxyControl` | the router's configuration and control: daemon and desktop process together | itself | `ProxyProofs` |
| `DownloadQueue` | the download manager and its two files | `MCDownloadQueue` | `DownloadQueueProofs` |
| `ManagementJournal` | task host, journal, locks | `MCManagementJournal` | `ManagementJournalProofs` |
| `TaskFate` | abstract: what may become of a task's effects | through `ManagementJournal` | refinement in `ManagementJournalProofs` |

Definitions whose names end in `_something` and are marked *Mutant* are plausible
bugs; no specification uses them. Each shows that one property notices it. The
type invariant `TypeOK` of each module is a conjunct of one of its checked
invariants. Where two modules share a module of proofs, the names of one of them
carry a prefix (`GateSpec`, `TargetsSpec`).

### Admission

One action per locked section: `AcquireFast`, `AcquireQueue` and `AcquireReject`
are the first section of `acquire`; `Register`, `CheckAdmit`, `CheckPark` and
`Wake` are its loop; `Abandon` is the timeout or the dropped future, at any
await; `DropWaiter` and `ReleasePermit` are the `Drop` handlers, and
`NotifyWaiters` the call they make after unlocking. `Configure` and
`ConfigureNotify` are split at the same place. tokio's `Notify` is external:
futures enabled before `notify_waiters` are woken by it. `MCAdmission` adds a
history variable for the rotation property.

### RouterTargets

Every operation on the map of targets is one step under its lock. What a request
or a probe has learnt but not yet reported is kept apart, and is reported by the
name of the instance only. A permit keeps the identity of the target that
granted it; all the code does with it is compare it with the present target's, so
the model keeps whether they are the same (`live`). The probe round takes its
snapshot, evicts, probes each target and ends, with everything else in between.

Left out: the choice among equally good targets, rate buckets, the metrics text.
`docs/ROUTER_API_COMPATIBILITY.md` (line 106) describes the cooldown of a target;
a success of a request that was sent before the breaker opened closes it early,
which `BreakerFollowsEngine` allows.

### RouterRequest

A step ends where the code awaits. At each such place the client may leave,
which drops the future and everything it owns (`DropHandler`, `DropBody`). The
delivery task and the body that the client reads are two actors around a queue
of one chunk. Admission and target permits are guards with a capacity, whose own
behaviour is in the two modules above; a response is one size of chunks.

A limit of the code stated as a condition: a client that leaves while the router
waits for the response headers is counted neither as completed nor as rejected,
although the help text of the metric (`commands/proxy_runtime.rs`, near line 612)
includes cancellations.

### QuotaLedger

A transaction is IMMEDIATE and so one action (`ReserveCommit`, `Settle`,
`Prune`); a commit that reports an error may have taken effect. The handler
awaiting the reservation may be cancelled (`CancelCall`), in which case the
blocking thread creates and drops the permit. `Crash` loses every permit and
dispatched settlement. Rows deleted by maintenance keep their last value in a
ghost, so that the balance can be stated over all requests that ever were.

Abstracted: the clock only moves forward; a reservation and the limits it uses
are read together before the transaction; days pass during a call (`CallDays`, so
that midnight and the end of a month may fall into it), but a month and a call
together never exceed the retention, 365 days in the code. Sums over requests are
cardinalities of sets of tokens, which is what makes them provable.
`MAX_TOKENS` saturation is modelled, and the balance is stated for periods that
no sum has clipped: a clipped one may under-count what is held.

### CheckpointGate

`entry` is the `CoordinatorEntry`; `op` is the one operation that holds the
lifecycle mutex (a stop, a recovery's stop and restart, or an idle save) and its
step; `mon[p]` is where the monitor thread of process `p` is, also after its
process has gone. `Move` is `transition`, with its test of the pid and of
`legal_checkpoint_transition`. Processes may die, refuse to die, or fail to
restore at any time. A request resolves, acquires, is sent and finishes in four
steps.

Abstracted or left out: `clear_checkpoint` and the reporting fields; a rolled
back start is one step (`InstanceControl` has its steps); a recovery without a
desired specification is left out; the drain reads the router's count and the
engine's slots together.

Limits of the code that the properties state as conditions: a stop that fails
while the phase was not routable has nothing to resume and leaves the gate
closed, so `GateReopens` assumes that processes die when told to;
`retain_targets` evicts a gated target, so its count can read zero with requests
in flight.

### CheckpointStore

A generation is a record of the files that are in its directory. Payload moves,
manifest, rename, pointer and usage are steps in that order; every step can fail
or be the last before a crash. Removal of a directory that was found invalid is
file by file in any order, since `remove_dir_all` is. Eviction and the removal of
pending directories are one step each, because a generation that has lost one
file is already invalid. `Reconcile` points `latest.json` to the newest valid
generation.

Abstracted: a token takes one byte, a manifest none; the eviction order by last
use is left open (the file that holds it is optional and clock-based), so what is
shown holds for any order; `created_at` is monotone; power loss beyond a damaged
generation, a half-failed clear and damage to the usage file are left out. That
saves and restores exclude each other is taken from `CheckpointGate`.

### InstanceControl

The composition of the two processes around one instance. `dm` is the daemon's
table, `disk` its file, `job` what the holder of the lifecycle mutex does; `gui`
is the mirror in the desktop process, `saved` its file, `op` the operation under
the instance's lock, `rec` the two callers of `reconcile_app_runtime`, which
applies a status one lock after the other while operations go on. A call is
queued in the daemon (`pending`), answered (`Reply`), timed out
(`AnswerTimesOut`, after which the daemon carries on), or cut off by the
daemon's death and made once more (`Severed`). Launches, kills and writes may
fail; a failing write of the state file may have replaced it, because
`protect_runtime_state_file` comes after the rename. What preflight checks before
a start is asked for succeeds or fails (`StartInvalid`).

Two operations shut the daemon down (`TakeShutdown`; several instances are
stopped one by one, here it is one). `quit_app` lets it forget what is desired and
then ends what the mirror still shows (`Quit`, `QuitEnds`). An update of the
application (`PrepareUpdate`, `TakeLease`, `UpdateEnds`) waits for the requests
under way, keeps what is desired, and holds the daemon's lock until the installer
has ended the process or has failed; meanwhile requests wait (`Waits`) or are
refused, and no daemon can start. A shutdown that could not stop the process
starts what it has stopped (`StopFails`). `gui.lease` is how far either has come.

Limits of the code, stated as conditions or found while modelling:

- a daemon that dies between launching a process and saving its state leaves it
  running unknown to everybody (`hist.stray`);
- a status applied between the two removals of a stop (`running`, then
  `runtime_managed_instances`) leaves an entry in the mirror that no later round
  removes, although the comment at `runtime_service/mod.rs:843` expects later
  heartbeats to correct it (`Agreed` excepts an entry that is not managed);
- `stop_server` answers Ok without asking the daemon when the mirror is empty;
- a start that was reported as failed because the state could not be saved may be
  in the file all the same, and is restored by the next daemon; a command whose
  answer was lost may be carried out late. Neither counts as a promise;
- when an update cannot stop everything, `restore_missing_desired_instances` reads
  what is desired (`runtime_service/supervisor.rs:1541`) before it takes the
  lifecycle mutex for each start. A stop that is answered in between clears what
  is desired, and the start brings the instance back all the same (`Told` makes
  no promise in this case);
- the first round of the bridge only synchronises, so for one round the watchdog
  still sees the previous desktop process, which is gone, and may stop what the
  new one has just started;
- a daemon that has acknowledged a shutdown serves for another 100 ms (mode
  `retiring`): what a command that arrives then, or was waiting, launches stays
  behind (`hist.stray`). Quitting while nothing runs leaves a desired instance
  desired, since only a stop clears it;
- the roll-back of a start waits for a process whose termination failed, with the
  lifecycle mutex held: every later command of the daemon waits behind it. This is
  why the run says `CHECK_DEADLOCK FALSE`.

Left out: `stop_background_runtime`, a switch of background mode (both values are
initial), failing thread creation, reuse of pids, processes that the desktop
process launches itself in a cold recovery, and the replacement of a daemon of
another version.

### ProxyControl

The same two processes around the router. An operation is the list of steps it
has left; `Programs` gives the steps of each, `Undo` those of its rollback.
`start_proxy`, `stop_proxy` and `sync_config` hold one lock throughout in the
daemon and are one step each. A restart loop that has read `enabled` is counted
in `loops.go`. A revision of the configuration is only compared, so the model
keeps whether the daemon's is older (`StaleRevision`).

Limits of the code, stated as exemptions of the properties:

- *raced*: a restart loop reads `enabled`, a stop completes, the loop starts the
  router and switches it on again;
- *split*: the rollback of an operation restores the state that was running, not
  the one configured;
- *halted*: a restart whose stop half fails returns before anything is pending;
- *masked*: an operation that completes clears a change that was pending before
  it, although it has not repaired it;
- *Stuck*: a daemon that listens on another address than the one configured
  refuses every synchronisation; stop and quit synchronise first, so they cannot
  stop it either.

Left out: the registration at login as state of its own, and the backup of the
state file.

### DownloadQueue

`lock` is `download_scheduler_lock` with what its holder has still to do, `jobs`
the spawned tasks, `snaps` the captured snapshots with their generation, `disk`
and `infl` the two files. Hand-over, retry and settlement are split at each
write; a crash may fall anywhere between. An entry has one file, which may be
absent, partial or complete.

Limits of the code, excepted in the properties or outside the model:

- a download without a retry left is dropped by the next hand-over, also one that
  was paused and is resumed (`FailedTaskRetained` below);
- a snapshot captured while an entry is in neither list (hand-over lines
  3243-3256, retry) overwrites the in-flight file without it (`hist.atRisk`);
- the comment at line 3414 keeps the in-flight entry when the last state could
  not be written, but the next snapshot removes it (`hist.unsaved`);
- `pause_all` and `cancel_all` do not reach entries in back-off; a failing write
  in `pause_all` leaves paused entries that the next hand-over drops; a file
  marked after its run's last report stays "pausing";
- `resume_all` between the last write and the removal of the active entry lets
  the old task clear the new run's entry;
- a snapshot, or the settlement of another task, between the two halves of a
  cancel brings the entry back;
- `update_inflight_state` takes its generation after reading, so it may overtake
  a newer snapshot with older content.

Left out: `cancel_all`, `cancel_file_download`, `remove_download_queue_entry`,
`persist_download_queue`, `reset_for_redownload`, the bandwidth limit, entries of
several files, a task added a second time, and failing writes of the in-flight
file other than at the hand-over.

### ManagementJournal and TaskFate

Each transition of the journal holds the mutex of the tasks and is one step. A
worker prepares, takes the lock of its resource, begins (which writes the
journal), runs and reports; cancellation, failing writes, removal of history,
death and restart of the host come in between. `Locked` and `Release` follow the
lock map's weak references, so two workers may for a moment hold different locks
of one resource if the map forgets one too early; that it does not is part of
`JournalTruthful`.

`TaskFate` is the promise: a task is accepted, begins at most once, and is done,
withdrawn or broken off. `ManagementJournal` implements it under the mapping
`fate <- Fates` (property `Refines`, which is `Fate!Spec`).

## 3. Runs

Every passing run takes half a minute to four minutes with two workers.

| Run | Bounds | Checks |
|---|---|---|
| `admission` | 3 requests, 2 keys, limit 1-2, key limit none or 1, queue of 3, 2 per key, 2 policy changes; symmetric requests and keys | `Bookkeeping` (type, counters, rotation, no leak), `QueueBounded`, `NoLostWakeup`, `AdmitsWithinLimits`, `FairTurns` (no barging, bounded bypass) |
| `admission_live` | 3 requests, 2 keys, every key limited to 1, queue of 2 (so that the total bound rejects), 1 policy change, no symmetry | `EveryWaiterAdmitted` |
| `targets` | 1 instance of kind Gufo, 3 requests, capacity 2, threshold 2, one slot | `PermitsSound`, `BreakerFollowsEngine` |
| `request` | 2 requests, 2 admitted, 2 bodies, 1 on the target, 5 chunks of memory, streams of up to 2 chunks | `CountedOnce`, `SuccessIsComplete`, `MemoryReturned`, `RevokedNotForwarded`, `PermitsReturn` |
| `quota` | 3 requests of one key, 3 days in 2 months (days 1, 2 and 6; months of 2 days, retention of 3, a call may pass one midnight), reservations 0 or 2, reports 1 or 3, a daily and a monthly policy | `LedgerBalanced`, `ChargesMatchFate`, `NoOvercommit` |
| `gate` | 2 processes, 1 request | `StopClosesRouting`, `NoOrphanProcess`, `RestoreContained`, `StaleEventsIgnored`, `GateReopens` |
| `gate_poisoned` | 1 process | expects a violation, see Findings |
| `store` | 2 configurations, 2 slots, 3 generations, limit of 3 bytes, 1 damage, `preserve_longer` | `PublishedComplete`, `AckedSurvives`, `StorageBounded`, `KeepsLonger` |
| `instance` | 2 processes, 2 user operations, 1 fault, background mode on or off | `NoStray`, `IntentKept`, `Settles` |
| `control` | 2 addresses, 2 user operations, 3 faults | `Reconciled`, `HandedOver`, `Converges` |
| `downloads` | 2 downloads, 1 or 2 slots, 1 retry, 3 user operations, 1 fault | `CrashKeeps`, `SettledStaysOut`, `CancelledGone`, `NoOrphan`, `NoIdleQueue` |
| `journal` | 3 tasks on one resource, two of one key, 2 active, 2 records kept, 1 fault | `JournalTruthful`, `KeyOnce`, `Refines`, `Drains` |

Why these bounds are enough to be interesting: three requests let two wait with
one running, and two of a key wait beside one of another, which is what rotation
and barging need; three requests on one target let one hold a permit of an
evicted target while two use the new one; two requests let one hold memory,
permit or body that the other needs; three quota requests let two fill a period
and a third test it while a row is pruned; two processes let events of the first
reach the second and let a recovery or a restore replace one; three generations
of one or two bytes exceed the limit, leave a pending directory beside two
finished ones, and let a late published generation compete with a newer one; two
user operations let a start meet a stop, a quit, an update or a reload, and one fault
suffices for each crash point and each failing call (the invariants of `instance`
were also checked once with two faults and three operations, and with three
processes); two downloads let the snapshot
of one overtake the hand-over of the other; three tasks let one evict a record
while another waits for the lock of the third. A quota run with two keys is too
large, and keys share no row. `CHECK_DEADLOCK FALSE` is used where the bounded
supply of days, requests, processes, operations or faults runs out, and in
`instance` also for the reason given above; `admission`, `targets` and `store`
never stop.

### Fairness

- `admission_live`: each request's task is scheduled (weak fairness of
  `Progress`, which includes returning a permit: requests to engines have
  timeouts) and the caller of `configure` finishes it. Giving up and new policies
  are not fair. The property holds once waiters stop giving up; without that
  condition it does not: a key keeps its turn when a waiter gives up and others of
  the key remain.
- `gate`: the thread that holds the lifecycle mutex, each monitor thread, and the
  recording of an exit go on. Deaths, refusals to die, requests and starts are not
  fair.
- `targets`: the probe loop goes round, its requests are answered or time out, and
  a cooldown ends. Requests are not fair: a client may never finish.
- `request`: the handler and the delivery task go on, since each of their awaits
  has a deadline. The client is not fair, it may stop reading for ever.
- `instance`: the daemon's threads run, a daemon that is gone is started while a
  desktop process needs it, operations and the bridge go on. Quits and updates end:
  an installer ends the process, or fails and `useAppUpdater.ts` calls
  `resume_app_after_update`. Nobody has to start a desktop process.
- `control`: the bridge wakes every three seconds, a restart loop every ten, an
  operation that holds the lock runs to its end.
- `journal`: spawned workers run, and a host that died is started again.

### Findings

- `gate_poisoned`: `PoisonedNeverRoutes` fails. A stop moves the phase from
  Restoring to Stopping, the process cannot be killed, the restore then fails;
  `restore_failure` sees a phase other than Restoring and answers ReadyCold, and
  the process routes although the comment says "Routing stays closed until
  replacement". `RestoreFailureContained` is what does hold, and is proved.

### Known limits

Four more properties are stated in the modules and do not hold of the code. TLC
refutes each with the constants given; no run checks them.

- `CheckpointGate!QuiescentSave` (one request, `MaxPid = 1`): the idle save
  rechecks the counted requests once after closing the gate, but a request that
  passed the gate before may take its permit after the recheck.
- `CheckpointStore!RejectedStaysOut` (two configurations, two slots, `MaxGen = 2`,
  `MaxTokens = MinTokens = 1`, `Limit = 3`, no damage, `PreserveLonger = FALSE`): a
  crash in the removal of a rejected generation may leave everything but the
  marker.
- `CheckpointStore!SavesNotRefused` (the same with `PreserveLonger = TRUE`): a
  pointer to an invalid generation and no valid one makes each later save fail;
  pruning, which would repair the pointer, only follows a commit.
- `DownloadQueue!FailedTaskRetained` (the constants of `downloads`): `GUIDE.md:217`
  says "retry retained tasks after a network interruption". After the last retry
  the entry is requeued with `retries = max_retries` (`download.rs:3336`), is no
  longer runnable (3109), and the next hand-over removes it from the queue and
  from the file (3216).

## 4. Proofs

TLAPS proves, for every number of requests, keys and processes and every bound:

- `AdmissionProofs`: type correctness, `NoLeak`, `TurnsMirrorWaiting`,
  `KeyActiveCounts`, together `Bookkeeping`; `QueueBounded`; `NoLostWakeup`; and the
  action property `AdmitsWithinLimits`. The core is the invariant
  `Structure == TypeOK /\ NoLeak /\ TurnsMirrorWaiting`: none of the three is
  inductive alone, since `remove_waiter` keeps the rotation right only if a
  waiter stands in the queue once and its key in the rotation once.
  `KeyActiveCounts` and then `NoLostWakeup` are inductive relative to it. The
  latter rests on lemmas about `Selected`: a waiter whose key has room is never
  passed over by everyone (`SomeoneSelected`), a newcomer that bypasses the queue
  leaves nobody selected, one that queues selects at most itself, and every other
  change that could select somebody is followed by a notification.
- `CheckpointProofs`, the gate: type correctness and the other safety properties of the
  gate (`RestoreContained` is proved as the conjunction of its two parts), from
  one inductive invariant `GateInv`. Beyond the properties it says which steps
  belong to which operation and whose process it works on (`OpShape`), that
  coordinator, instance map and process agree (`Tracking`), that the stop request
  stands while the stop is under way (`StopStands`), that an idle save owns the
  phase (`IdleOwnsPhase`), what the phase can be during and after a restore of a
  process that can be killed (`RestorePhases`), and that a replacement stays cold
  (`ColdRecovery`). `RestorePhases` is what makes `RestoreFailureContained`
  inductive: a poisoned process is in RestartRequired, or its stop has got as far
  as the kill with the stop request standing.
- `ProxyProofs`, the targets: `PermitsSound`. `PermitsBalanced` (a target's count is
  the cardinality of the requests whose permit is live) is inductive once a request
  is known to be at an instance exactly while it holds a permit (`Placed`); the
  lemmas are about what a filtered set gains or loses when one request moves.
- `ProxyProofs`, the control: `Reconciled`, with type correctness, and `HandedOver`.
  An operation of the desktop is a program of steps, any of which may fail or be
  overtaken by a daemon that restarts. The invariant says of each place in a
  program what must still follow (`Purposeful`, `Ordered`), what the operation has
  marked as pending (`Marked`), what it has read of the daemon that is still true
  (`ReadFresh`), and which settings and which mode the daemon is known to have once
  the steps before have been done (`Synced`, `Moded`). With nothing pending the
  desktop is right (`UpToDate`), and a hand-over leaves what it promised
  (`Handing`). Without `Synced` and `Moded` the last step of a program, which clears
  the mark, could not be told from one that clears it too early.
- `RouterRequestProofs`: `CountedOnce`, `SuccessIsComplete`, `MemoryReturned` and
  `RevokedNotForwarded`. The invariant says for each request what its handler's
  place and its delivery task's imply for the counters (`Counted`, `Delivered`), for
  the slot between producer and body (`Slotted`), for the recorded outcome
  (`Recordings`) and for what it holds (`Reserved`), and that the shared memory is
  the sum of it all (`Budgeted`). Without `Delivered` the second of two ends of a
  request could not be told from the first.
- `QuotaLedgerProofs`: `LedgerBalanced`, `ChargesMatchFate` and the action property
  `NoOvercommit`. The invariant relates request, call and permit (`Life`), what a
  request deserves to be charged (`Fair`), and each period's row to the sums over
  its members (`Books`), including that no row is missing while a request it would
  be needed for survives.
- `CheckpointProofs`, the store: `PublishedComplete`, `AckedSurvives`, `StorageBounded` and
  the action property `KeepsLonger`. The invariant has a part for each directory
  (`Sound`), for each configuration's pointer and acknowledged generation
  (`Pointed`), for the generation being saved (`Committing`), for what pruning has
  seen and not yet removed (`Scanned`), and, for `preserve_longer`, for everything
  that might be restored instead of what the pointer names (`Heirs`, `Merging`).
- `InstanceControlProofs`: type correctness, `NoStray` and `IntentKept`, over all
  54 actions of the two processes. The invariant says that what runs is in the
  table, and in the file except while the start that launched it is not over
  (`InTable`); that the holder of the lifecycle mutex works on the process in the
  table, and that a positive answer is on disk (`Working`); that a command of the
  desktop is in one place and its operation waits for it (`Linked`); that nothing
  stays promised while something is under way that may change it (`Silent`); and
  what a promise means for table, file and job (`Promised`). Most actions of the
  desktop are covered by one lemma (`Aside`), a lost caller by another
  (`Disowned`), the end of a daemon by a third (`LeftBound`).
- `DownloadQueueProofs`: `CrashKeeps`, `SettledStaysOut`, `CancelledGone`, `NoOrphan`
  (with type correctness) and `NoIdleQueue`, over all 42 actions. An entry is in one place: in
  the queue, with the scheduler, or with its task (`OneId`, `Finished`,
  `Retrying`). Whatever is shown, captured or written elsewhere has the name of
  such an entry, and names are never used twice (`Numbered`, `Named`, `Attended`), so
  that a name which has left every place stays away (`Apart`). The file has an entry
  once and holds what waits or has ended, no run that is going on (`Filed`,
  `Resting`); that is why a resumed entry may take a new name and its old flag may be
  cleared. A run whose cancellation is confirmed is flagged, or will not start
  (`Silenced`); and with nobody about to look at the queue some task is left that
  will (`Busy`). Three kinds of step are treated once each: a task that moves on
  (`AdvanceKeeps`), one that leaves its entry (`LeaveKeeps`), and a command while
  nobody holds an entry (`QuietCore`). `CrashKeeps` needs a second invariant on top
  (`Tracked`), which follows each download that has met no lasting exception
  (`Clean`): what is not in `downloads.json` is in hand (`Safe`); what that file has
  as queued is in the queue or on its way from it (`Awaited`); who has an entry in
  hand finds it among the active ones (`Shown`), hence in `downloads_inflight.json`
  and in every captured snapshot, unless the snapshot is marked as one that may lack
  it (`Covered`); a retry leaves the second file after the first has it
  (`Confirmed`); and a task that ended with nothing written had lost its entry to
  nobody else (`Ended`). The proof has one lemma for the steps in which entries stay
  in their hands (`OngoingKeeps`) and one for the commands (`DeskKeeps`).
- `ManagementJournalProofs`: `JournalTruthful`, `KeyOnce`, and the refinement: each
  step of the host changes the fate of at most one task, by a step of `TaskFate`,
  or, when the host dies, of all that run (`RefinesTaskFate`). The invariant
  relates the two copies of a record to the place of its worker (`Recorded`), every
  reference to a resource's lock to the same lock (`Locking`), and a key to the one
  task that may use it (`Keyed`).

The assumptions are those of the modules, each named: finite sets of requests and
positive limits; a `None` that is not a phase, and likewise values that stand for
"no row", "no generation" and "no target" and are none; in `ManagementJournal` that
no more tasks are active than records are kept (32 and 200 in the code), without
which eviction would have to remove an active record; in `QuotaLedger` that
`MonthLen + CallDays <= Retention`. TLC evaluates them in the runs. Each inductive
invariant was checked by TLC with the bounds of its run before it was proved.

What proof attempts changed:

- `QuotaLedger`: the clock's guard was too weak to keep a period's row until the
  last request of a call that spans days has settled; the constants of the former
  run hid it. `CallDays` states what the code relies on.
- `KeepsLonger` is stated for generations that the engine has not rejected. A
  rejected one whose removal was interrupted after its marker was gone comes back
  (see `RejectedStaysOut` under Known limits), and may then be shorter.
- `IntentKept` was not inductive: the case of the aborted update above was found
  when its proof failed, and TLC confirmed it with two faults and three operations.
- `DownloadQueue` filters its queue with `Keep`, a recursive function, where it used
  `SelectSeq`, whose recursive definition the prover cannot unfold. What `Keep`
  retains is proved from it by the least counterexample (`KeepElements`); nothing
  else needs induction over sequences.
- `CrashKeeps` holds for all bounds only with a more careful record of its
  exceptions. The record called a snapshot harmless when it had an entry of the same
  download, and forgot that one which overtakes an entry may itself be the last: with
  six commands (a pause, resume all, a pause in the queue, resume all again) a download
  has its old entry among the active ones while the new one is on its way, and a
  snapshot that has the old entry lacks the new.
  `Handover` now goes by the entry, and `SnapshotWritten` adds what a snapshot lacks
  after it takes out what it has. With no retry allowed at all (`MaxRetries = 0`) a
  download is spent when it is enqueued; `Enqueue` now records that.
- `Retrying` had to say that the entry of a retry is in the queue before its task
  lets go of the lock: without it nothing forbids a task that is about to requeue
  an entry that somebody has taken.
- Alternatives of a `CASE` that overlapped have been made disjoint: TLA+ leaves open
  which of them is taken, and TLC always takes the first.

Only model-checked: the liveness properties (`EveryWaiterAdmitted`,
`GateReopens`, `BreakerFollowsEngine`, `PermitsReturn`, `Settles`, `Converges`,
`Drains`), as fairness is out of the
prover's reach; and `FairTurns`, of which only the first half, that nobody barges, is
proved (`NoBargingAlways`): the bounded bypass counts steps through a rotation.

## 5. Plan

1. Proofs: the bounded bypass of `FairTurns`.
2. Abstract specifications: `CheckpointStore` as a register per configuration
   whose value is the last acknowledged generation; `CheckpointGate` as an
   open/closed gate.
3. Modules: the bounded writer of the usage store, the save and lifecycle
   coordinators of the frontend.
4. Operations left out above: `clear_checkpoint` against a running save, switching
   background mode in `InstanceControl`, entries of several files in
   `DownloadQueue`.

## 6. Not modelled

The map covers nearly an eighth of the lines of the source files; nearly a third of
those lines are unit tests inside them. Most of the rest keeps little
state and meets no concurrency of its own, and a model of it would say nothing
that the code does not say itself:

- building, validating and displaying command lines and presets (most of
  `commands/server.rs`), engine capabilities, model inventory, scanner: functions
  of files and settings;
- translation between API dialects (`proxy_protocol.rs`, `proxy_tool_history.rs`)
  and error texts: data without control;
- telemetry, monitoring, GPU libraries, usage reports: sampling and SQL
  aggregation, lossy by design;
- checkpoint qualification: a sequential measurement against a live engine;
- storage and artifact maintenance: deletion in one pass, started by the user;
- cluster discovery, SSH, framing and authentication of the pipe: operating-system
  and network calls; the failures of a call are steps of the two control modules;
- the frontend, apart from the coordinators named in the plan: presentation.
