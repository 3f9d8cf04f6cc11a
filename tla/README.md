# A verification development of claude-heartbeat

`heartbeat` schedules Claude sessions on a device.  Two programs share the
package: the older **job daemon** runs jobs of `HEARTBEAT.md` on intervals, and
the newer **agent runtime** dispatches provider sessions (claude, codex) on
workflow targets of configured projects, with a SQLite store, detached worker
processes, leases and recovery.  Around them are service adapters, two update
paths and the dream skill.

The modules here are about behaviour no unit test of the repository reaches:
many short-lived processes that read the same row or file, look at other
processes, and write it back, mostly without a lock; threads that end together
with the process they watch; updates and migrations that stop half way.

## 1. Inventory

| Component | State it keeps | Operations | What is hard |
|---|---|---|---|
| Agent store (`agent_store.py`) | SQLite tables: configurations, runs, events, errors, intents, plans, consent, watcher state, the one dispatcher row | whole-row writes, compare-and-delete, insert-or-ignore, retention, schema migration | each call is a transaction, sequences of calls are not |
| Agent dispatch, one run (`agent_dispatch.py`, `providers/lifecycle.py`) | the run's row; worker, provider, lease and event file outside it | queue, launch, attach, preflight, reserve, start, watch, reconcile, sweep, cancel | stale copies, crashes, PIDs that are reused or cannot be read |
| Agent dispatch, ticks (`tick_project`, `tick_all_projects`) | intents with due times and counts, slot limits per role, project and device | fill slots, fairness by last assignment, drop and save intents | count-then-queue, ten-second waits between reading and writing an intent |
| Agent dispatch, the dispatcher (`serve_continuous_intents`, `ensure_...`, `stop_...`) | the dispatcher row, service registration | claim, release, ensure, launch, stop for the service | several starters, restarts by the service manager, killed owners |
| Providers (`providers/process.py`, `claude.py`, `codex.py`) | reader threads, event file, cancel flag, result | supervise, time out, cancel, terminate the tree, normalise output | thread end against process end, terminal event order |
| Agent control commands (`agent_cli.py`, `agent_contract.py`) | none of its own | plan, start, cancel, retry, pause, configuration, consent, state, logs, update | a plan confirmed on a state that moved |
| Job daemon (`core.py`) | state file, in-flight groups, quota windows, PID file | tick, dispatch due groups, run job, record | group keys that change, check-then-act on quota and PID |
| Command line (`cli.py`) | PID file, job files it writes | start, stop, once, install, migrate | the daemon reads the files while they are moved |
| Runtime update (`runtime_management.py`) | version directories, launcher, plan fingerprint | verify, switch, restart, check, prune | partial success and its retry |
| Runtime integrity and stable launcher (`legacy_migration.py`) | manifest of a version, the launcher file | verify, activate | the candidate changes between verification and switch |
| git update (`update.py`) | repository HEAD, installed metadata, running version | fetch, fast-forward, pip, restart | a step that failed is not the next run's first step |
| Service adapters (`service/`) | plist, unit or task | install, migrate with rollback, restart, inspect | a migration that fails half way |
| Dream skill (`skills/dream`) | `dream_meta.md`, its lock, the output of each round | find, window, extract, mark, compact | crash between output and mark, creation outside the lock, transcripts that grow |
| heartbeat-register skill | a prompt | none | no program |

How they interact: the job daemon reconciles every project and ensures a
dispatcher in each cycle; `state.read`, `config.write` and `project.resume` do
the same from short control processes; the dispatcher ticks all projects,
which reconciles, sweeps, and queues runs with a detached worker each; the
worker holds the provider process; a service migration stops a detached
dispatcher and lets the service manager run its own.  All of it meets in the
store, and in what `observe_process` says of a PID.

What makes each component correct:

* one run: a slot is free only when nothing works for it any more; a final
  state is final and was given after the provider's death and the lease's
  return; a run that is dead does not hold its slot for ever;
* the dispatcher: at most one serves, the row names it, and repeat intents do
  get one;
* ticks: no limit is exceeded, no intent starts more than its limit, no project
  starves another;
* providers: exactly one terminal event, last in the file, and it is what the
  process did; events reach the store once and in order;
* job daemon: a group never runs twice at once, a quota is not exceeded, a due
  job runs, a broken one does not run in every tick;
* updates: the launcher always names a complete version, a partial success can
  be retried and rolled back, a failed step is caught up;
* dream: the cursor never skips a window, whatever crashed.

## 2. Modules

| Module | What it is |
|---|---|
| `RunLedger` | the life of one run, its worker and provider, and any number of control processes |
| `MCRunLedger` | its instances for TLC |
| `RunLedgerProofs` | two inductive invariants and five safety properties, proved |
| `SingleOwner` | the abstract promise of `claim_dispatcher`: an owner goes before another comes |
| `DispatcherOwner` | the dispatcher row with starters, commands, service manager and migrations; implements `SingleOwner` |
| `MCDispatcherOwner` | its instances for TLC |
| `SlotAllocation` | several runs of several projects and roles: intents, slot counts, ticks, plans, configuration writes |
| `MCSlotAllocation` | its instances for TLC |
| `DispatcherOwnerProofs` | inductive invariant, row ownership and the refinement, proved |
| `EventFeed` | the abstract promise of a run's event file: a log that only grows, and a copy that is a prefix of it |
| `SlotAllocationProofs` | inductive invariant, types, plans, and both kinds of limits, proved |
| `ProviderRun` | the provider process, its supervising thread, its callers and the reconcilers that read its file; implements `EventFeed` |
| `ProviderRunProofs` | inductive invariant, five safety properties, the order of the table and the refinement, proved |
| `JobDaemon` | the older daemon: cycles, groups, threads, quota, state file, and the commands that write its job files |
| `JobDaemonProofs` | inductive invariant and four safety properties, proved |
| `DeviceUpdate` | update.plan and update.apply, heartbeat update, and migrate-service on three platforms |
| `DeviceUpdateProofs` | inductive invariant, four safety properties and what an answer says, proved |
| `DreamCursor` | the rounds and marks of dream-prep over transcripts that grow |
| `DreamCursorProofs` | inductive invariants, types, the cursor's promise and its progress, proved |
| `MCProviderRun`, `MCJobDaemon`, `MCDeviceUpdate`, `MCDreamCursor` | their instances for TLC |

Which meet which: `RunLedger` takes the provider and its last event as given,
`ProviderRun` takes the row as a state and an offset; both have the worker's and
the reconcilers' order of calls.  `SlotAllocation` keeps of a run what counts
for a slot, `DispatcherOwner` of the dispatcher whether it serves, and
`MigrateInstalls` of a migration that the service was replaced, whose steps
`DeviceUpdate` has.

### RunLedger

A row's fields are cut to what decides something: the state, whether a
supervisor and a provider are recorded and whether with an identity
(`Record`), whether a target and lease are stored, `leaseHandedOver`, the
failure stage and the remaining cleanup steps.  `not_started` and `idle` are
one state, the handlers treat them alike.  `img[p]` is the dictionary a handler
works on, `pc[p]` the place it has reached.  A step is one read, one
observation or one helper call together with the `save_run` after it, which is
`Write`: the whole row is replaced by the copy.  Only `attach_supervisor`
looks at the stored row inside its transaction, and so does `AttachSupervisor`.

| Code | Actions |
|---|---|
| `queue_one_run`, `launch_run_worker`, `queue_and_launch_run` | `QueueOneRun` ... `StartWaitEnds` |
| `reconcile_project_runs`, `reconcile_run` | `ReadActive`, `CheckOwner`, `CheckWorker`, `CheckProcess`, `Judge` |
| `recover_run` and the rest of `reconcile_run` | `RecoverUnverified`, `RecoverResumed`, `RecoverExited` |
| `sweep_dropped_runs` | `ReadDropped`, `SweepWorker`, `SweepLive`, `SweepCleanup` |
| `apply_cancel`, `terminate_run_tree` | `ReadForCancel`, `TerminateRunTree`, `ApplyCancel` |
| `prune_history` | `PruneHistory` |
| `serve_queued_run`, `_start_run_row` | `WorkerBoot` ... `WorkerWatch`, then `Judge(Worker)` |
| the supervising thread, the lease | `RecordOutcome`, `LeaseEnds` |

The two looks at the supervisor (`_live_supervisor_owned_elsewhere` is called
by `reconcile_project_runs` and by `reconcile_run`) are two steps: between them
an answer may change, and the first may answer "unknown" where the second
answers "running".

What is assumed: a process's creation identity is the same for everyone who
reads it; no handler lasts as long as the retention period, which is counted in
days (`PruneHistory` waits for the handlers in flight); run ids are fresh.
Runs share nothing but the slot counts, so one run with any set of processes
stands for all of them.  `Envs` is a set of environments and `Init` picks one.

### DispatcherOwner

A process stands for a PID with its creation identity.  The row names one, or
none.  `ClaimRow` and `ReleaseRow` are the two transactions.  A process nobody
remembers may become a new one (`Forgotten`), so a small set of processes
stands for an endless supply.  `ensure` observes the row's process twice, once
to know "unknown" and once inside `_dispatcher_is_live`; that is `EnsureLooks`
and `EnsureDecides`.  A migration is `StopReads` ... `MigrateVerifies`; the
three adapters differ in commands, not in what happens to dispatchers.

### SlotAllocation

The dispatcher is one process that ticks the projects in turn; `Clients` are
control commands.  Each works on copies: `tick.configuration` and
`tick.copies` are what a tick has read, `cmd[c]` what a command has.  A step is
one transaction of the store, or a count and the decision taken from it; between
two steps everything else may move.

| Code | Actions |
|---|---|
| `tick_all_projects`, `_fair_order` | `TickAllProjects`, `TickEnds`, `FairOrder` |
| `tick_project` up to the intents, with reconcile and sweep | `ReadConfiguration`, `RunAdopted`, `TickReturns`, `ListIntents` |
| judging and marking intents, the sort | `DropUnwanted`, `MarkDue`, `SortsDueIntents` |
| the fill loop | `CheckRoom`, `PassEnds`, `NoSeatForRole`, `PreflightRefuses`, `TickQueuesRun`, `RunNotStarted`, `RunRejected` and `DropRejected`, `RunStarted`, `CountAgain` |
| the watcher, `mark_automations_due` | `WatcherLists`, `WatcherMarks`, `WatcherEnds` |
| `config.write`, `sync_automation` | `WriteConfiguration`, `SyncLists`, `SyncDrops`, `Activate`, `SyncEnds` |
| `plan.read`, `build_plan` | `PlanReads`, `PlanCounts`, `PlanGrants`, `PlanSaves`, `PlanExpires` |
| `run.start` | `StartReads`, `TakePlan`, `PlanNotFound`, `RuntimeChanged`, `ConfirmPlan`, `StartQueuesRun`, `StartedOne`, `StartLeavesRole`, `StartEnds` |
| `run.retry` | `RetryReads`, `RetryQueuesRun`, `RetryEnds` |
| pause, resume, consent | `SetPaused`, `SetConsent` |
| a run, as the counts see it | `RunServes`, `RunGivesUp`, `RunEnds`, `RunDropped` |

What is cut: a run is queued, serving or occupying (`RunLedger` has the rest);
times become a due flag per intent and two orders, `turns` (by `lastAssignedAt`)
and `projectTurns` (by the latest run), so ties in the second resolution of the
clock do not occur.  Intents always have mode `auto`, since `sync_automation`
alone creates them.  The limits are constants: a `config.write` changes which
roles repeat, and `automationEnabled`.  The watcher reports one project per
cycle.  Ids that nothing remembers stand for new ones.  Active and occupying
runs are counted in one step although the code lists them one after the other:
a run dropped in between would be counted twice, and none can be missed,
because only the tick's own sweep adopts.  A worker that writes an old row back
over a dropped one (`RunLedger`'s findings) is not repeated here.
`starts` and `spent` are history variables: they remember what the properties
ask for and no action reads them.

A list that loses members keeps the order of the rest.  `Keep` and `Without` say
so by the places of the members that stay, which the provers can reason about;
the selection operators of the libraries are recursive.  `OrderAssumption` says
that projects and roles are lists, and that a role is listed once;
`NoneAssumption` that the absent value is none of the things it is told from.

### ProviderRun

`Envs` is a set of environments and `Init` picks one: what a provider may do, and
who calls or reads while it runs.  A pipe and its reader thread are one FIFO;
an event is in the file in two steps (`writing`, then `file`), since a reader
may meet half a line.  Times are choices.

| Code | Actions |
|---|---|
| `CliProvider.start`, `_start_run_row` | `Diagnose`, `Spawn`, `DeliverPrompt`, `Reap`, `HandOver` |
| `supervise_process`, `_supervise` | `Flush`, `Check`, `GetLine`, `Judge`, `CloseFile`, `PublishResult` |
| `terminate_process_tree` | `Signal`, `FindFamily`, `Grace`, `Settle` |
| `cancel`, `cancel_run`, `wait`, `conclude_run` | `Cancel`, `Confirm`, `Join`, `Conclude` |
| `reconcile_run`, `recover_run`, `watch_run`, `last_event`, `_drain_events`, `save_run` | `ReadRow`, `RecoverRun`, `Watch`, `AppendEvents`, `LastEvent`, `SaveRow` |
| the worker's return | `WorkerEnds` |

What a line says is cut to the kind it is normalised to; several results of a
run that exits with the same last event are the statuses of `Judge`.

### JobDaemon

One project.  A process is a daemon or a `heartbeat once`; `main[p]` is its
main thread with the parsed jobs, `thread[p][t]` a thread of its pool with the
jobs of its group that are left, taken in the order of the files (`First` by `JobOrder`),
`mem[p]` the state every thread changes, `disk` the file.  A job is fresh or
due, and its `recent_runs` are launches, which have a name so that two windows
can be compared; `window` and `lost` are history.  A `state.json` that is broken
or cannot be read is an empty one to whoever loads it (`Loads`), and a daemon
that starts saves what it has loaded.

| Code | Actions |
|---|---|
| `cmd_start`, `_is_running`, `_load_state`, `cmd_stop`, `cmd_once` | `CheckPid`, `StartDaemon` with `Loads`, `Stop`, `Drained`, `Once`, `OnceRuns`, `OnceEnds` |
| `parse_heartbeat_md`, `_dispatch_due_groups` | `ReadBase`, `ReadJobsD`, `Dispatch` |
| `_run_slug_group` | `Take`, `Finish`, `Due`, `NotDue` |
| `run_job`, `_quota_exceeded`, `_record_quota_run`, `save_state` | `OverQuota`, `WithinQuota`, `Missing`, `ConditionFails`, `Launch`, `Record`, `Ends` |
| `cmd_migrate`, `cmd_install` | `Migrate` ... `MigrateDies`, `Install`, `InstallOpens`, `InstallFills` |

A file is truncated and then filled, as `write_text` does, and a read in between
sees it empty.  When intervals pass, they do in every copy of the state, since
they are times compared with a clock.

### DeviceUpdate

A version is a number and a directory that is absent, intact or corrupt; a
daemon is the version it has loaded.  With git a version is a commit, and
`VersionString` gives each the `__version__` it contains: a line changed by
hand, which several commits share.  A daemon writes that string into
`state.json` when it starts (`Announces`), and `Decide` compares it with the
string on disk; commits themselves are compared nowhere but between HEAD and
its upstream.  `Fails` says that a command may fail.
The three platforms share the actions and differ in what `RestartStatus`,
`BeginMigration`, `LoadDefinition` and `Restore` do.  A device has one of them,
and only a launchd service can be found under a foreign label
(`PlatformAssumption`).

| Code | Actions |
|---|---|
| `read_device_facts`, `apply_update`, `activate_stable_launcher`, `_prune_old_versions` | `PlanUpdate`, `ReadAgain`, `SwitchLauncher`, `RestartService`, `CheckVersion`, `Prune`, `Succeeds` |
| `update.py` | `Fetch`, `Merge`, `InstallDeps`, `Decide`, `RestartDaemon` |
| `migrate` of the adapters | `BeginMigration`, `BeginOwn`, `Disable`, `Unload`, `StopUnit`, `WriteDefinition`, `LoadDefinition`, `VerifyService`, `Restore` |

### DreamCursor

A transcript is a sequence of lines and a line's number is its uuid.
`proc[p]` is one run of dream-prep: the cursors it read before its batch, and
the mark it will make.  An entry of the section keeps its place (`at`) because
compaction goes by order.  A `dream_meta.md` that cannot be read has no marks
(`Parsed`): `parse_meta_v2` is called to find what is unprocessed and once more
before the batch, and each call may fail by itself.

| Code | Actions |
|---|---|
| `check-unprocessed`, `parse_meta_v2`, `preprocess_project` | `Find`, `ParseMeta` with `StartBatch`, `NextFile`, `BatchEnds` |
| `_process_active_or_huge`, `extract_partial_conversation` | `ReadWindow` with `Round` |
| `_process_sealed` | `ReadWhole`, `ReadLast` (its second scan) |
| the output file | `WriteOutput` |
| `mark_processed`, `_mark_processed_locked`, `_gc_compact_old_sealed` | `LookForMeta`, `CreateMeta`, `Lock`, `LockFails`, `ReadMeta`, `Replace` with `Writes`, `Marked` and `Compacted` |

### Runs

| Run | Instance | Result |
|---|---|---|
| `ledger_safety` | 2 control processes, every kind of disturbance, in two environments: unreadable processes in one, cancels and failing kills in the other | types, the inductive invariant and the five safety properties hold |
| `ledger_live` | a ticking dispatcher and a second process; reused PIDs, worker death, failing helpers | `SlotEventuallyFreed` holds |
| `owner` | 3 dispatcher processes, the job daemon that also migrates; reused PIDs, dying commands | the row names who serves, the refinement and `SchedulingResumes` hold |
| `slots_manual` | 1 role with one slot, 2 commands that plan, start and retry, 2 runs, 1 plan | types, `AutomaticWithinLimits`, `PlanHasOneTaker` hold |
| `slots_config` | 1 role with executionLimit 2, device limit 1, a command that rewrites the configuration | `WithinExecutionLimit`, `RoleStops` hold |
| `slots_turns` | 2 projects with 2 roles each, one device slot | `RoleServed` holds |
| `provider` | five environments of one run: a deaf family that is cancelled, time-outs, callers, two reconcilers with dying worker and readers | the file's end and the result agree, a confirmed cancel is one, a late judgement is exact, the feed is in order, cancels end, gone runs are judged |
| `jobs` | 3 jobs in 2 groups, 2 threads, 2 processes, one quota; ten environments, one daemon at a time | a group never runs twice in a daemon, the quota holds over restarts, no job vanishes in a migration, due jobs are judged |
| `update` | 3 versions, two of which share a version string, 17 devices: the three ways of updating on three platforms | the launcher runs, answers are true, failed migrations restore |
| `dream` | 2 transcripts of 3 lines, ten environments, with 2 processes in three of them | marks are backed by output, and those of one process at a time only advance |
| `dream_live` | the same transcripts, five environments | everything is prepared |
| `terminal_lost` | a worker and its provider, undisturbed | violated: see section 4 |

Why the bounds are enough to see what matters.  Two control processes give
every pair of handlers an interleaving of their own on the same row, with the
worker as a third writer; a third client would add a third stale copy, and the
inductive invariant, which is proved for any number, speaks of each copy alone.
Three dispatchers are one that owns, one that was read from a stale row and one
that takes over between the two.  No counter of the first three modules had to
be bounded: their state spaces are finite by themselves.  Cancels and unreadable processes together make the largest
instance, four million states, too long for a routine run: `ledger_safety` has
one environment with unreadable processes and one with cancels and kills that
fail.  The theorems are about every environment.

In `SlotAllocation` a run id is free again when its run is over and nobody
remembers it, so two ids are enough for one slot and one run too many.  Two
commands are two takers of one plan, or a retry beside a plan.  Two activations
are an old one in a copy and its successor in the row.  Four takers of one slot
(two roles in two projects) make both orders matter.  `slots_config` has one
role and no dying dispatcher, because a death between queueing a run and saving its intent
forgets a start, so that `WithinExecutionLimit` fails.  Expiry makes a plan
disappear at any time; a new one may always be read.

`ProviderRun`: `MaxLines` = 2 lets the last event be the terminal one or not,
and follow junk or a failure; the descendants are the four that
`terminate_process_tree` treats differently.  `MaxTable` = 6 is twice the
longest file, so a file can be stored twice over.  Two other reconcilers are
one with a stale row and one that overtakes it.

`JobDaemon`: two threads and two groups, one of which holds a thread for ever
(`Long`); a group of two jobs, so that one waits for the other; a quota of one.
`Launches` = 2 is the first launch and the one too many; `Launch` waits when
both are in the window.  Environments are one concern each: all of them
together exceed any bound, and their interplay (a stop during a migration) is
between parts that share only what a restart shares.  `overlap`, a second
daemon during start or drain, is in the module and too large for the routine run.

`DeviceUpdate`: three versions are the old, the new and one to prune (or, with
git, a commit that arrives between two updates).  Each device has one way of updating and one kind of
trouble; a way back that meets failing commands is among them.

In `MCDeviceUpdate` the first two commits share a version string and the third
has another, so an update meets both an unchanged and a changed one.  The string
matters with git only: update.apply compares directories.

`DreamCursor`: with `MaxMessages` = 2, `HugeLines` = 2 and three lines a
transcript needs two rounds, and the second one begins at the cursor.  Two
transcripts and a limit of one make a batch wait; a threshold of one makes the
second seal compact the first.  Each environment combines the troubles that
meet in one mechanism: lost marks and unread ones with transcripts that need
several rounds or with the limit, which need several batches; two processes with
both.  `dream_live` leaves out transcripts that go on after they went quiet,
about which nothing is promised, and the pairs the property excepts (below).

The theorems of section 3 lift these bounds for everything that is safety.  The
liveness properties keep them, and so does what section 4 says is violated.

Deadlock is checked in `jobs`, which cycles for ever.  Elsewhere it is not: an
ended run, a settled device without repeat intents, a device that nobody
updates and transcripts that were all read really rest.

Symmetry is used over control and updating processes where only safety is checked.

### Fairness

`ledger_live`: one client is the dispatcher.  It ticks for ever and finishes
what it began (`serve_continuous_intents` loops over `tick_all_projects`, each
tick reconciles and sweeps before anything else), hence weak fairness of its
steps and strong fairness of picking up an active or a dropped row, since other
writers may take the row away again and again.  A release that is tried again
in every tick succeeds in the end (strong fairness of the successful sweep),
and a process that took over a worker's PID ends some day.  Nothing is assumed
of the second process, the worker or the provider.  `unobservable` is left out
of this run on purpose: a process that can never be read holds its slot for
ever by design ("Unknown liveness holds the slot untouched").

`owner`: the job daemon ensures a dispatcher in each cycle; launching does not
fail for ever; a started dispatcher process runs on.  `calm` stands for the
point from which nobody kills dispatchers, migrates or changes intents: before
it nothing can be promised.  `SchedulingResumes` says that a dispatcher comes
back whatever was killed or left in the row; since the job daemon ensures one
anyway, it says nothing of the step with which a failed migration restores one
(`service/__init__.py:68`).

`slots_*`: the dispatcher goes on (weak fairness of its steps).  Runs start or
fail and end, and not always just while a tick is under way (strong fairness of
both while the dispatcher sleeps): a tick lasts seconds and a run minutes.
Without that, a run could always be over before the sweep reaches the next
project, and section 4 shows what remains possible within it.  Poll
intervals elapse (`TimePasses`, strong because the dispatcher sleeps again and
again).  In `slots_turns` all elapse together, as with equal intervals set by
one `config.write`; section 4 tells what happens when each elapses by itself.  Commands owe nothing: a
`config.write` may stop half way for ever.  `RoleStops` holds all the same,
because a tick drops what it should have dropped.

`provider`: threads of a live process run, a pipe whose holders are gone
closes, a process that obeys SIGTERM and was sent one ends, and a descendant
ends some day.  That last one is an assumption: a descendant that keeps the
pipes open and never ends keeps the supervisor waiting, whatever it killed.  The
provider itself owes nothing, nor do callers.  A reconciler that has begun goes
on, and ticks come again, unless the environment lets readers die.

`jobs`: the main thread's cycle and each thread go on, and claude ends, by
itself or by its timeout, except the jobs in `Long`: `DueJobIsJudged` is about
what their group mates must not impose on other groups.  It asks for nobody to
stop, kill, move or edit, since those may take the job away.

`dream_live`: sessions end (a transcript goes quiet), and dream-prep comes round
and goes on.  A crash happens once.  A mark may fail again and again, and so may
reading the marks; what is assumed is that neither fails for ever.  A transcript
whose mark is tried in round after round has one stored some day (strong fairness
of `Replace` with `Writes`, for each transcript, since each attempt is a new
one), and some day a batch starts from the marks that are in the file (strong
fairness of `ParseMeta` with `StartBatch` of `meta`).  The troubles meant are a
lock that another process holds for longer than this one waits, a full disk, a
file that cannot be read just now; they pass.  The assumption is needed as soon as a
transcript takes two rounds or waits for a place in the batch: where every mark
fails for ever, every round reads the same first lines of a huge transcript
again, and with a limit every batch takes the same first transcripts, so what
stands behind them is never prepared.

`EverythingIsPrepared` has conditions besides.  The limit must not be used up by
transcripts that are never marked (huge ones read to their end, those without a
turn, and sealed ones when the marks cannot be read), which come first in every
batch (`dream/cli.py:125-127`).  And of two processes of which marks fail or
cannot be read, nothing is claimed of transcripts that take several rounds, nor
with a limit: each may put back the cursor the other has stored.  With two
processes that lock and read, the cursor comes back but goes on in the end, and
`dream_live` has that case.

## 3. Proofs

Every safety property that a run checks is also a theorem, for every value of
the constants that the modules' assumptions allow.

| Module | Theorems | Beyond the modules' own assumptions |
|---|---|---|
| `RunLedgerProofs` | `TypeCorrect`, `InvCorrect`, `EndedIsDead`, `EndedReturnedLease`, `HandedOverIsGone` | none |
| | `ObservedCorrect`, `SlotCorrect`, `JudgementCorrect` | none; their statements are about environments in which processes can be observed |
| `DispatcherOwnerProofs` | `TypeCorrect` | none |
| | `InvCorrect`, `ServingOwns`, `Refines` (`OneOwnerAtATime`) | processes can be observed |
| `SlotAllocationProofs` | `TypeCorrect`, `PlanCorrect` | none |
| | `LimitsCorrect` | `CountsEachTime` |
| | `ExecutionCorrect` | `SeesEachRun` |
| `ProviderRunProofs` | `InvCorrect`, `TypeCorrect`, `TerminalCorrect`, `CancelCorrect`, `FailedStartCorrect`, `LateCorrect`, `OrderCorrect`, `FeedCorrect` (`FeedSpec`) | none |
| `JobDaemonProofs` | `InvCorrect`, `TypeCorrect`, `SerialCorrect`, `QuotaCorrect`, `VanishCorrect` | none; the quota's conditions (section 4) are in its statement |
| `DeviceUpdateProofs` | `InvCorrect`, `TypeCorrect`, `LauncherCorrect`, `OkCorrect`, `MigrationCorrect`, `ReportCorrect` (`UpdateAsReported`) | none; any assignment of version strings |
| `DreamCursorProofs` | `TypeCorrect`, `WhatIsMarkedIsPrepared`, `MarksAdvance` (`CursorsAdvance`) | none |

Hardly any of the properties is inductive.  What follows says of each module
which stronger invariant is, and why it holds.  There is one lemma per action
and part of the invariant; lemmas about the record edits and the sequences come
first in each module.  Every strengthened invariant was checked by TLC on the
instances of the runs before it was proved; only `IInv` of `RunLedger` and
`OwnerInv` are among what the routine runs check.

### RunLedger

The properties speak of the stored row, and the next row is whatever copy some
handler still holds.  So `IInv` quantifies over `Copies`, the stored row and
every copy in flight.  `Sound` (a copy that names a provider calls the run ended
only if that provider is dead) is stable because a dead provider never comes
back and a provider is started once (`LaunchOnce`: the worker is created once,
by the process that queued the run).  `Returned` and `DropSound` do the same for
the lease, which is taken once (`ReservedOnce`) and, once it is gone, never held
again.  `StopSound` carries what a cancel learned between its two steps, and
`WorkerInHand` and `ClientInHand` say which copies the handlers hold at each
step.

`NamedProviderKeepsSlot` and `NoForeignJudgement` need that processes can be
observed (`Observable`; the first finding in section 4 is what happens
otherwise).  `ObservedInv` adds to `IInv` what then holds of each copy
(`Observed`: a recorded provider has an identity, and a copy that drops the run
beside a live provider names a step that remains) and of each handler
(`OwnersGone`: one that goes past a recorded worker has seen it dead, and a
worker that died stays dead).

### DispatcherOwner

`OwnerInv`: whoever is about to release a row has read it and has seen its
process dead (`StaleOnly`); identities are not used again while somebody
remembers them (`Remembered`); so a release that comes late names a dead process
and not the owner.

That processes can be observed is needed here too.  With unreadable processes,
`ensure` may see the dispatcher running at the first look and fail to read it at
the second: it then is neither live nor "unknown", its row is released, and a
second dispatcher is launched while the first serves.  TLC finds that behaviour
when `unobservable` is added to the `owner` run.

### SlotAllocation

`Base` is what every step of a tick or a command relies on: the types, what the
tick has in hand at each place (`TickInv`, `RoundInv`: the roles it passes over
are due, unrepeated and have a copy), the two orders (`TurnsInv`), the commands
(`CommandInv`), and the plans (`PlanInv`: a taken plan is gone and its id is not
given out again while a command still has it).  `PlanCorrect` follows.  Only
finitely many runs exist at any moment although the set of their ids may be
infinite, which is what makes counting them mean anything.

`LimitsCorrect` is about a count that is old when it is used: between the count
and the queueing, other runs are queued by hand, dropped, adopted or over.
`RoomInv` says that since its last count the tick's project and the device have
room besides the run the tick waits for, since nobody but the tick queues
automatic runs and adopting does not happen in between; `AwaitedWorks` says
which run that is.  `CountsEachTime` states when the tick counts after each run:
no role has an execution limit, and runs are not both dropped and over before
their starter has looked.  Without it the property fails (section 4).
`slots_manual` and `slots_turns` are instances of it.

`ExecutionCorrect` is about a counter kept in copies that a tick writes back over
rows others have replaced.  `CountInv`: what an activation has served, together
with its queued runs, is at most what the row counts, and what every copy that
may still be written back counts, but for the one run the tick waits for and has
not counted yet.  `OneSlotEach` says that an activation is the intent of one role
of one project in all rows and copies.  `SeesEachRun` leaves out runs that are
over before their starter looks, and a dying dispatcher; `slots_config` is an
instance of it.

### ProviderRun

`IInv` is `TypeOK` with five parts: how far the start has come decides what there
is (`StartInv`); what the supervising thread has written at each of its steps
(`SupervisionInv`); that the tree is terminated once and what was stopped is dead
(`FamilyInv`); what the pipe may still hold (`QueueInv`); and what readers have
delivered (`DeliveryInv`, with `CopyInv` for the row in each reader's hands).
The last one is the heart of it: stored offsets go back when a stale row is
written over a newer one, and an event is appended before the offset that says
so, so it holds of any row and any copy that the table has everything before the
offset in order.  `OrderCorrect` (`NoEventOvertaken`, which no run lists) is one
conjunct of it.

`FeedCorrect` maps the file to the log of `EventFeed` and the table to its copy:
`FirstSeen` keeps the first place of each event in the table (`Firsts`) and
orders them by `Rank`.  The lemmas show that the n-th first place holds the n-th
event, so `FirstSeen` is a prefix of the file, and that an append adds a first
place at the end or none.

### JobDaemon

`GroupSerial` is inductive together with what the pool holds (`Pooled`).
`NoJobVanishes` rests on `FilesKept`: at every moment of a migration one of the
two files lists each job, and a cycle that has read the first finds in the
second what the first did not have.  `QuotaHolds` speaks of several runs of a
daemon.  `OneDaemon` and `Grouped` put a job in the hands of one thread;
`LaunchesKept` says that what was launched within the window is recorded, or
about to be recorded by a thread, or lost in a crash, and that a thread that has
found room still has it, because nobody else launches the job.

### DeviceUpdate

`IInv` says that one update is between its steps (`OneUpdate`) and that what it
has read of the device is still so (`Switched`, `Announced`, `SeenIsOwn`,
`InMigration`), though daemons start and stop by themselves: a daemon that starts
loads what is installed, so only one that went on running can be of another
version.  `OkCorrect` promises what the code can know: a daemon found running
has the version string that is checked out, since that string is all `Decide`
compares, and it has the very commit if this update moved HEAD, since then the
daemon is restarted whatever its string.  That the daemon runs the commit that is
checked out after every ok is not so (`OkRunsTheCheckout`, section 4).  Each part has the conditions under which the code promises it, and
`Asked` for requests of one kind.  `ReportCorrect` is an action property: the
answer is given in one step, and the invariant says what was so before it.

### DreamCursor

`ReadBeforeCursor` speaks of the marks in the file, which are replaced by copies
that were read before, changed by cursors that were read before those.  So
`Holds` says of any status and cursor what they claim, and `IInv` asserts it of
the file (`MarksHold`), of every process's early cursors, of its copy of the
section, and of the mark it is about to make, before its output (counting the
lines in hand) and after it (`Knows`).  Claims are stable: transcripts and
outputs only grow, and where nobody goes on in a quiet transcript (`Calm`) what
was sealed stays the whole.  `RoundPrefix` shows that a round that a cap ends has
left out nothing before its last line; compaction only lowers a cursor.  Where
quiet transcripts go on, `OneAtATime` keeps a lone process from starting at the
cursor of a seal; with both troubles at once the property does not hold, and it
says so.

`MarksAdvance` needs more of a process that is alone (`NothingStale`): what it
has read before its batch is what the file still says of every transcript to
come, none of which is sealed; the copy it replaces the file with is the file;
the mark of a round is beyond the cursor it started from; and it creates the file
only while there is none.

### What is only model-checked

* The liveness properties `SlotEventuallyFreed`, `SchedulingResumes`,
  `RoleServed`, `RoleStops`, `CancelEnds`, `GoneRunIsJudged`, `DueJobIsJudged`,
  `EverythingIsPrepared`: fairness and ENABLED are beyond the prover.
* That the conditions of the theorems are needed, and everything section 4 calls
  violated: a counterexample is a behaviour, and TLC finds it.

The proofs use no assumption besides those of the table and the modules' own
`ASSUME`s, which TLC evaluates on every run.  The latter say that constants have
the shape the code gives them: lists of names, finite sets of groups
and launches, an absent value that is nothing else, one platform per device.

## 4. Where the code and its documents differ

One difference is a run.  `terminal_lost`: the worker reconciles its own run
while its thread supervises the provider.  When the provider has exited and the
terminal event is not yet appended, the worker calls the run failed, sees a row
that is not active and returns, and the thread dies with it
(`agent_dispatch.py:1488`, against lines 7-10: a worker "owns the provider
supervisor until the terminal event and lease cleanup are persisted").

More are stated as properties and are violated, each in an instance a reader
can set up in seconds; they are not among the routine runs:

| Property | Instance | What TLC shows |
|---|---|---|
| `EmptyRemainingProvesFree` | `MCRunLedger`, `Spec`, 1 client, `Envs = {{"unobservable"}}` | a provider that could not be observed once is dropped with no remaining step: its slot is free while it lives, and no sweep looks at it again (`agent_dispatch.py:1481`, against its lines 357-360) |
| `CancelledStaysCancelled` | the same, `Envs = {{"cancel"}}` | a cancel during the start is overwritten by the worker's next `save_run` (`agent_dispatch.py:876`, against its lines 1561-1562) |
| `LiveRunIsNeverPruned` | the same, `Envs = {{"cancel", "kill_failure", "prune"}}` | retention deletes dropped rows that still hold their slot (`agent_store.py:765`, against its line 758 and `agent-runtime-contract.md:183-185`) |
| `NeverReapsALiveWorker` | the same, 2 clients, `Envs = {{}}` | a tick or state read between queueing and attaching fails the run of a living worker (`agent_dispatch.py:1451`, against its lines 8-10) |
| `AutomaticWithinLimits` | `MCSlotAllocation`, `Spec`, 1 project with 1 slot, 2 roles, the developer's execution limit 2, device limit 2, 2 runs, 2 activations, no commands, `Env = {}` | a start that reaches `executionLimit` skips the new count of slots, and the next role is queued over the limit (`agent_dispatch.py:1845`) |
| `RepeatingRoleHasIntent` | the same module, 1 project, 1 role without limit, 1 run, 2 activations, 1 command, `Env = {"config"}` | a tick with an older configuration drops an intent that was just activated (`agent_dispatch.py:1753`, against `agent-runtime-contract.md:198-199`) |
| `EveryProjectIsTicked` | the same module, `FairSpec`, 2 projects, 1 role with `RoleMax` 2, device and project limits 2, 2 runs, `Env = {}` | the fill loop of one project goes on while runs end in it, and no other is ticked (`agent_dispatch.py:1782`, against its line 1864) |
| `RoleServed` | as `slots_turns` with 1 project, `PhasesSpec`, `Env = {"phases"}` | a poll is used up while the project is full; with intervals that elapse apart one role keeps the slot (`agent_dispatch.py:1766`, against its line 1778) |
| `OkRunsTheCheckout` | `update.cfg` with this invariant alone and the environment `{"git", "tasks", "registered", "fails"}` | an update moves HEAD to commit 2, whose `__version__` is that of commit 1, and stops when pip fails; the next one finds HEAD in place and the strings equal, and answers ok while the daemon runs commit 1 (`update.py:253-260`, whose comment says that the process is checked even when nothing was pulled; `core.py:112-114` calls a version that differs the sign of old code in the process) |
| `ServiceOwnsTheSingleton` | `owner.cfg` with `Spec`, a second client as `command`, 2 servers, `Env = {}` | an `ensure` between stop and start leaves an unmanaged dispatcher in charge after a successful migration (`service/__init__.py:63`, against `agent_dispatch.py:1087`) |

Several properties carry a condition because the code breaks them beyond it.
With the condition taken away TLC shows the behaviour in the instance named:

* `NoForeignJudgement`, unreadable processes (`MCRunLedger`, 1 client,
  `Envs = {{"unobservable"}}`): the first look at the worker answers "unknown", which
  is not an owner elsewhere, the second "running" with its identity, which is
  nothing to stop at, and the reader goes on to judge a run whose worker lives
  (`agent_dispatch.py:1379`, `1396`).
* `LauncherRuns`, two updates at once (`two`): there is no lock, and one prunes
  what the other has just switched to (`runtime_management.py:331`).
* `OkMeansCurrent`, failing commands: pip fails after HEAD has moved, the next
  update sees nothing to pull, skips the dependencies and reports ok
  (`update.py:245`).  A daemon started by hand beside a registered service keeps
  the old code while the service is restarted (`update.py:266`).
* `UpdateAsReported`, `OkMeansCurrent`, `MigrationRestores`, requests of
  different kinds at once (`Asked`): nothing locks update.apply, heartbeat update
  and migrate-service against each other, so each answer is about a device on
  which only its own kind is asked for.
* `AutomaticWithinLimits`, an execution limit: its end skips the new count of
  slots, as the table says, and so does a run that is dropped while its starter
  still waits for it (`agent_dispatch.py:1845`).
* `WithinExecutionLimit`, `quick` or `crash`: a run that is over before its
  starter has looked counts as not started, and a dispatcher that dies between
  starting a run and saving its intent forgets it (`agent_dispatch.py:1832`).
* `QuotaHolds`, `unreadable`: a daemon that starts and cannot read `state.json`
  takes it for an empty one and saves that (`core.py:92-93`, `122`), so what
  was launched in the window is forgotten.
* `QuotaHolds`, `overlap`, `once` or `edit`: the check and the record are two
  steps, and two daemons, a `heartbeat once` or a job under a second group pass the check together
  (`core.py:463`, `527`).
* `GroupSerial` is keyed by group: a job whose group is edited while it runs is
  submitted again under its new key (`core.py:653`).
* `CursorsAdvance`, `two`: each process works from what it has read before its
  batch, and the slower one puts a cursor back (`dream/cli.py:59`).  With
  `unreadable` one process does so by itself: it reads no marks before its batch,
  starts from the first line, and its mark moves the cursor back or unseals the
  transcript (`dream/meta.py:65-68`).  Turns are then fed again.
* `ReadBeforeCursor`, `two` with `grows`: one process seals a transcript that
  grew between its two scans, and another goes on from that cursor in rounds,
  past lines nobody has read (`dream/cli.py:169, 180`).  With `unreadable` and
  `grows` one process does both, since a sealed transcript whose mark it could
  not read looks unprocessed to it.
* `EverythingIsPrepared`: its conditions, and the fairness it needs, are told
  under Fairness.

Also met while modelling:

* Providers: a descendant whose parent dies between SIGTERM and the look at the
  tree is missed (`process.py:1065`, against "root and every descendant
  confirmed gone", line 1052).  One that ignores SIGTERM and holds the pipes
  keeps the supervisor and `wait` for as long as it lives (`process.py:1028`).
  A worker that dies between starting the provider and storing its PID leaves a
  process no row names (`agent_dispatch.py:868`).  Overlapping reconcilers or a
  death between append and save store events twice (`agent_dispatch.py:1355`);
  `FeedSpec` shows that order and completeness survive.
* Job daemon: SIGTERM removes the PID file at once while threads drain, and two
  starts may both pass `_is_running`; each daemon then saves its whole state over the
  other's.  A PID used again by a stranger blocks the start.  `migrate` that
  dies while it rewrites `HEARTBEAT.md` leaves it empty (a backup is kept).
* Updates: after a partial success the retry finds the new version installed
  and prunes the rollback target (`runtime_management.py:301`); versions that
  running workers execute are pruned (331); the check of the running version
  reads only the launcher (293).  A launchd registration of its own has no way
  back, and a migrator that dies restores nothing (`service/launchd.py:276`).
* Dream: transcripts that yield nothing are never marked, so they stay unprocessed and with a
  limit they come first in every batch (`dream/cli.py:125-127`).  A sealed transcript that grows
  is never read again (`window.py:171`).  Compaction counts entries that are
  already compact in the excess, so a later one compacts all
  (`meta.py:298`, against its line 23).  A seal reads the whole transcript
  again, whatever rounds have read.

`PROJECT.json` lists every hazard with its line and the properties about it.

## Not modelled

* `RunLedger`: the start without a detached worker, which only tests use.
* `SlotAllocation`: manual targets, limits that change, migration locks, the
  watcher's threads and its degraded state.
* Store: schema migrations, the errors table and queries.
* Providers: what lines say beyond their kind; availability checks.
* Job daemon: notifications and logging; its calls of the dispatcher are
  clients of `DispatcherOwner`.  A stranger with a stale PID.
* Command line: argument parsing, printing, `init`, the skill files `install`
  copies.
* Updates: hashes and manifests below "complete or not", and the preview of the
  legacy migration, which only reads.
* Services: uninstall as a command of its own; plist, unit and XML text.
* Dream: `--reset-cursor`, `--dry-run`, `mark` by hand, the older `processed:`
  list, the text of the output.  The `/dream` session edits `dream_meta.md`
  outside the lock, and is a language model.  Output names have a resolution of
  one second: two rounds of one transcript in a second share a file, which a
  model without clocks does not show.
* heartbeat-register is a prompt.  Parsing and rendering elsewhere (XML, plists,
  envelopes) keep no state and promise nothing about order.

## 5. Plan

What is left, in order of weight:

1. `SlotAllocation` with limits that change and with manual targets, and
   `LimitsCorrect` again for them.
2. `LimitsCorrect` with execution limits, for a bound that is true of the code:
   at most one run over the limit for each role that ends.
3. The slot counts of `SlotAllocation` as an abstraction of the rows of
   `RunLedger`: a refinement between the two, for one run.
4. An answer of `EventFeed`'s readers about `RunLedger`'s last event, so that the
   two modules of a run meet in one specification.
