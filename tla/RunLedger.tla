----------------------------- MODULE RunLedger -----------------------------
(***************************************************************************)
(* The life of one agent run: its row in the SQLite ledger, the detached   *)
(* worker that supervises it, the provider process the worker starts, the  *)
(* target lease it holds, and the short-lived control processes (run.start *)
(* callers, state reads, dispatcher ticks, run.cancel callers) that        *)
(* reconcile, sweep, cancel and prune that same row.                       *)
(*                                                                         *)
(* Nothing locks a run.  Every handler reads the row once, looks at        *)
(* processes and calls helpers, and then writes the whole row back, so a   *)
(* step here is one read, observation or helper call together with the     *)
(* blind write that follows it.  Runs meet only in the slot counts, so one *)
(* run with any number of control processes is the whole story.            *)
(***************************************************************************)
EXTENDS Naturals, FiniteSets

CONSTANTS
  Clients,    \* the control processes that may touch the row
  Worker,     \* the detached worker of the run
  Envs        \* the environments to look at, sets of EnvKinds

EnvKinds == { "unobservable",    \* observe_process may answer unknown
              "pid_reuse",       \* a dead process's PID may name another one
              "worker_crash",    \* the worker may die at any point
              "client_crash",    \* a control process may die at any point
              "helper_failure",  \* wf-claim renew and release may fail
              "kill_failure",    \* a terminated process may survive
              "cancel",          \* the operator cancels runs
              "prune" }          \* the row outlives the retention window

ASSUME WorkerIsNoClient == Worker \notin Clients
ASSUME EnvAssumption == Envs \subseteq SUBSET EnvKinds

VARIABLES
  env,         \* what the environment of this run may do
  row,         \* the stored row, NoRow when there is none
  img,         \* img[p]: the copy of the row process p works on
  pc,          \* pc[p]: what process p does next
  supervisor,  \* the worker's OS process
  provider,    \* the provider's OS process
  events,      \* the outcome the run's event file ends with, "open" if none
  lease        \* the run's lease in the project's lease directory

vars == <<env, row, img, pc, supervisor, provider, events, lease>>

Procs == Clients \cup {Worker}

(***************************************************************************)
(* A recorded process is a PID with the creation identity read for it, or  *)
(* with none when observe_process could not read one.                      *)
(***************************************************************************)
Record  == {"none", "unidentified", "identified"}
Active  == {"queued", "reserved", "running"}
Ended   == {"succeeded", "failed", "cancelled"}
State   == {"absent", "idle", "recovery_required"} \cup Active \cup Ended
Steps   == {"process_termination", "event_close", "lease_release"}
Stage   == {"none", "reservation", "request_validation", "provider_start",
            "role_session", "recovery", "cleanup"}
OsState == {"unborn", "alive", "dead"}

Row == [state : State, sup : Record, prov : Record, target : BOOLEAN,
        handedOver : BOOLEAN, stage : Stage, remaining : SUBSET Steps]

NoRow == [state |-> "absent", sup |-> "none", prov |-> "none", target |-> FALSE,
          handedOver |-> FALSE, stage |-> "none", remaining |-> {}]

ClientPc == {"idle", "popen", "attach", "await", "discard", "owner", "worker",
             "process", "judge", "sweepWorker", "sweepProcess", "stop", "giveBack"}
WorkerPc == {"unborn", "boot", "join", "load", "preflight", "reserve", "hold",
             "confirm", "start", "publish", "watch", "judge", "gone"}

TypeOK ==
  /\ env \in Envs
  /\ row \in Row
  /\ img \in [Procs -> Row]
  /\ pc \in [Procs -> ClientPc \cup WorkerPc]
  /\ \A c \in Clients : pc[c] \in ClientPc
  /\ pc[Worker] \in WorkerPc
  /\ supervisor \in OsState
  /\ provider \in OsState
  /\ events \in {"open", "completed", "failed"}
  /\ lease \in {"none", "held", "ended"}

(* Seeded fault: dropped runs count as free, as they once did.             *)
OccupiesOnlyWhileActive(r) == r.state \in Active

(* A run holds a slot while it is active or dropped with cleanup left.     *)
Occupies(r) ==
  \/ r.state \in Active
  \/ r.state = "recovery_required" /\ r.remaining # {}

-----------------------------------------------------------------------------
(* What a process sees, calls and writes.                                  *)

(* observe_process against the identity a row recorded: the same process,  *)
(* another one (a reused PID, or no identity to compare with), none, or an *)
(* answer the operating system refused.                                    *)
Sees(process, record) ==
  (IF process = "alive"
     THEN {IF record = "identified" THEN "same" ELSE "other"}
     ELSE {"gone"} \cup (IF "pid_reuse" \in env THEN {"other"} ELSE {}))
  \cup (IF "unobservable" \in env THEN {"unknown"} ELSE {})

(* process_identity of a process that was just created.                    *)
IdentityRead == {"identified"} \cup
  (IF "unobservable" \in env THEN {"unidentified"} ELSE {})

(* Seeded fault: "not ours any more" counts as a failed release.           *)
ReleaseOnExitZeroOnly(targeted, released) ==
  IF ~targeted
    THEN released = TRUE /\ UNCHANGED lease
    ELSE \/ released = TRUE /\ lease = "held" /\ lease' = "ended"
         \/ released = FALSE /\ lease # "held" /\ UNCHANGED lease

(* wf-claim release.  Exit code 0 gave the lease back, 5 says it is not    *)
(* ours any more; both count as released, anything else leaves it held.    *)
Release(targeted, released) ==
  IF ~targeted
    THEN released = TRUE /\ UNCHANGED lease
    ELSE \/ /\ released = TRUE
            /\ lease' = "ended"
         \/ /\ released = FALSE
            /\ "helper_failure" \in env
            /\ lease = "held"
            /\ UNCHANGED lease

(* The process moves on and keeps its copy of the row.                     *)
Go(p, next) == pc' = [pc EXCEPT ![p] = next] /\ UNCHANGED env

(* save_run: the caller's copy replaces the whole row.                     *)
Write(p, r, next) ==
  /\ row' = r
  /\ img' = [img EXCEPT ![p] = IF next \in {"idle", "gone", "watch"} THEN NoRow ELSE r]
  /\ Go(p, next)

(* The process stops working on the row without writing it.                *)
Leave(p, next) ==
  /\ Go(p, next)
  /\ img' = [img EXCEPT ![p] = NoRow]
  /\ UNCHANGED row

Read(p, next) ==
  /\ img' = [img EXCEPT ![p] = row]
  /\ Go(p, next)
  /\ UNCHANGED row

(* Where a process goes once it has reconciled the row.                    *)
Home(p) == IF p = Worker THEN "watch" ELSE "idle"

Failed(r, stage) == [r EXCEPT !.state = "failed", !.stage = stage]

Dropped(r, stage, left) ==
  [r EXCEPT !.state = "recovery_required", !.stage = stage, !.remaining = left]

(* Seeded fault: the failed start is final whatever the release answered.  *)
FailedRegardless(r, stage, released) == Failed([r EXCEPT !.remaining = {}], stage)

(* _fail after a release: what could not be released keeps the slot.       *)
FailedOrDropped(r, stage, released) ==
  IF released
    THEN Failed([r EXCEPT !.remaining = {}], stage)
    ELSE Dropped(r, stage, {"lease_release"})

-----------------------------------------------------------------------------
(* queue_and_launch_run: a control process persists the run, creates its   *)
(* worker, and waits for the worker to show itself.                        *)

(* Run ids are fresh: the row is queued once.                              *)
QueueOneRun(c) ==
  /\ pc[c] = "idle"
  /\ supervisor = "unborn"
  /\ row = NoRow
  /\ \A p \in Procs : img[p] = NoRow
  /\ Write(c, [NoRow EXCEPT !.state = "queued"], "popen")
  /\ UNCHANGED <<supervisor, provider, events, lease>>

WorkerNotLaunched(c) ==
  /\ pc[c] = "popen"
  /\ Write(c, Failed(img[c], "provider_start"), "idle")
  /\ supervisor' = "dead"
  /\ UNCHANGED <<provider, events, lease>>

LaunchRunWorker(c) ==
  /\ pc[c] = "popen"
  /\ supervisor' = "alive"
  /\ pc' = [pc EXCEPT ![c] = "attach", ![Worker] = "boot"]
  /\ UNCHANGED <<env, row, img, provider, events, lease>>

(* attach_supervisor is the one write that looks at the stored row first.  *)
AttachSupervisor(p, next) ==
  /\ \E identity \in IdentityRead :
       row' = IF row.state = "queued" THEN [row EXCEPT !.sup = identity] ELSE row
  /\ Go(p, next)
  /\ UNCHANGED <<img, supervisor, provider, events, lease>>

AttachLaunched(c) == pc[c] = "attach" /\ AttachSupervisor(c, "await")

(* The start wait ends when the worker got somewhere; rows that never      *)
(* became an execution are removed.                                        *)
WorkerShowedItself(c) ==
  /\ pc[c] = "await"
  /\ row # NoRow
  /\ row.state \notin {"queued", "reserved"} \/ row.target
  /\ IF row.state = "idle" THEN Go(c, "discard") /\ UNCHANGED img
                           ELSE Go(c, "idle") /\ img' = [img EXCEPT ![c] = NoRow]
  /\ UNCHANGED <<row, supervisor, provider, events, lease>>

DiscardRun(c) ==
  /\ pc[c] = "discard"
  /\ row' = NoRow
  /\ img' = [img EXCEPT ![c] = NoRow]
  /\ Go(c, "idle")
  /\ UNCHANGED <<supervisor, provider, events, lease>>

(* The worker is gone or the ten seconds are over: the caller reconciles   *)
(* the project's runs before it answers.                                   *)
StartWaitEnds(c) ==
  /\ pc[c] = "await"
  /\ IF row.state \in Active THEN Read(c, "owner") ELSE Leave(c, "idle")
  /\ UNCHANGED <<supervisor, provider, events, lease>>

-----------------------------------------------------------------------------
(* reconcile_project_runs and reconcile_run, for a control process.        *)

ReadActive(c) ==
  /\ pc[c] = "idle"
  /\ row.state \in Active
  /\ Read(c, "owner")
  /\ UNCHANGED <<supervisor, provider, events, lease>>

(* Seeded fault: a worker seen alive is not left alone.                    *)
CheckOwnerIgnored(c) ==
  /\ pc[c] = "owner"
  /\ Go(c, "worker")
  /\ UNCHANGED <<row, img, supervisor, provider, events, lease>>

(* _live_supervisor_owned_elsewhere.                                       *)
CheckOwner(c) ==
  /\ pc[c] = "owner"
  /\ IF img[c].sup # "identified"
       THEN Go(c, "judge") /\ UNCHANGED <<row, img>>
       ELSE \E seen \in Sees(supervisor, img[c].sup) :
              IF seen = "same" THEN Leave(c, "idle")
                               ELSE Go(c, "worker") /\ UNCHANGED <<row, img>>
  /\ UNCHANGED <<supervisor, provider, events, lease>>

(* A run whose supervision the reconciling processes carry on.             *)
TakenOver(r) == [r EXCEPT !.sup = "none"]

(* The second look at the worker, and what each answer leads to.           *)
CheckWorker(c) ==
  /\ pc[c] = "worker"
  /\ \E seen \in Sees(supervisor, img[c].sup) :
       \/ seen = "unknown" /\ Leave(c, "idle")
       \/ seen = "other" /\ Write(c, Dropped(img[c], "recovery", Steps), "idle")
       \/ /\ seen = "gone" /\ img[c].prov # "none"
          /\ Go(c, "process") /\ UNCHANGED <<row, img>>
       \/ /\ seen = "same" \/ (seen = "gone" /\ img[c].prov = "none")
          /\ Go(c, "judge") /\ UNCHANGED <<row, img>>
  /\ UNCHANGED <<supervisor, provider, events, lease>>

(* The worker is gone: a verified provider is taken over, one that cannot  *)
(* be verified is dropped with every cleanup step left.                    *)
CheckProcess(c) ==
  /\ pc[c] = "process"
  /\ \E seen \in Sees(provider, img[c].prov) :
       \/ seen = "same" /\ Write(c, TakenOver(img[c]), "judge")
       \/ seen = "gone" /\ Go(c, "judge") /\ UNCHANGED <<row, img>>
       \/ /\ seen \in {"unknown", "other"}
          /\ Write(c, Dropped(img[c], "recovery", Steps), "idle")
  /\ UNCHANGED <<supervisor, provider, events, lease>>

(* The rest of reconcile_run is shared with the worker's own loop.         *)
JudgeQueued(p) ==
  /\ pc[p] = "judge"
  /\ img[p].state = "queued"
  /\ Write(p, Failed(img[p], "provider_start"), Home(p))
  /\ UNCHANGED <<supervisor, provider, events, lease>>

JudgeUnstarted(p) ==
  /\ pc[p] = "judge"
  /\ img[p].state # "queued"
  /\ img[p].state = "reserved" \/ img[p].prov = "none"
  /\ \E released \in BOOLEAN :
       /\ Release(img[p].target, released)
       /\ Write(p, FailedOrDropped(img[p], "provider_start", released), Home(p))
  /\ UNCHANGED <<supervisor, provider, events>>

JudgesStarted(p) ==
  /\ pc[p] = "judge"
  /\ img[p].state = "running"
  /\ img[p].prov # "none"

(* recover_run's recovery_required outcomes name no remaining step.        *)
RecoverUnverified(p) ==
  /\ JudgesStarted(p)
  /\ \/ img[p].prov = "unidentified"
     \/ Sees(provider, img[p].prov) \cap {"unknown", "other"} # {}
  /\ Write(p, Dropped(img[p], "recovery", {}), Home(p))
  /\ UNCHANGED <<supervisor, provider, events, lease>>

Renewed(r, handedOver) == [r EXCEPT !.handedOver = @ \/ handedOver]

(* Seeded fault: any failed renewal is read as a lease handed back.        *)
ResumedOnAnyFailure(p) ==
  /\ JudgesStarted(p)
  /\ "same" \in Sees(provider, img[p].prov)
  /\ \E failed \in BOOLEAN :
       Write(p, Renewed(img[p], failed), Home(p))
  /\ UNCHANGED <<supervisor, provider, events, lease>>

(* wf-claim renew.  Only exit code 5 says the session gave the lease back. *)
RecoverResumed(p) ==
  /\ JudgesStarted(p)
  /\ "same" \in Sees(provider, img[p].prov)
  /\ Write(p, Renewed(img[p], lease # "held"), Home(p))
  /\ UNCHANGED <<supervisor, provider, events, lease>>

(* The state the last event of the run's file stands for.                  *)
TerminalByEvent == IF events = "completed" THEN "succeeded" ELSE "failed"

Finished(r) == [r EXCEPT !.state = TerminalByEvent, !.remaining = {}]

Exited(r) ==
  [Finished(r) EXCEPT !.stage = IF events = "completed" THEN "none" ELSE "role_session"]

RecoverExited(p) ==
  /\ JudgesStarted(p)
  /\ img[p].prov = "identified"
  /\ "gone" \in Sees(provider, img[p].prov)
  /\ \/ Release(img[p].target, TRUE) /\ Write(p, Exited(img[p]), Home(p))
     \/ /\ Release(img[p].target, FALSE)
        /\ Write(p, Dropped(img[p], "cleanup", {"lease_release"}), Home(p))
  /\ UNCHANGED <<supervisor, provider, events>>

-----------------------------------------------------------------------------
(* sweep_dropped_runs: give a dropped run its real fate.                   *)

ReadDropped(c) ==
  /\ pc[c] = "idle"
  /\ row.state = "recovery_required"
  /\ row.remaining # {}
  /\ Read(c, "sweepWorker")
  /\ UNCHANGED <<supervisor, provider, events, lease>>

RecoveryDrop(r) == r.stage = "recovery" /\ r.prov # "none"

Restored(r) == [r EXCEPT !.state = "running", !.remaining = {}, !.stage = "none"]

SweepWorker(c) ==
  /\ pc[c] = "sweepWorker"
  /\ IF img[c].sup # "identified"
       THEN Go(c, "sweepProcess") /\ UNCHANGED <<row, img>>
       ELSE \E seen \in Sees(supervisor, img[c].sup) :
              \/ seen = "gone" /\ Go(c, "sweepProcess") /\ UNCHANGED <<row, img>>
              \/ /\ seen = "same" /\ RecoveryDrop(img[c])
                 /\ Write(c, Restored(img[c]), "idle")
              \/ /\ seen \in {"unknown", "other"} \/ (seen = "same" /\ ~RecoveryDrop(img[c]))
                 /\ Leave(c, "idle")
  /\ UNCHANGED <<supervisor, provider, events, lease>>

(* The provider may still be there: hold the slot, or adopt the run.       *)
SweepLive(c) ==
  /\ pc[c] = "sweepProcess"
  /\ img[c].prov # "none"
  /\ \E seen \in Sees(provider, img[c].prov) :
       \/ /\ seen = "same" /\ RecoveryDrop(img[c])
          /\ Write(c, Restored(TakenOver(img[c])), "idle")
       \/ /\ \/ seen = "same" /\ ~RecoveryDrop(img[c])
             \/ seen = "unknown"
             \/ seen = "other" /\ img[c].prov = "unidentified"
          /\ Leave(c, "idle")
  /\ UNCHANGED <<supervisor, provider, events, lease>>

(* Seeded fault: a provider that cannot be observed is taken for gone.     *)
GoneUnlessSame(r) == r.prov = "none" \/ Sees(provider, r.prov) # {"same"}

(* A provider that is gone, or whose PID names another process now.        *)
ProvedGone(r) ==
  \/ r.prov = "none"
  \/ "gone" \in Sees(provider, r.prov)
  \/ r.prov = "identified" /\ "other" \in Sees(provider, r.prov)

(* Draining and closing the events always counts as done here.             *)
SweepCleanup(c) ==
  /\ pc[c] = "sweepProcess"
  /\ ProvedGone(img[c])
  /\ LET targeted == img[c].target /\ "lease_release" \in img[c].remaining
     IN  \/ Release(targeted, TRUE) /\ Write(c, Finished(img[c]), "idle")
         \/ /\ Release(targeted, FALSE)
            /\ Write(c, [img[c] EXCEPT !.remaining = {"lease_release"}], "idle")
  /\ UNCHANGED <<supervisor, provider, events>>

-----------------------------------------------------------------------------
(* run.cancel: apply_cancel on whatever the row says now.                  *)

ReadForCancel(c) ==
  /\ "cancel" \in env
  /\ pc[c] = "idle"
  /\ row # NoRow
  /\ Read(c, "stop")
  /\ UNCHANGED <<supervisor, provider, events, lease>>

Stopped(c, stopped) ==
  /\ img' = [img EXCEPT ![c].remaining = IF stopped THEN {} ELSE {"process_termination"}]
  /\ Go(c, "giveBack")

(* terminate_run_tree: only the very process the row names is terminated.  *)
TerminateRunTree(c) ==
  /\ pc[c] = "stop"
  /\ \/ /\ img[c].prov = "none" \/ "gone" \in Sees(provider, img[c].prov)
        /\ Stopped(c, TRUE)
        /\ UNCHANGED provider
     \/ /\ img[c].prov # "none"
        /\ Sees(provider, img[c].prov) \cap {"unknown", "other"} # {}
        /\ Stopped(c, FALSE)
        /\ UNCHANGED provider
     \/ /\ img[c].prov # "none"
        /\ "same" \in Sees(provider, img[c].prov)
        /\ \/ Stopped(c, TRUE) /\ provider' = "dead"
           \/ "kill_failure" \in env /\ Stopped(c, FALSE) /\ UNCHANGED provider
  /\ UNCHANGED <<row, supervisor, events, lease>>

ApplyCancel(c) ==
  /\ pc[c] = "giveBack"
  /\ \/ /\ Release(img[c].target, TRUE)
        /\ img[c].remaining = {}
        /\ Write(c, [img[c] EXCEPT !.state = "cancelled", !.stage = "none"], "idle")
     \/ /\ Release(img[c].target, TRUE)
        /\ img[c].remaining # {}
        /\ Write(c, Dropped(img[c], "cleanup", img[c].remaining), "idle")
     \/ /\ Release(img[c].target, FALSE)
        /\ Write(c, Dropped(img[c], "cleanup", img[c].remaining \cup {"lease_release"}),
                 "idle")
  /\ UNCHANGED <<supervisor, provider, events>>

(* prune_history keeps only rows in an active state.  Retention is counted *)
(* in days and every handler in seconds, so no handler spans it.           *)
PruneHistory(c) ==
  /\ "prune" \in env
  /\ \A p \in Procs : pc[p] \in {"idle", "unborn", "gone"}
  /\ row # NoRow
  /\ row.state \notin Active
  /\ row' = NoRow
  /\ UNCHANGED <<env, img, pc, supervisor, provider, events, lease>>

ClientCrash(c) ==
  /\ "client_crash" \in env
  /\ pc[c] # "idle"
  /\ Leave(c, "idle")
  /\ supervisor' = IF pc[c] = "popen" THEN "dead" ELSE supervisor
  /\ UNCHANGED <<provider, events, lease>>

-----------------------------------------------------------------------------
(* serve_queued_run: the detached worker.                                  *)

WorkerExits == Leave(Worker, "gone") /\ supervisor' = "dead"

WorkerBoot ==
  /\ pc[Worker] = "boot"
  /\ IF row.state = "queued"
       THEN Go(Worker, "join") /\ UNCHANGED <<row, img, supervisor>>
       ELSE WorkerExits
  /\ UNCHANGED <<provider, events, lease>>

WorkerJoin == pc[Worker] = "join" /\ AttachSupervisor(Worker, "load")

(* The row is read again, but its state is not looked at again.            *)
WorkerLoad ==
  /\ pc[Worker] = "load"
  /\ IF row = NoRow THEN WorkerExits
                    ELSE Read(Worker, "preflight") /\ UNCHANGED supervisor
  /\ UNCHANGED <<provider, events, lease>>

(* Every early end of the start: the worker writes its verdict and exits.  *)
WorkerGivesUp(verdict) ==
  /\ Write(Worker, verdict, "gone")
  /\ supervisor' = "dead"

(* Seeded fault: the outcome of the start is stored where a state belongs. *)
NotStartedOutcome(r) == [r EXCEPT !.state = "not_started", !.stage = "none"]

NotStarted(r) == [r EXCEPT !.state = "idle", !.stage = "none"]

(* Configuration, consent and eligibility; then the row becomes reserved.  *)
WorkerPreflight ==
  /\ pc[Worker] = "preflight"
  /\ \/ WorkerGivesUp(Failed(img[Worker], "request_validation"))
     \/ WorkerGivesUp(NotStarted(img[Worker]))
     \/ /\ Write(Worker, [img[Worker] EXCEPT !.state = "reserved"], "reserve")
        /\ UNCHANGED supervisor
  /\ UNCHANGED <<provider, events, lease>>

(* The reservation helper picks a target of its own.  One the operator did *)
(* not ask for is given back, and nobody looks at how that went.           *)
WorkerReserve ==
  /\ pc[Worker] = "reserve"
  /\ \/ /\ lease' = "held"
        /\ Go(Worker, "hold")
        /\ UNCHANGED <<row, img, supervisor>>
     \/ /\ \/ WorkerGivesUp(NotStarted(img[Worker]))
           \/ WorkerGivesUp(Failed(img[Worker], "reservation"))
        /\ UNCHANGED lease
     \/ /\ WorkerGivesUp(Failed(img[Worker], "reservation"))
        /\ lease' \in {"ended"} \cup (IF "helper_failure" \in env THEN {"held"} ELSE {})
  /\ UNCHANGED <<provider, events>>

WorkerHold ==
  /\ pc[Worker] = "hold"
  /\ Write(Worker, [img[Worker] EXCEPT !.target = TRUE], "confirm")
  /\ UNCHANGED <<supervisor, provider, events, lease>>

(* The target must be readable back before a provider is started for it.   *)
WorkerConfirm ==
  /\ pc[Worker] = "confirm"
  /\ IF row.target
       THEN Go(Worker, "start") /\ UNCHANGED <<row, img, supervisor, lease>>
       ELSE \E released \in BOOLEAN :
              /\ Release(TRUE, released)
              /\ WorkerGivesUp(Failed(img[Worker], "reservation"))
  /\ UNCHANGED <<provider, events>>

WorkerStart ==
  /\ pc[Worker] = "start"
  /\ \/ /\ provider' = "alive"
        /\ \E identity \in IdentityRead :
             img' = [img EXCEPT ![Worker].state = "running",
                                ![Worker].prov = identity]
        /\ Go(Worker, "publish")
        /\ UNCHANGED <<row, supervisor, lease>>
     \/ /\ \E released \in BOOLEAN :
             /\ Release(TRUE, released)
             /\ WorkerGivesUp(FailedOrDropped(img[Worker], "provider_start", released))
        /\ UNCHANGED provider
  /\ UNCHANGED events

WorkerPublish ==
  /\ pc[Worker] = "publish"
  /\ Write(Worker, img[Worker], "watch")
  /\ UNCHANGED <<supervisor, provider, events, lease>>

(* The polling loop: leave when the row is no longer active.               *)
WorkerWatch ==
  /\ pc[Worker] = "watch"
  /\ IF row.state \in Active
       THEN Read(Worker, "judge") /\ UNCHANGED supervisor
       ELSE WorkerExits
  /\ UNCHANGED <<provider, events, lease>>

WorkerCrash ==
  /\ "worker_crash" \in env
  /\ supervisor = "alive"
  /\ WorkerExits
  /\ UNCHANGED <<provider, events, lease>>

-----------------------------------------------------------------------------
(* The provider, the supervising thread inside the worker, and the lease.  *)

ProviderExit ==
  /\ provider = "alive"
  /\ provider' = "dead"
  /\ UNCHANGED <<env, row, img, pc, supervisor, events, lease>>

(* The thread appends the outcome, from a result line of the process or    *)
(* from its exit code; a bad exit code comes after a good result line.     *)
(* Only a living worker has the thread.                                    *)
RecordOutcome ==
  /\ provider # "unborn"
  /\ supervisor = "alive"
  /\ \/ events = "open" /\ events' \in {"completed", "failed"}
     \/ events = "completed" /\ events' = "failed"
  /\ UNCHANGED <<env, row, img, pc, supervisor, provider, lease>>

(* The role session releases the lease it was handed, or it expires.       *)
LeaseEnds ==
  /\ lease = "held"
  /\ lease' = "ended"
  /\ UNCHANGED <<env, row, img, pc, supervisor, provider, events>>

-----------------------------------------------------------------------------
Init ==
  /\ env \in Envs
  /\ row = NoRow
  /\ img = [p \in Procs |-> NoRow]
  /\ pc = [p \in Procs |-> IF p = Worker THEN "unborn" ELSE "idle"]
  /\ supervisor = "unborn"
  /\ provider = "unborn"
  /\ events = "open"
  /\ lease = "none"

Launch(c) ==
  \/ QueueOneRun(c) \/ WorkerNotLaunched(c) \/ LaunchRunWorker(c)
  \/ AttachLaunched(c) \/ WorkerShowedItself(c) \/ DiscardRun(c) \/ StartWaitEnds(c)

Judge(p) ==
  \/ JudgeQueued(p) \/ JudgeUnstarted(p)
  \/ RecoverUnverified(p) \/ RecoverResumed(p) \/ RecoverExited(p)

Reconcile(c) ==
  \/ ReadActive(c) \/ CheckOwner(c) \/ CheckWorker(c) \/ CheckProcess(c) \/ Judge(c)

Sweep(c) == ReadDropped(c) \/ SweepWorker(c) \/ SweepLive(c) \/ SweepCleanup(c)

Cancel(c) == ReadForCancel(c) \/ TerminateRunTree(c) \/ ApplyCancel(c)

Serve ==
  \/ WorkerBoot \/ WorkerJoin \/ WorkerLoad \/ WorkerPreflight \/ WorkerReserve
  \/ WorkerHold \/ WorkerConfirm \/ WorkerStart \/ WorkerPublish \/ WorkerWatch
  \/ Judge(Worker)

Environment == ProviderExit \/ RecordOutcome \/ LeaseEnds \/ WorkerCrash

Next ==
  \/ \E c \in Clients : Launch(c) \/ Reconcile(c) \/ Sweep(c) \/ Cancel(c)
                        \/ PruneHistory(c) \/ ClientCrash(c)
  \/ Serve
  \/ Environment

Spec == Init /\ [][Next]_vars

(***************************************************************************)
(* The dispatcher d ticks for ever: it reconciles and sweeps every cycle   *)
(* and finishes what it began.  The lease helper fails only so often, and  *)
(* a process that took over a worker's PID ends some day.                  *)
(***************************************************************************)
Fairness(d) ==
  /\ SF_vars(ReadActive(d))
  /\ SF_vars(ReadDropped(d))
  /\ WF_vars(pc[d] # "idle" /\ (Launch(d) \/ Reconcile(d) \/ Sweep(d) \/ Cancel(d)))
  /\ SF_vars(SweepWorker(d) /\ pc'[d] = "sweepProcess")
  /\ SF_vars(SweepCleanup(d) /\ row'.state \in Ended)

-----------------------------------------------------------------------------
(* Safety.                                                                 *)

(* An ended row that names a provider is proof that the provider is dead:  *)
(* no handler, acting on however old a copy of the row, may give a run its *)
(* final state (recover_run, sweep_dropped_runs, apply_cancel, _fail)      *)
(* while the process the row points at still works on the target.          *)
EndedRunIsDead ==
  row.state \in Ended /\ row.prov # "none" => provider = "dead"

(* An ended row has given its lease back: every path to a final state      *)
(* first saw wf-claim release answer 0 or 5, or kept lease_release as a    *)
(* remaining step.  Only a start that failed while it reserved (stage      *)
(* reservation) ends without looking at how the release went.              *)
EndedRunReturnedLease ==
  row.state \in Ended /\ row.target /\ row.stage # "reservation" => lease # "held"

(* leaseHandedOver is written only for a lease that is no longer this      *)
(* run's, whichever copy of the row it is written with.                    *)
HandedOverLeaseIsGone == row.handedOver => lease # "held"

Observable == "unobservable" \notin env

(* While every process can be observed, a provider the row names keeps its *)
(* slot for as long as it lives: neither a recovery, a sweep nor a cancel  *)
(* may make the row count as free under a live provider.                   *)
NamedProviderKeepsSlot ==
  Observable /\ row.prov # "none" /\ provider = "alive" => Occupies(row)

(* While every process can be observed, only the worker itself judges the  *)
(* events and the lease of a run whose living worker the row identified.   *)
NoForeignJudgement ==
  \A c \in Clients :
    Observable /\ pc[c] = "judge" /\ img[c].sup = "identified" => supervisor # "alive"

(* Once the worker and the provider are gone, the dispatcher's ticks bring *)
(* the run to a state that frees its slot, whatever mix of reconciliation  *)
(* and sweep the crashes and failed releases left for them.                *)
SlotEventuallyFreed ==
  (supervisor = "dead" /\ provider # "alive" /\ Occupies(row)) ~> ~Occupies(row)

-----------------------------------------------------------------------------
(* The inductive invariant behind the first three.                         *)

PreReserve == {"unborn", "boot", "join", "load", "preflight", "reserve"}
PreStart   == PreReserve \cup {"hold", "confirm", "start"}

(* The stored row and the copies handlers work on: each may be written.    *)
Copies == {row} \cup {img[p] : p \in Procs}

(* A copy names a provider only once there is one, and calls the run ended *)
(* only when that provider is dead.                                        *)
Sound(r, process) ==
  r.prov # "none" => /\ r.state \in {"running", "recovery_required"} \cup Ended
                     /\ process # "unborn"
                     /\ r.state \in Ended => process = "dead"

(* A cancel that no longer lists process_termination stopped the provider. *)
StopSound(r, process) ==
  r.prov # "none" /\ "process_termination" \notin r.remaining => process = "dead"

(* A worker is created once, by the one process that queued the run, and   *)
(* has no provider before it starts one.                                   *)
LaunchOnce ==
  /\ pc[Worker] \in PreStart => provider = "unborn"
  /\ supervisor = "unborn" => pc[Worker] = "unborn"
  /\ \A c \in Clients : pc[c] = "popen" =>
       /\ img[c].state = "queued"
       /\ supervisor = "unborn"
       /\ \A d \in Clients \ {c} : pc[d] # "popen"

ProcessInv ==
  /\ LaunchOnce
  /\ \A r \in Copies : Sound(r, provider)
  /\ \A c \in Clients : pc[c] = "giveBack" => StopSound(img[c], provider)

(* What a copy may say of a lease that is still held.                      *)
Returned(r, given) ==
  /\ r.state = "queued" => ~r.target
  /\ given = "held" =>
       /\ ~r.handedOver
       /\ r.target => r.state \notin Ended \/ r.stage = "reservation"

(* A dropped run without a lease_release step gave its lease back before.  *)
DropSound(r, given) ==
  /\ r.state = "recovery_required"
  /\ r.remaining # {}
  /\ r.target
  /\ "lease_release" \notin r.remaining
  => given # "held"

Unreserved(r) == ~r.target /\ ~r.handedOver

ReservedOnce ==
  pc[Worker] \in PreReserve => lease = "none" /\ \A r \in Copies : Unreserved(r)

(* The state of the copy a process holds at each of its steps.             *)
WorkerInHand ==
  /\ pc[Worker] \in {"reserve", "hold", "confirm", "start"} =>
       img[Worker].state = "reserved"
  /\ pc[Worker] = "publish" => img[Worker].state = "running"

ClientInHand(c) ==
  /\ pc[c] \in {"owner", "worker", "process"} => img[c].state \in Active
  /\ pc[c] \in {"sweepWorker", "sweepProcess"} =>
       /\ img[c].state = "recovery_required"
       /\ img[c].remaining # {}
       /\ DropSound(img[c], lease)

LeaseInv ==
  /\ ReservedOnce
  /\ \A r \in Copies : Returned(r, lease)
  /\ DropSound(row, lease)
  /\ WorkerInHand
  /\ \A c \in Clients : ClientInHand(c)

(* IInv relates every copy of the row, not only the stored one, to the     *)
(* provider and the lease: a handler may write its copy back at any time.  *)
IInv == TypeOK /\ ProcessInv /\ LeaseInv

(* What a copy says of the two processes when every process can always be  *)
(* observed: a PID is stored with its identity, a run dropped under a live *)
(* provider keeps a step, and no worker is recorded before there is one.   *)
Observed(r, process, worker) ==
  /\ r.prov # "none" => r.prov = "identified"
  /\ r.prov # "none" /\ process = "alive" /\ r.state = "recovery_required"
       => r.remaining # {}
  /\ r.sup # "none" => worker # "unborn"

(* A control process that goes past a recorded worker has seen it gone.    *)
OwnersGone ==
  \A c \in Clients :
    /\ pc[c] = "attach" => supervisor # "unborn"
    /\ pc[c] \in {"worker", "process", "judge"} /\ img[c].sup = "identified"
         => supervisor = "dead"

(* What is inductive, in addition, while every process can be observed.    *)
ObservedInv ==
  /\ IInv
  /\ \A r \in Copies : Observed(r, provider, supervisor)
  /\ OwnersGone

-----------------------------------------------------------------------------
(* What the code's own documents say and the code does not do.             *)

(* _occupying_runs: "Only a finished cleanup - an empty remaining - proves *)
(* the slot is truly free".                                                *)
EmptyRemainingProvesFree ==
  row.state = "recovery_required" /\ row.remaining = {} => provider # "alive"

(* The module's own first lines: a tick or a state read "only recovers     *)
(* legacy runs and workers that actually disappeared".                     *)
NeverReapsALiveWorker ==
  [][row.state = "queued" /\ row'.state = "failed" /\ row'.stage = "provider_start"
       => supervisor # "alive"]_vars

(* sweep_dropped_runs: "a cancelled run is meant to be dead and must never *)
(* be resurrected".                                                        *)
CancelledStaysCancelled ==
  [][row.state = "cancelled" => row'.state \notin Active]_vars

(* The runtime contract: a slot is not given away while the remaining      *)
(* steps are not empty, "since the process of a run the ledger dropped may *)
(* still be alive and working".  prune_history is for terminal history.    *)
LiveRunIsNeverPruned ==
  [][Occupies(row) /\ provider = "alive" => row' # NoRow]_vars

=============================================================================
