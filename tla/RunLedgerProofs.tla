-------------------------- MODULE RunLedgerProofs --------------------------
(***************************************************************************)
(* What holds of every run, for any number of control processes and        *)
(* whatever the environment may do: RunLedger's type invariant, that an    *)
(* ended run's provider is dead, and that it gave its lease back.  And,    *)
(* while every process can be observed, a live provider that the row       *)
(* names keeps its slot, and only the worker judges a run it supervises.   *)
(***************************************************************************)
EXTENDS RunLedger, TLAPS

-----------------------------------------------------------------------------
(* Typing of the rows that the handlers build.                             *)

LEMMA NoRowTyped == NoRow \in Row
  BY DEF NoRow, Row, State, Record, Stage

LEMMA QueuedTyped == [NoRow EXCEPT !.state = "queued"] \in Row
  BY NoRowTyped DEF Row, State, Active

LEMMA FailedTyped == \A r \in Row, s \in Stage : Failed(r, s) \in Row
  BY DEF Failed, Row, State, Ended

LEMMA DroppedTyped ==
  \A r \in Row, s \in Stage, left \in SUBSET Steps : Dropped(r, s, left) \in Row
  BY DEF Dropped, Row, State

LEMMA RemainingTyped ==
  \A r \in Row, left \in SUBSET Steps : [r EXCEPT !.remaining = left] \in Row
  BY DEF Row

LEMMA FailedOrDroppedTyped ==
  \A r \in Row, s \in Stage, b \in BOOLEAN : FailedOrDropped(r, s, b) \in Row
<1> TAKE r \in Row, s \in Stage, b \in BOOLEAN
<1>1. {} \in SUBSET Steps /\ {"lease_release"} \in SUBSET Steps
  BY DEF Steps
<1>2. Failed([r EXCEPT !.remaining = {}], s) \in Row
  BY <1>1, RemainingTyped, FailedTyped
<1>3. Dropped(r, s, {"lease_release"}) \in Row
  BY <1>1, DroppedTyped
<1> QED BY <1>2, <1>3 DEF FailedOrDropped

LEMMA TakenOverTyped == \A r \in Row : TakenOver(r) \in Row
  BY DEF TakenOver, Row, Record

LEMMA RestoredTyped == \A r \in Row : Restored(r) \in Row
  BY DEF Restored, Row, State, Active, Stage

LEMMA NotStartedTyped == \A r \in Row : NotStarted(r) \in Row
  BY DEF NotStarted, Row, State, Stage

LEMMA RenewedTyped == \A r \in Row, b \in BOOLEAN : Renewed(r, b) \in Row
  BY DEF Renewed, Row

LEMMA FinishedTyped == \A r \in Row : Finished(r) \in Row
  BY DEF Finished, TerminalByEvent, Row, State, Ended

LEMMA ExitedTyped == \A r \in Row : Exited(r) \in Row
  BY FinishedTyped DEF Exited, Row, Stage

LEMMA CancelledTyped ==
  \A r \in Row : [r EXCEPT !.state = "cancelled", !.stage = "none"] \in Row
  BY DEF Row, State, Ended, Stage

LEMMA ReservedTyped == \A r \in Row : [r EXCEPT !.state = "reserved"] \in Row
  BY DEF Row, State, Active

LEMMA TargetTyped == \A r \in Row : [r EXCEPT !.target = TRUE] \in Row
  BY DEF Row

-----------------------------------------------------------------------------
(* Typing of the ways a process writes, reads, leaves and moves on.        *)

RowsTyped == row \in Row /\ img \in [Procs -> Row]

PcTyped ==
  /\ pc \in [Procs -> ClientPc \cup WorkerPc]
  /\ \A c \in Clients : pc[c] \in ClientPc
  /\ pc[Worker] \in WorkerPc

OthersTyped ==
  /\ supervisor \in OsState
  /\ provider \in OsState
  /\ events \in {"open", "completed", "failed"}
  /\ lease \in {"none", "held", "ended"}

LEMMA TypeParts == TypeOK <=> env \in Envs /\ RowsTyped /\ PcTyped /\ OthersTyped
  BY DEF TypeOK, RowsTyped, PcTyped, OthersTyped

LEMMA CopyTyped == ASSUME RowsTyped, NEW p \in Procs PROVE img[p] \in Row
  BY DEF RowsTyped

LEMMA WriteTyped ==
  ASSUME RowsTyped, NEW p \in Procs, NEW r \in Row, NEW next, Write(p, r, next)
  PROVE  RowsTyped' /\ Go(p, next)
  BY NoRowTyped DEF RowsTyped, Write

LEMMA LeaveTyped ==
  ASSUME RowsTyped, NEW p \in Procs, NEW next, Leave(p, next)
  PROVE  RowsTyped' /\ Go(p, next)
  BY NoRowTyped DEF RowsTyped, Leave

LEMMA ReadTyped ==
  ASSUME RowsTyped, NEW p \in Procs, NEW next, Read(p, next)
  PROVE  RowsTyped' /\ Go(p, next)
  BY DEF RowsTyped, Read

LEMMA KeepTyped == ASSUME RowsTyped, UNCHANGED <<row, img>> PROVE RowsTyped'
  BY DEF RowsTyped

LEMMA ClientGoTyped ==
  ASSUME PcTyped, NEW c \in Clients, NEW next \in ClientPc, Go(c, next)
  PROVE  PcTyped'
  BY WorkerIsNoClient DEF PcTyped, Go, Procs

LEMMA WorkerGoTyped ==
  ASSUME PcTyped, NEW next \in WorkerPc, Go(Worker, next)
  PROVE  PcTyped'
  BY WorkerIsNoClient DEF PcTyped, Go, Procs

LEMMA AttachTyped ==
  ASSUME RowsTyped, NEW p \in Procs, NEW next, AttachSupervisor(p, next)
  PROVE  RowsTyped' /\ Go(p, next)
<1>1. \A i \in Record : [row EXCEPT !.sup = i] \in Row
  BY DEF RowsTyped, Row
<1>2. IdentityRead \subseteq Record
  BY DEF IdentityRead, Record
<1>3. row' \in Row
  BY <1>1, <1>2 DEF AttachSupervisor, RowsTyped
<1> QED BY <1>3 DEF AttachSupervisor, RowsTyped

LEMMA GivesUpTyped ==
  ASSUME RowsTyped, PcTyped, NEW r \in Row, WorkerGivesUp(r)
  PROVE  RowsTyped' /\ PcTyped'
<1>1. Worker \in Procs /\ "gone" \in WorkerPc
  BY DEF Procs, WorkerPc
<1> QED BY <1>1, WriteTyped, WorkerGoTyped DEF WorkerGivesUp

LEMMA ExitsTyped ==
  ASSUME RowsTyped, PcTyped, WorkerExits
  PROVE  RowsTyped' /\ PcTyped'
<1>1. Worker \in Procs /\ "gone" \in WorkerPc
  BY DEF Procs, WorkerPc
<1> QED BY <1>1, LeaveTyped, WorkerGoTyped DEF WorkerExits

-----------------------------------------------------------------------------
(* One lemma for each group of actions: its rows and its program counters. *)

LEMMA LaunchTyped ==
  ASSUME RowsTyped, PcTyped, NEW c \in Clients, Launch(c)
  PROVE  RowsTyped' /\ PcTyped'
<1>c. c \in Procs /\ Worker \in Procs /\ c # Worker /\ img[c] \in Row
  BY WorkerIsNoClient, CopyTyped DEF Procs
<1>1. CASE QueueOneRun(c)
  BY <1>1, <1>c, QueuedTyped, WriteTyped, ClientGoTyped DEF QueueOneRun, ClientPc
<1>2. CASE WorkerNotLaunched(c)
  BY <1>2, <1>c, FailedTyped, WriteTyped, ClientGoTyped
  DEF WorkerNotLaunched, ClientPc, Stage
<1>3. CASE LaunchRunWorker(c)
  <2>1. RowsTyped' BY <1>3, KeepTyped DEF LaunchRunWorker
  <2>2. pc' = [[pc EXCEPT ![c] = "attach"] EXCEPT ![Worker] = "boot"]
    BY <1>3 DEF LaunchRunWorker
  <2>3. "attach" \in ClientPc /\ "boot" \in WorkerPc
    BY DEF ClientPc, WorkerPc
  <2>4. pc' \in [Procs -> ClientPc \cup WorkerPc]
    BY <2>2, <2>3, <1>c DEF PcTyped
  <2>5. pc'[Worker] = "boot" /\ \A d \in Clients : pc'[d] \in {"attach", pc[d]}
    BY <2>2, <1>c, WorkerIsNoClient DEF PcTyped, Procs
  <2> QED BY <2>1, <2>3, <2>4, <2>5 DEF PcTyped
<1>4. CASE AttachLaunched(c)
  BY <1>4, <1>c, AttachTyped, ClientGoTyped DEF AttachLaunched, ClientPc
<1>5. CASE WorkerShowedItself(c)
  <2>1. RowsTyped' BY <1>5, NoRowTyped DEF WorkerShowedItself, RowsTyped
  <2> QED BY <1>5, <2>1, ClientGoTyped DEF WorkerShowedItself, ClientPc
<1>6. CASE DiscardRun(c)
  <2>1. RowsTyped' BY <1>6, NoRowTyped DEF DiscardRun, RowsTyped
  <2> QED BY <1>6, <2>1, ClientGoTyped DEF DiscardRun, ClientPc
<1>7. CASE StartWaitEnds(c)
  BY <1>7, <1>c, ReadTyped, LeaveTyped, ClientGoTyped DEF StartWaitEnds, ClientPc
<1> QED BY <1>1, <1>2, <1>3, <1>4, <1>5, <1>6, <1>7 DEF Launch

(* Judging is shared by the control processes and the worker.              *)
LEMMA JudgeTyped ==
  ASSUME RowsTyped, PcTyped, NEW p \in Procs, Judge(p)
  PROVE  RowsTyped' /\ PcTyped'
<1>p. img[p] \in Row
  BY CopyTyped
<1>s. /\ {} \in SUBSET Steps /\ {"lease_release"} \in SUBSET Steps
      /\ "provider_start" \in Stage /\ "recovery" \in Stage /\ "cleanup" \in Stage
  BY DEF Steps, Stage
<1>g. ASSUME NEW r \in Row, Write(p, r, Home(p))
      PROVE  RowsTyped' /\ PcTyped'
  <2>1. RowsTyped' /\ Go(p, Home(p)) BY <1>g, WriteTyped
  <2>2. CASE p = Worker
    BY <2>1, <2>2, WorkerGoTyped DEF Home, WorkerPc
  <2>3. CASE p # Worker
    BY <2>1, <2>3, ClientGoTyped DEF Home, ClientPc, Procs
  <2> QED BY <2>2, <2>3
<1>1. CASE JudgeQueued(p)
  BY <1>1, <1>p, <1>s, <1>g, FailedTyped DEF JudgeQueued
<1>2. CASE JudgeUnstarted(p)
  BY <1>2, <1>p, <1>s, <1>g, FailedOrDroppedTyped DEF JudgeUnstarted
<1>3. CASE RecoverUnverified(p)
  BY <1>3, <1>p, <1>s, <1>g, DroppedTyped DEF RecoverUnverified
<1>4. CASE RecoverResumed(p)
  BY <1>4, <1>p, <1>g, RenewedTyped DEF RecoverResumed
<1>5. CASE RecoverExited(p)
  BY <1>5, <1>p, <1>s, <1>g, ExitedTyped, DroppedTyped DEF RecoverExited
<1> QED BY <1>1, <1>2, <1>3, <1>4, <1>5 DEF Judge

LEMMA ReconcileTyped ==
  ASSUME RowsTyped, PcTyped, NEW c \in Clients, Reconcile(c)
  PROVE  RowsTyped' /\ PcTyped'
<1>c. c \in Procs /\ img[c] \in Row
  BY CopyTyped DEF Procs
<1>d. Dropped(img[c], "recovery", Steps) \in Row
  BY <1>c, DroppedTyped DEF Stage
<1>1. CASE ReadActive(c)
  BY <1>1, <1>c, ReadTyped, ClientGoTyped DEF ReadActive, ClientPc
<1>2. CASE CheckOwner(c)
  BY <1>2, <1>c, LeaveTyped, KeepTyped, ClientGoTyped DEF CheckOwner, ClientPc
<1>3. CASE CheckWorker(c)
  BY <1>3, <1>c, <1>d, LeaveTyped, WriteTyped, KeepTyped, ClientGoTyped
  DEF CheckWorker, ClientPc
<1>4. CASE CheckProcess(c)
  BY <1>4, <1>c, <1>d, TakenOverTyped, WriteTyped, KeepTyped, ClientGoTyped
  DEF CheckProcess, ClientPc
<1>5. CASE Judge(c)
  BY <1>5, <1>c, JudgeTyped
<1> QED BY <1>1, <1>2, <1>3, <1>4, <1>5 DEF Reconcile

LEMMA SweepTyped ==
  ASSUME RowsTyped, PcTyped, NEW c \in Clients, Sweep(c)
  PROVE  RowsTyped' /\ PcTyped'
<1>c. c \in Procs /\ img[c] \in Row
  BY CopyTyped DEF Procs
<1>1. CASE ReadDropped(c)
  BY <1>1, <1>c, ReadTyped, ClientGoTyped DEF ReadDropped, ClientPc
<1>2. CASE SweepWorker(c)
  BY <1>2, <1>c, RestoredTyped, LeaveTyped, WriteTyped, KeepTyped, ClientGoTyped
  DEF SweepWorker, ClientPc
<1>3. CASE SweepLive(c)
  BY <1>3, <1>c, RestoredTyped, TakenOverTyped, LeaveTyped, WriteTyped, ClientGoTyped
  DEF SweepLive, ClientPc
<1>4. CASE SweepCleanup(c)
  <2>1. [img[c] EXCEPT !.remaining = {"lease_release"}] \in Row
    BY <1>c, RemainingTyped DEF Steps
  <2> QED BY <1>4, <1>c, <2>1, FinishedTyped, WriteTyped, ClientGoTyped
          DEF SweepCleanup, ClientPc
<1> QED BY <1>1, <1>2, <1>3, <1>4 DEF Sweep

LEMMA CancelTyped ==
  ASSUME RowsTyped, PcTyped, NEW c \in Clients, Cancel(c)
  PROVE  RowsTyped' /\ PcTyped'
<1>c. c \in Procs /\ img[c] \in Row
  BY CopyTyped DEF Procs
<1>1. CASE ReadForCancel(c)
  BY <1>1, <1>c, ReadTyped, ClientGoTyped DEF ReadForCancel, ClientPc
<1>2. CASE TerminateRunTree(c)
  <2>1. PICK stopped \in BOOLEAN : Stopped(c, stopped)
    BY <1>2 DEF TerminateRunTree
  <2>2. row' = row /\ Go(c, "giveBack")
    BY <1>2, <2>1 DEF TerminateRunTree, Stopped
  <2>3. img' \in [Procs -> Row]
    BY <2>1 DEF Stopped, RowsTyped, Row, Steps
  <2> QED BY <2>2, <2>3, ClientGoTyped DEF RowsTyped, ClientPc
<1>3. CASE ApplyCancel(c)
  <2>1. img[c].remaining \in SUBSET Steps
    BY <1>c DEF Row
  <2>2. \A left \in SUBSET Steps : Dropped(img[c], "cleanup", left) \in Row
    BY <1>c, DroppedTyped DEF Stage
  <2>3. img[c].remaining \cup {"lease_release"} \in SUBSET Steps
    BY <2>1 DEF Steps
  <2> QED BY <1>3, <1>c, <2>1, <2>2, <2>3, CancelledTyped, WriteTyped, ClientGoTyped
          DEF ApplyCancel, ClientPc
<1> QED BY <1>1, <1>2, <1>3 DEF Cancel

LEMMA HousekeepingTyped ==
  ASSUME RowsTyped, PcTyped, NEW c \in Clients, PruneHistory(c) \/ ClientCrash(c)
  PROVE  RowsTyped' /\ PcTyped'
<1>c. c \in Procs
  BY DEF Procs
<1>1. CASE PruneHistory(c)
  BY <1>1, NoRowTyped DEF PruneHistory, RowsTyped, PcTyped
<1>2. CASE ClientCrash(c)
  BY <1>2, <1>c, LeaveTyped, ClientGoTyped DEF ClientCrash, ClientPc
<1> QED BY <1>1, <1>2

LEMMA ServeTyped ==
  ASSUME RowsTyped, PcTyped, Serve
  PROVE  RowsTyped' /\ PcTyped'
<1>w. Worker \in Procs /\ img[Worker] \in Row
  BY CopyTyped DEF Procs
<1>s. "request_validation" \in Stage /\ "reservation" \in Stage /\ "provider_start" \in Stage
  BY DEF Stage
<1>1. CASE WorkerBoot
  BY <1>1, KeepTyped, ExitsTyped, WorkerGoTyped DEF WorkerBoot, WorkerPc
<1>2. CASE WorkerJoin
  BY <1>2, <1>w, AttachTyped, WorkerGoTyped DEF WorkerJoin, WorkerPc
<1>3. CASE WorkerLoad
  BY <1>3, <1>w, ExitsTyped, ReadTyped, WorkerGoTyped DEF WorkerLoad, WorkerPc
<1>4. CASE WorkerPreflight
  BY <1>4, <1>w, <1>s, FailedTyped, NotStartedTyped, ReservedTyped, GivesUpTyped,
     WriteTyped, WorkerGoTyped
  DEF WorkerPreflight, WorkerPc
<1>5. CASE WorkerReserve
  BY <1>5, <1>w, <1>s, FailedTyped, NotStartedTyped, GivesUpTyped, KeepTyped, WorkerGoTyped
  DEF WorkerReserve, WorkerPc
<1>6. CASE WorkerHold
  BY <1>6, <1>w, TargetTyped, WriteTyped, WorkerGoTyped DEF WorkerHold, WorkerPc
<1>7. CASE WorkerConfirm
  BY <1>7, <1>w, <1>s, FailedTyped, GivesUpTyped, KeepTyped, WorkerGoTyped
  DEF WorkerConfirm, WorkerPc
<1>8. CASE WorkerStart
  <2>1. CASE \E released \in BOOLEAN :
               WorkerGivesUp(FailedOrDropped(img[Worker], "provider_start", released))
    BY <2>1, <1>w, <1>s, FailedOrDroppedTyped, GivesUpTyped
  <2>2. CASE Go(Worker, "publish")
    <3>1. PICK identity \in IdentityRead :
            img' = [img EXCEPT ![Worker].state = "running", ![Worker].prov = identity]
      BY <1>8, <2>2, <1>w DEF WorkerStart, WorkerGivesUp, Write, Go, PcTyped, Procs
    <3>2. row' = row
      BY <1>8, <2>2, <1>w DEF WorkerStart, WorkerGivesUp, Write, Go, PcTyped, Procs
    <3>3. img' \in [Procs -> Row]
      BY <3>1, <1>w DEF RowsTyped, Row, IdentityRead, Record, State, Active
    <3> QED BY <2>2, <3>2, <3>3, WorkerGoTyped DEF RowsTyped, WorkerPc
  <2> QED BY <1>8, <2>1, <2>2 DEF WorkerStart
<1>9. CASE WorkerPublish
  BY <1>9, <1>w, WriteTyped, WorkerGoTyped DEF WorkerPublish, WorkerPc
<1>10. CASE WorkerWatch
  BY <1>10, <1>w, ReadTyped, ExitsTyped, WorkerGoTyped DEF WorkerWatch, WorkerPc
<1>11. CASE Judge(Worker)
  BY <1>11, <1>w, JudgeTyped
<1> QED BY <1>1, <1>2, <1>3, <1>4, <1>5, <1>6, <1>7, <1>8, <1>9, <1>10, <1>11 DEF Serve

LEMMA EnvironmentTyped ==
  ASSUME RowsTyped, PcTyped, Environment
  PROVE  RowsTyped' /\ PcTyped'
<1>1. CASE WorkerCrash
  BY <1>1, ExitsTyped DEF WorkerCrash
<1>2. CASE ProviderExit \/ RecordOutcome \/ LeaseEnds
  BY <1>2 DEF ProviderExit, RecordOutcome, LeaseEnds, RowsTyped, PcTyped
<1> QED BY <1>1, <1>2 DEF Environment

(* The operating system's side moves only along its own values.            *)
LEMMA OthersStep ==
  ASSUME OthersTyped, Next
  PROVE  OthersTyped'
<1> USE DEF OthersTyped, OsState
<1>r. \A targeted, released : Release(targeted, released) => lease' \in {"none", "held", "ended"}
  BY DEF Release
<1>j. ASSUME NEW p, Judge(p) PROVE OthersTyped'
  BY <1>j, <1>r DEF Judge, JudgeQueued, JudgeUnstarted, RecoverUnverified,
     RecoverResumed, RecoverExited
<1>1. ASSUME NEW c \in Clients, Launch(c) PROVE OthersTyped'
  BY <1>1 DEF Launch, QueueOneRun, WorkerNotLaunched, LaunchRunWorker, AttachLaunched,
     AttachSupervisor, WorkerShowedItself, DiscardRun, StartWaitEnds
<1>2. ASSUME NEW c \in Clients, Reconcile(c) PROVE OthersTyped'
  BY <1>2, <1>j DEF Reconcile, ReadActive, CheckOwner, CheckWorker, CheckProcess
<1>3. ASSUME NEW c \in Clients, Sweep(c) PROVE OthersTyped'
  BY <1>3, <1>r DEF Sweep, ReadDropped, SweepWorker, SweepLive, SweepCleanup
<1>4. ASSUME NEW c \in Clients, Cancel(c) PROVE OthersTyped'
  BY <1>4, <1>r DEF Cancel, ReadForCancel, TerminateRunTree, ApplyCancel
<1>5. ASSUME NEW c \in Clients, PruneHistory(c) \/ ClientCrash(c) PROVE OthersTyped'
  BY <1>5 DEF PruneHistory, ClientCrash
<1>6. CASE Serve
  <2> USE DEF WorkerGivesUp, WorkerExits
  <2>1. CASE WorkerBoot \/ WorkerJoin \/ WorkerLoad \/ WorkerPreflight
    BY <2>1 DEF WorkerBoot, WorkerJoin, AttachSupervisor, WorkerLoad, WorkerPreflight
  <2>2. CASE WorkerReserve \/ WorkerHold \/ WorkerConfirm
    BY <2>2, <1>r DEF WorkerReserve, WorkerHold, WorkerConfirm
  <2>3. CASE WorkerStart \/ WorkerPublish \/ WorkerWatch
    BY <2>3, <1>r DEF WorkerStart, WorkerPublish, WorkerWatch
  <2> QED BY <1>6, <1>j, <2>1, <2>2, <2>3 DEF Serve
<1>7. CASE Environment
  BY <1>7 DEF Environment, ProviderExit, RecordOutcome, LeaseEnds, WorkerCrash, WorkerExits
<1> QED BY <1>1, <1>2, <1>3, <1>4, <1>5, <1>6, <1>7 DEF Next

(* What the environment may do is chosen once.                             *)
LEMMA EnvStays ==
  ASSUME Next
  PROVE  env' = env
<1>g. /\ \A p, next : Go(p, next) => env' = env
      /\ \A p, next : Read(p, next) \/ Leave(p, next) => env' = env
      /\ \A p, r, next : Write(p, r, next) => env' = env
  BY DEF Go, Read, Leave, Write
<1>j. ASSUME NEW p, Judge(p) PROVE env' = env
  BY <1>j, <1>g DEF Judge, JudgeQueued, JudgeUnstarted, RecoverUnverified,
     RecoverResumed, RecoverExited
<1>1. ASSUME NEW c \in Clients, Launch(c) PROVE env' = env
  BY <1>1, <1>g DEF Launch, QueueOneRun, WorkerNotLaunched, LaunchRunWorker, AttachLaunched,
     AttachSupervisor, WorkerShowedItself, DiscardRun, StartWaitEnds
<1>2. ASSUME NEW c \in Clients, Reconcile(c) PROVE env' = env
  BY <1>2, <1>g, <1>j DEF Reconcile, ReadActive, CheckOwner, CheckWorker, CheckProcess
<1>3. ASSUME NEW c \in Clients, Sweep(c) PROVE env' = env
  BY <1>3, <1>g DEF Sweep, ReadDropped, SweepWorker, SweepLive, SweepCleanup
<1>4. ASSUME NEW c \in Clients, Cancel(c) PROVE env' = env
  BY <1>4, <1>g DEF Cancel, ReadForCancel, TerminateRunTree, Stopped, ApplyCancel
<1>5. ASSUME NEW c \in Clients, PruneHistory(c) \/ ClientCrash(c) PROVE env' = env
  BY <1>5, <1>g DEF PruneHistory, ClientCrash
<1>6. CASE Serve
  <2> USE DEF WorkerGivesUp, WorkerExits
  <2>1. CASE WorkerBoot \/ WorkerJoin \/ WorkerLoad \/ WorkerPreflight
    BY <2>1, <1>g DEF WorkerBoot, WorkerJoin, AttachSupervisor, WorkerLoad, WorkerPreflight
  <2>2. CASE WorkerReserve \/ WorkerHold \/ WorkerConfirm
    BY <2>2, <1>g DEF WorkerReserve, WorkerHold, WorkerConfirm
  <2>3. CASE WorkerStart \/ WorkerPublish \/ WorkerWatch
    BY <2>3, <1>g DEF WorkerStart, WorkerPublish, WorkerWatch
  <2> QED BY <1>6, <1>j, <2>1, <2>2, <2>3 DEF Serve
<1>7. CASE Environment
  BY <1>7, <1>g DEF Environment, ProviderExit, RecordOutcome, LeaseEnds, WorkerCrash, WorkerExits
<1> QED BY <1>1, <1>2, <1>3, <1>4, <1>5, <1>6, <1>7 DEF Next

LEMMA TypeInit == Init => TypeOK
<1> SUFFICES ASSUME Init PROVE TypeOK
  OBVIOUS
<1>1. RowsTyped
  BY NoRowTyped DEF Init, RowsTyped
<1>2. PcTyped
  BY WorkerIsNoClient DEF Init, PcTyped, ClientPc, WorkerPc, Procs
<1>3. OthersTyped
  BY DEF Init, OthersTyped, OsState
<1>4. env \in Envs
  BY DEF Init
<1> QED BY <1>1, <1>2, <1>3, <1>4, TypeParts

LEMMA TypeStep == TypeOK /\ [Next]_vars => TypeOK'
<1> SUFFICES ASSUME TypeOK, [Next]_vars PROVE TypeOK'
  OBVIOUS
<1>t. RowsTyped /\ PcTyped /\ OthersTyped
  BY TypeParts
<1>1. CASE UNCHANGED vars
  BY <1>1 DEF vars, TypeOK
<1>2. CASE Next
  <2>1. RowsTyped' /\ PcTyped'
    BY <1>2, <1>t, LaunchTyped, ReconcileTyped, SweepTyped, CancelTyped, HousekeepingTyped,
       ServeTyped, EnvironmentTyped DEF Next
  <2>2. OthersTyped'
    BY <1>2, <1>t, OthersStep
  <2>3. env' \in Envs
    BY <1>2, EnvStays DEF TypeOK
  <2> QED BY <2>1, <2>2, <2>3 DEF TypeOK, RowsTyped, PcTyped, OthersTyped
<1> QED BY <1>1, <1>2

(* Every handler writes rows of the ledger's shape and takes its process   *)
(* to a step of its own kind.                                              *)
THEOREM TypeCorrect == Spec => []TypeOK
  BY TypeInit, TypeStep, PTL DEF Spec

-----------------------------------------------------------------------------
(* The copies of the row after a step.                                     *)

LEMMA WriteCopies ==
  ASSUME RowsTyped, NEW p \in Procs, NEW r, NEW next, Write(p, r, next)
  PROVE  /\ Copies' \subseteq Copies \cup {r, NoRow}
         /\ row' = r
         /\ img'[p] \in {r, NoRow}
         /\ \A q \in Procs \ {p} : img'[q] = img[q]
         /\ Go(p, next)
  BY DEF RowsTyped, Write, Copies

LEMMA LeaveCopies ==
  ASSUME RowsTyped, NEW p \in Procs, NEW next, Leave(p, next)
  PROVE  /\ Copies' \subseteq Copies \cup {NoRow}
         /\ row' = row
         /\ img'[p] = NoRow
         /\ \A q \in Procs \ {p} : img'[q] = img[q]
         /\ Go(p, next)
  BY DEF RowsTyped, Leave, Copies

LEMMA ReadCopies ==
  ASSUME RowsTyped, NEW p \in Procs, NEW next, Read(p, next)
  PROVE  /\ Copies' \subseteq Copies
         /\ row' = row
         /\ img'[p] = row
         /\ \A q \in Procs \ {p} : img'[q] = img[q]
         /\ Go(p, next)
  BY DEF RowsTyped, Read, Copies

LEMMA KeepCopies == UNCHANGED <<row, img>> => Copies' = Copies
  BY DEF Copies

LEMMA OwnCopy == \A p \in Procs : img[p] \in Copies
  BY DEF Copies

LEMMA GoMoves ==
  ASSUME PcTyped, NEW p \in Procs, NEW next, Go(p, next)
  PROVE  pc'[p] = next /\ \A q \in Procs \ {p} : pc'[q] = pc[q]
  BY DEF PcTyped, Go

-----------------------------------------------------------------------------
(* LaunchOnce.                                                             *)

Alone(p) == \A q \in Procs \ {p} : img'[q] = img[q]

LEMMA ClientKeepsLaunch ==
  ASSUME PcTyped, LaunchOnce, NEW c \in Clients, NEW next, Go(c, next),
         next # "popen", supervisor' = supervisor,
         provider = "unborn" => provider' = "unborn",
         Alone(c)
  PROVE  LaunchOnce'
<1>1. c \in Procs /\ Worker \in Procs /\ c # Worker
  BY WorkerIsNoClient DEF Procs
<1>2. pc'[c] = next /\ \A q \in Procs \ {c} : pc'[q] = pc[q]
  BY <1>1, GoMoves
<1>3. \A d \in Clients : d \in Procs
  BY DEF Procs
<1> QED BY <1>1, <1>2, <1>3 DEF LaunchOnce, Alone

LEMMA WorkerKeepsLaunch ==
  ASSUME PcTyped, LaunchOnce, NEW next, Go(Worker, next),
         pc[Worker] # "unborn", supervisor' \in {supervisor, "dead"},
         next # "unborn",
         next \in PreStart => pc[Worker] \in PreStart /\ provider' = provider,
         Alone(Worker)
  PROVE  LaunchOnce'
<1>1. Worker \in Procs /\ \A d \in Clients : d \in Procs \ {Worker}
  BY WorkerIsNoClient DEF Procs
<1>2. pc'[Worker] = next /\ \A q \in Procs \ {Worker} : pc'[q] = pc[q]
  BY <1>1, GoMoves
<1>3. supervisor # "unborn" /\ supervisor' # "unborn" /\ \A d \in Clients : pc[d] # "popen"
  BY DEF LaunchOnce
<1> QED BY <1>1, <1>2, <1>3 DEF LaunchOnce, Alone

(* What an observation proves of the process that was looked for.          *)
LEMMA SeesSound ==
  ASSUME NEW process, NEW record
  PROVE  /\ "same" \in Sees(process, record) => process = "alive" /\ record = "identified"
         /\ "gone" \in Sees(process, record) => process # "alive"
         /\ record = "identified" /\ "other" \in Sees(process, record) => process # "alive"
  BY DEF Sees

LEMMA JudgeActs ==
  ASSUME RowsTyped, NEW p \in Procs, Judge(p)
  PROVE  UNCHANGED <<supervisor, provider>> /\ Alone(p) /\ Go(p, Home(p))
<1>1. \A r : Write(p, r, Home(p)) => Alone(p) /\ Go(p, Home(p))
  BY WriteCopies DEF Alone
<1> QED BY <1>1 DEF Judge, JudgeQueued, JudgeUnstarted, RecoverUnverified,
           RecoverResumed, RecoverExited

(* The actions of a control process that neither queue, create the worker, *)
(* crash nor prune: they touch its own copy and no process but a provider. *)
Steady(c) ==
  \/ AttachLaunched(c) \/ WorkerShowedItself(c) \/ DiscardRun(c) \/ StartWaitEnds(c)
  \/ Reconcile(c) \/ Sweep(c) \/ Cancel(c)

LEMMA SteadyActs ==
  ASSUME RowsTyped, NEW c \in Clients, Steady(c)
  PROVE  /\ supervisor' = supervisor
         /\ provider' = provider \/ (provider = "alive" /\ provider' = "dead")
         /\ Alone(c)
         /\ \E next : next # "popen" /\ Go(c, next)
<1>c. c \in Procs
  BY DEF Procs
<1>r. \A next : Read(c, next) => Alone(c) /\ Go(c, next)
  BY <1>c, ReadCopies DEF Alone
<1>l. \A next : Leave(c, next) => Alone(c) /\ Go(c, next)
  BY <1>c, LeaveCopies DEF Alone
<1>w. \A r, next : Write(c, r, next) => Alone(c) /\ Go(c, next)
  BY <1>c, WriteCopies DEF Alone
<1>k. img' = img => Alone(c)
  BY DEF Alone
<1>1. CASE AttachLaunched(c)
  BY <1>1, <1>k DEF AttachLaunched, AttachSupervisor
<1>2. CASE WorkerShowedItself(c)
  BY <1>2, <1>c DEF WorkerShowedItself, Alone, RowsTyped
<1>3. CASE DiscardRun(c)
  BY <1>3, <1>c DEF DiscardRun, Alone, RowsTyped
<1>4. CASE StartWaitEnds(c)
  BY <1>4, <1>r, <1>l DEF StartWaitEnds
<1>5. CASE Judge(c)
  <2>1. Home(c) # "popen" BY DEF Home
  <2> QED BY <1>5, <2>1, <1>c, JudgeActs
<1>6. CASE ReadActive(c) \/ CheckOwner(c) \/ CheckWorker(c) \/ CheckProcess(c)
  BY <1>6, <1>r, <1>l, <1>w, <1>k DEF ReadActive, CheckOwner, CheckWorker, CheckProcess
<1>7. CASE Sweep(c)
  BY <1>7, <1>r, <1>l, <1>w, <1>k
  DEF Sweep, ReadDropped, SweepWorker, SweepLive, SweepCleanup
<1>8. CASE ReadForCancel(c)
  BY <1>8, <1>r DEF ReadForCancel
<1>9. CASE TerminateRunTree(c)
  <2>1. PICK stopped \in BOOLEAN : Stopped(c, stopped)
    BY <1>9 DEF TerminateRunTree
  <2>2. Alone(c) /\ Go(c, "giveBack")
    BY <2>1, <1>c DEF Stopped, Alone, RowsTyped
  <2> QED BY <1>9, <2>2, SeesSound DEF TerminateRunTree
<1>10. CASE ApplyCancel(c)
  BY <1>10, <1>w DEF ApplyCancel
<1> QED BY <1>1, <1>2, <1>3, <1>4, <1>5, <1>6, <1>7, <1>8, <1>9, <1>10
        DEF Steady, Reconcile, Cancel

(* The worker's steps: the pc it goes to, and when the provider starts.    *)
LEMMA ServeActs ==
  ASSUME RowsTyped, Serve
  PROVE  /\ pc[Worker] # "unborn"
         /\ supervisor' \in {supervisor, "dead"}
         /\ Alone(Worker)
         /\ provider' = provider \/ (pc[Worker] = "start" /\ provider' = "alive")
         /\ \E next \in WorkerPc \ {"unborn"} :
              /\ Go(Worker, next)
              /\ next \in PreStart => pc[Worker] \in PreStart /\ provider' = provider
<1> USE DEF PreStart, PreReserve, WorkerPc
<1>p. Worker \in Procs
  BY DEF Procs
<1>r. \A next : Read(Worker, next) => Alone(Worker) /\ Go(Worker, next)
  BY <1>p, ReadCopies DEF Alone
<1>l. WorkerExits => Alone(Worker) /\ Go(Worker, "gone") /\ supervisor' = "dead"
  BY <1>p, LeaveCopies DEF Alone, WorkerExits
<1>w. \A r, next : Write(Worker, r, next) => Alone(Worker) /\ Go(Worker, next)
  BY <1>p, WriteCopies DEF Alone
<1>g. \A r : WorkerGivesUp(r) => Alone(Worker) /\ Go(Worker, "gone") /\ supervisor' = "dead"
  BY <1>w DEF WorkerGivesUp
<1>k. img' = img => Alone(Worker)
  BY DEF Alone
<1>1. CASE WorkerBoot
  BY <1>1, <1>k, <1>l DEF WorkerBoot
<1>2. CASE WorkerJoin
  BY <1>2, <1>k DEF WorkerJoin, AttachSupervisor
<1>3. CASE WorkerLoad
  BY <1>3, <1>r, <1>l DEF WorkerLoad
<1>4. CASE WorkerPreflight
  BY <1>4, <1>w, <1>g DEF WorkerPreflight
<1>5. CASE WorkerReserve
  BY <1>5, <1>k, <1>g DEF WorkerReserve
<1>6. CASE WorkerHold
  BY <1>6, <1>w DEF WorkerHold
<1>7. CASE WorkerConfirm
  BY <1>7, <1>k, <1>g DEF WorkerConfirm
<1>8. CASE WorkerStart
  <2>1. \A identity :
          img' = [img EXCEPT ![Worker].state = "running", ![Worker].prov = identity]
            => Alone(Worker)
    BY <1>p DEF Alone, RowsTyped
  <2>2. /\ pc[Worker] = "start"
        /\ \/ /\ Go(Worker, "publish") /\ Alone(Worker)
              /\ provider' = "alive" /\ supervisor' = supervisor
           \/ /\ Go(Worker, "gone") /\ Alone(Worker)
              /\ provider' = provider /\ supervisor' = "dead"
    BY <1>8, <2>1, <1>g DEF WorkerStart
  <2>3. "publish" \notin PreStart /\ "gone" \notin PreStart
        /\ "publish" \in WorkerPc \ {"unborn"} /\ "gone" \in WorkerPc \ {"unborn"}
    OBVIOUS
  <2> HIDE DEF PreStart, PreReserve, WorkerPc
  <2> QED BY <2>2, <2>3
<1>9. CASE WorkerPublish
  BY <1>9, <1>w DEF WorkerPublish
<1>10. CASE WorkerWatch
  BY <1>10, <1>r, <1>l DEF WorkerWatch
<1>11. CASE Judge(Worker)
  <2>1. pc[Worker] = "judge"
    BY <1>11 DEF Judge, JudgeQueued, JudgeUnstarted, RecoverUnverified, RecoverResumed,
       RecoverExited, JudgesStarted
  <2>2. Home(Worker) = "watch" BY DEF Home
  <2> QED BY <1>11, <2>1, <2>2, <1>p, JudgeActs
<1> QED BY <1>1, <1>2, <1>3, <1>4, <1>5, <1>6, <1>7, <1>8, <1>9, <1>10, <1>11 DEF Serve

LEMMA LaunchOnceStep ==
  ASSUME RowsTyped, PcTyped, LaunchOnce, Next
  PROVE  LaunchOnce'
<1>p. Worker \in Procs /\ \A d \in Clients : d \in Procs /\ d # Worker
  BY WorkerIsNoClient DEF Procs
<1>1. ASSUME NEW c \in Clients, QueueOneRun(c) PROVE LaunchOnce'
  <2>1. \A d \in Clients : pc[d] # "popen"
    BY <1>1, <1>p DEF QueueOneRun, LaunchOnce, NoRow
  <2>2. img'[c] = [NoRow EXCEPT !.state = "queued"]
    BY <1>1, <1>p DEF QueueOneRun, Write, RowsTyped
  <2>3. pc'[c] = "popen" /\ \A q \in Procs \ {c} : pc'[q] = pc[q]
    BY <1>1, <1>p, GoMoves DEF QueueOneRun, Write
  <2>4. img'[c].state = "queued" BY <2>2 DEF NoRow
  <2> QED BY <1>1, <1>p, <2>1, <2>3, <2>4 DEF QueueOneRun, LaunchOnce
<1>2. ASSUME NEW c \in Clients, pc[c] = "popen", Go(c, "idle"), supervisor' = "dead",
             provider' = provider
      PROVE  LaunchOnce'
  <2>1. pc'[c] = "idle" /\ \A q \in Procs \ {c} : pc'[q] = pc[q]
    BY <1>2, <1>p, GoMoves
  <2>2. \A d \in Clients : pc'[d] # "popen"
    BY <1>2, <2>1, <1>p DEF LaunchOnce
  <2> QED BY <1>2, <2>1, <2>2, <1>p DEF LaunchOnce
<1>3. ASSUME NEW c \in Clients, LaunchRunWorker(c) PROVE LaunchOnce'
  <2>1. pc' = [[pc EXCEPT ![c] = "attach"] EXCEPT ![Worker] = "boot"]
    BY <1>3 DEF LaunchRunWorker
  <2>2. pc'[Worker] = "boot" /\ pc'[c] = "attach"
        /\ \A d \in Clients \ {c} : pc'[d] = pc[d]
    BY <2>1, <1>p DEF PcTyped
  <2>3. pc[Worker] = "unborn" /\ provider = "unborn"
    BY <1>3 DEF LaunchRunWorker, LaunchOnce, PreStart, PreReserve
  <2> QED BY <1>3, <2>2, <2>3 DEF LaunchRunWorker, LaunchOnce
<1>4. ASSUME NEW c \in Clients, Steady(c) PROVE LaunchOnce'
  BY <1>4, <1>p, SteadyActs, ClientKeepsLaunch
<1>5. ASSUME NEW c \in Clients, PruneHistory(c) PROVE LaunchOnce'
  BY <1>5 DEF PruneHistory, LaunchOnce
<1>6. ASSUME NEW c \in Clients, ClientCrash(c), pc[c] # "popen" PROVE LaunchOnce'
  <2>1. Go(c, "idle") /\ Alone(c)
    BY <1>6, <1>p, LeaveCopies DEF ClientCrash, Alone
  <2> QED BY <1>6, <2>1, ClientKeepsLaunch DEF ClientCrash
<1>7. CASE Serve
  <2>1. pc[Worker] # "unborn" /\ supervisor' \in {supervisor, "dead"} /\ Alone(Worker)
    BY <1>7, ServeActs
  <2>2. PICK next \in WorkerPc \ {"unborn"} :
                    /\ Go(Worker, next)
                    /\ next \in PreStart => pc[Worker] \in PreStart /\ provider' = provider
    BY <1>7, ServeActs
  <2> QED BY <2>1, <2>2, WorkerKeepsLaunch
<1>8. CASE ProviderExit \/ RecordOutcome \/ LeaseEnds
  <2>1. UNCHANGED <<img, pc, supervisor>>
    BY <1>8 DEF ProviderExit, RecordOutcome, LeaseEnds
  <2>2. provider = "unborn" => provider' = "unborn"
    BY <1>8 DEF ProviderExit, RecordOutcome, LeaseEnds
  <2> QED BY <2>1, <2>2 DEF LaunchOnce
<1>9. CASE WorkerCrash
  <2>1. /\ Go(Worker, "gone") /\ supervisor' = "dead" /\ provider' = provider
        /\ \A q \in Procs \ {Worker} : img'[q] = img[q]
    BY <1>9, <1>p, LeaveCopies DEF WorkerCrash, WorkerExits
  <2>2. pc'[Worker] = "gone" /\ \A q \in Procs \ {Worker} : pc'[q] = pc[q]
    BY <2>1, <1>p, GoMoves
  <2>3. \A d \in Clients : pc[d] # "popen"
    BY <1>9 DEF WorkerCrash, LaunchOnce
  <2> QED BY <2>1, <2>2, <2>3, <1>p DEF LaunchOnce, PreStart, PreReserve
<1>10. ASSUME NEW c \in Clients, WorkerNotLaunched(c) \/ (ClientCrash(c) /\ pc[c] = "popen")
       PROVE  LaunchOnce'
  <2>1. pc[c] = "popen" /\ Go(c, "idle") /\ supervisor' = "dead" /\ provider' = provider
    BY <1>10, <1>p, WriteCopies, LeaveCopies DEF WorkerNotLaunched, ClientCrash
  <2> QED BY <2>1, <1>2
<1> QED BY <1>1, <1>3, <1>4, <1>5, <1>6, <1>7, <1>8, <1>9, <1>10
        DEF Next, Launch, Steady, Environment

-----------------------------------------------------------------------------
(* What the handlers' edits keep of a row.                                 *)

Keeps(r, q) == q.prov = r.prov /\ q.target = r.target /\ q.handedOver = r.handedOver

LEMMA FailedKeeps ==
  \A r \in Row, s \in Stage :
    Keeps(r, Failed(r, s)) /\ Failed(r, s).state = "failed" /\ Failed(r, s).stage = s
  BY DEF Keeps, Failed, Row

LEMMA DroppedKeeps ==
  \A r \in Row, s \in Stage, left \in SUBSET Steps :
    /\ Keeps(r, Dropped(r, s, left))
    /\ Dropped(r, s, left).state = "recovery_required"
    /\ Dropped(r, s, left).remaining = left
  BY DEF Keeps, Dropped, Row

LEMMA FailedOrDroppedKeeps ==
  \A r \in Row, s \in Stage, released \in BOOLEAN :
    LET q == FailedOrDropped(r, s, released) IN
      /\ Keeps(r, q)
      /\ released => q.state = "failed"
      /\ ~released => q.state = "recovery_required" /\ q.remaining = {"lease_release"}
  BY DEF Keeps, FailedOrDropped, Failed, Dropped, Row

LEMMA TakenOverKeeps ==
  \A r \in Row : /\ Keeps(r, TakenOver(r))
                 /\ TakenOver(r).state = r.state
                 /\ TakenOver(r).stage = r.stage
                 /\ TakenOver(r).remaining = r.remaining
  BY DEF Keeps, TakenOver, Row

LEMMA RestoredKeeps ==
  \A r \in Row : Keeps(r, Restored(r)) /\ Restored(r).state = "running"
  BY DEF Keeps, Restored, Row

LEMMA NotStartedKeeps ==
  \A r \in Row : Keeps(r, NotStarted(r)) /\ NotStarted(r).state = "idle"
  BY DEF Keeps, NotStarted, Row

LEMMA FinishedKeeps ==
  \A r \in Row : Keeps(r, Finished(r)) /\ Finished(r).state \in Ended
  BY DEF Keeps, Finished, TerminalByEvent, Ended, Row

LEMMA ExitedKeeps ==
  \A r \in Row : Keeps(r, Exited(r)) /\ Exited(r).state \in Ended
  BY DEF Keeps, Exited, Finished, TerminalByEvent, Ended, Row

LEMMA EditsKeep ==
  \A r \in Row :
    /\ \A i \in Record : LET q == [r EXCEPT !.sup = i] IN
         Keeps(r, q) /\ q.state = r.state /\ q.stage = r.stage /\ q.remaining = r.remaining
    /\ \A left \in SUBSET Steps : LET q == [r EXCEPT !.remaining = left] IN
         Keeps(r, q) /\ q.state = r.state /\ q.stage = r.stage /\ q.remaining = left
    /\ LET q == [r EXCEPT !.state = "cancelled", !.stage = "none"] IN
         Keeps(r, q) /\ q.state = "cancelled"
    /\ LET q == [r EXCEPT !.state = "reserved"] IN
         Keeps(r, q) /\ q.state = "reserved"
  BY DEF Keeps, Row

-----------------------------------------------------------------------------
(* What a step may add to the copies: rows that are sound for the provider *)
(* and for the lease as they are after it.                                 *)

Good(r) == Sound(r, provider') /\ Returned(r, lease')

(* A row that is not final is good when it keeps a good copy's processes.  *)
LEMMA GoodUnended ==
  ASSUME NEW r, NEW q, Keeps(r, q),
         q.state \in {"running", "recovery_required"},
         Sound(r, provider), Returned(r, lease),
         provider = "unborn" \/ provider' # "unborn",
         lease' = "held" => lease = "held"
  PROVE  Good(q)
  BY DEF Good, Keeps, Sound, Returned, Ended

(* A final row is good when its provider is dead and its lease is back.    *)
LEMMA GoodEnded ==
  ASSUME NEW r, NEW q, Keeps(r, q), q.state \in Ended \cup {"reserved", "idle"},
         Returned(r, lease), lease' = "held" => lease = "held",
         r.prov # "none" => q.state \in Ended /\ provider' = "dead",
         r.target /\ lease' = "held" => q.state \notin Ended \/ q.stage = "reservation"
  PROVE  Good(q)
  BY DEF Good, Keeps, Sound, Returned, Ended

Adds == \A r \in Copies' : r \in Copies \cup {NoRow} \/ Good(r)

LEMMA WriteAdds ==
  ASSUME RowsTyped, NEW p \in Procs, NEW r, NEW next, Write(p, r, next), Good(r)
  PROVE  Adds
  BY WriteCopies DEF Adds

LEMMA QuietAdds ==
  ASSUME RowsTyped, NEW p \in Procs,
         UNCHANGED <<row, img>> \/ \E next : Read(p, next) \/ Leave(p, next)
  PROVE  Adds
  BY ReadCopies, LeaveCopies, KeepCopies DEF Adds

(* The invariant's parts in the form the step lemmas use.                  *)
LEMMA InvParts ==
  ASSUME IInv
  PROVE  /\ RowsTyped /\ PcTyped /\ OthersTyped
         /\ LaunchOnce /\ ReservedOnce /\ WorkerInHand
         /\ \A p \in Procs : /\ img[p] \in Row
                             /\ Sound(img[p], provider)
                             /\ Returned(img[p], lease)
         /\ row \in Row /\ Sound(row, provider) /\ Returned(row, lease) /\ DropSound(row, lease)
         /\ \A c \in Clients : ClientInHand(c)
         /\ \A c \in Clients : pc[c] = "giveBack" => StopSound(img[c], provider)
         /\ NoRow \in Row
<1>1. RowsTyped /\ PcTyped /\ OthersTyped
  BY TypeParts DEF IInv
<1>2. row \in Copies /\ \A p \in Procs : img[p] \in Copies
  BY DEF Copies
<1> QED BY <1>1, <1>2, NoRowTyped DEF IInv, ProcessInv, LeaseInv, RowsTyped

LEMMA ReleaseGives ==
  ASSUME NEW targeted \in BOOLEAN, NEW released \in BOOLEAN, Release(targeted, released)
  PROVE  /\ lease' = "held" => lease = "held"
         /\ targeted /\ released => lease' = "ended"
  BY DEF Release

LEMMA AttachAdds ==
  ASSUME IInv, NEW p \in Procs, NEW next, AttachSupervisor(p, next)
  PROVE  Adds
<1>1. row \in Row /\ Sound(row, provider) /\ Returned(row, lease)
  BY InvParts
<1>2. ASSUME NEW i \in Record PROVE Good([row EXCEPT !.sup = i])
  <2>1. provider' = provider /\ lease' = lease
    BY DEF AttachSupervisor
  <2> QED BY <1>1, <2>1, EditsKeep DEF Good, Keeps, Sound, Returned
<1>3. IdentityRead \subseteq Record
  BY DEF IdentityRead, Record
<1>4. row' = row \/ Good(row')
  BY <1>2, <1>3 DEF AttachSupervisor
<1> QED BY <1>4 DEF AttachSupervisor, Adds, Copies

LEMMA LaunchAdds ==
  ASSUME IInv, NEW c \in Clients, Launch(c)
  PROVE  Adds
<1>c. c \in Procs
  BY DEF Procs
<1>t. /\ RowsTyped /\ LaunchOnce /\ img[c] \in Row
      /\ Sound(img[c], provider) /\ Returned(img[c], lease)
  BY <1>c, InvParts
<1>1. CASE QueueOneRun(c)
  <2>1. Good([NoRow EXCEPT !.state = "queued"])
    BY DEF Good, Sound, Returned, NoRow
  <2> QED BY <1>1, <1>c, <1>t, <2>1, WriteAdds DEF QueueOneRun
<1>2. CASE WorkerNotLaunched(c)
  <2>1. img[c].state = "queued"
    BY <1>2, <1>t DEF WorkerNotLaunched, LaunchOnce
  <2>2. img[c].prov = "none" /\ ~img[c].target
    BY <1>t, <2>1 DEF Sound, Returned, Ended
  <2>3. Good(Failed(img[c], "provider_start"))
    BY <1>2, <1>t, <2>2, FailedKeeps, GoodEnded DEF WorkerNotLaunched, Stage, Ended
  <2> QED BY <1>2, <1>c, <1>t, <2>3, WriteAdds DEF WorkerNotLaunched
<1>3. CASE LaunchRunWorker(c)
  BY <1>3, <1>c, <1>t, QuietAdds DEF LaunchRunWorker
<1>4. CASE AttachLaunched(c)
  BY <1>4, <1>c, AttachAdds DEF AttachLaunched
<1>5. CASE WorkerShowedItself(c)
  BY <1>5, <1>t DEF WorkerShowedItself, Adds, Copies, RowsTyped
<1>6. CASE DiscardRun(c)
  BY <1>6, <1>t DEF DiscardRun, Adds, Copies, RowsTyped
<1>7. CASE StartWaitEnds(c)
  BY <1>7, <1>c, <1>t, QuietAdds DEF StartWaitEnds
<1> QED BY <1>1, <1>2, <1>3, <1>4, <1>5, <1>6, <1>7 DEF Launch

LEMMA JudgeAdds ==
  ASSUME IInv, NEW p \in Procs, Judge(p)
  PROVE  Adds
<1>t. /\ RowsTyped /\ OthersTyped /\ img[p] \in Row /\ img[p].target \in BOOLEAN
      /\ Sound(img[p], provider) /\ Returned(img[p], lease)
  BY InvParts DEF Row
<1>s. /\ {} \in SUBSET Steps /\ {"lease_release"} \in SUBSET Steps
      /\ "provider_start" \in Stage /\ "recovery" \in Stage /\ "cleanup" \in Stage
  BY DEF Steps, Stage
<1>w. ASSUME NEW r, Write(p, r, Home(p)), Good(r) PROVE Adds
  BY <1>w, <1>t, WriteAdds
<1>1. CASE JudgeQueued(p)
  <2>1. img[p].prov = "none" /\ ~img[p].target
    BY <1>1, <1>t DEF JudgeQueued, Sound, Returned, Ended
  <2>2. Good(Failed(img[p], "provider_start"))
    BY <1>1, <1>t, <1>s, <2>1, FailedKeeps, GoodEnded DEF JudgeQueued, Ended
  <2> QED BY <1>1, <1>w, <2>2 DEF JudgeQueued
<1>2. CASE JudgeUnstarted(p)
  <2>1. PICK released \in BOOLEAN :
          /\ Release(img[p].target, released)
          /\ Write(p, FailedOrDropped(img[p], "provider_start", released), Home(p))
    BY <1>2 DEF JudgeUnstarted
  <2>2. img[p].prov = "none" /\ provider' = provider
    BY <1>2, <1>t DEF JudgeUnstarted, Sound, Ended
  <2>3. lease' = "held" => lease = "held"
    BY <2>1, <1>t, ReleaseGives
  <2>4. CASE released
    <3>1. img[p].target => lease' = "ended"
      BY <2>1, <2>4, <1>t, ReleaseGives
    <3>2. Good(FailedOrDropped(img[p], "provider_start", released))
      BY <1>t, <1>s, <2>2, <2>3, <2>4, <3>1, FailedOrDroppedKeeps, GoodEnded DEF Ended
    <3> QED BY <2>1, <3>2, <1>w
  <2>5. CASE ~released
    <3>1. Good(FailedOrDropped(img[p], "provider_start", released))
      BY <1>t, <1>s, <2>2, <2>3, <2>5, FailedOrDroppedKeeps, GoodUnended
    <3> QED BY <2>1, <3>1, <1>w
  <2> QED BY <2>4, <2>5
<1>3. CASE RecoverUnverified(p)
  <2>1. Good(Dropped(img[p], "recovery", {}))
    BY <1>3, <1>t, <1>s, DroppedKeeps, GoodUnended DEF RecoverUnverified
  <2> QED BY <1>3, <1>w, <2>1 DEF RecoverUnverified
<1>4. CASE RecoverResumed(p)
  <2>1. UNCHANGED <<provider, lease>> /\ img[p].state = "running"
    BY <1>4 DEF RecoverResumed, JudgesStarted
  <2>2. Good(Renewed(img[p], lease # "held"))
    BY <1>t, <2>1 DEF Good, Renewed, Sound, Returned, Row, Ended
  <2> QED BY <1>4, <1>w, <2>2 DEF RecoverResumed
<1>5. CASE RecoverExited(p)
  <2>1. provider = "dead" /\ provider' = provider
    BY <1>5, <1>t, SeesSound DEF RecoverExited, JudgesStarted, Sound, OthersTyped, OsState
  <2>2. CASE Release(img[p].target, TRUE) /\ Write(p, Exited(img[p]), Home(p))
    <3>1. (lease' = "held" => lease = "held") /\ (img[p].target => lease' = "ended")
      BY <2>2, <1>t, ReleaseGives
    <3>2. Good(Exited(img[p]))
      BY <1>t, <2>1, <3>1, ExitedKeeps, GoodEnded
    <3> QED BY <2>2, <3>2, <1>w
  <2>3. CASE Release(img[p].target, FALSE)
             /\ Write(p, Dropped(img[p], "cleanup", {"lease_release"}), Home(p))
    <3>1. lease' = "held" => lease = "held"
      BY <2>3, <1>t, ReleaseGives
    <3>2. Good(Dropped(img[p], "cleanup", {"lease_release"}))
      BY <1>t, <1>s, <2>1, <3>1, DroppedKeeps, GoodUnended
    <3> QED BY <2>3, <3>2, <1>w
  <2> QED BY <1>5, <2>2, <2>3 DEF RecoverExited
<1> QED BY <1>1, <1>2, <1>3, <1>4, <1>5 DEF Judge

LEMMA ReconcileAdds ==
  ASSUME IInv, NEW c \in Clients, Reconcile(c)
  PROVE  Adds
<1>c. c \in Procs
  BY DEF Procs
<1>t. /\ RowsTyped /\ img[c] \in Row /\ ClientInHand(c)
      /\ Sound(img[c], provider) /\ Returned(img[c], lease)
  BY <1>c, InvParts
<1>d. ASSUME UNCHANGED <<provider, lease>> PROVE Good(Dropped(img[c], "recovery", Steps))
  <2>1. "recovery" \in Stage /\ Steps \in SUBSET Steps BY DEF Stage
  <2> QED BY <1>t, <1>d, <2>1, DroppedKeeps, GoodUnended
<1>1. CASE ReadActive(c) \/ CheckOwner(c)
  BY <1>1, <1>c, <1>t, QuietAdds DEF ReadActive, CheckOwner
<1>2. CASE CheckWorker(c)
  BY <1>2, <1>c, <1>t, <1>d, QuietAdds, WriteAdds DEF CheckWorker
<1>3. CASE CheckProcess(c)
  <2>1. Good(TakenOver(img[c]))
    BY <1>3, <1>t, TakenOverKeeps DEF CheckProcess, Good, Keeps, Sound, Returned
  <2> QED BY <1>3, <1>c, <1>t, <1>d, <2>1, QuietAdds, WriteAdds DEF CheckProcess
<1>4. CASE Judge(c)
  BY <1>4, <1>c, JudgeAdds
<1> QED BY <1>1, <1>2, <1>3, <1>4 DEF Reconcile

LEMMA SweepAdds ==
  ASSUME IInv, NEW c \in Clients, Sweep(c)
  PROVE  Adds
<1>c. c \in Procs
  BY DEF Procs
<1>t. /\ RowsTyped /\ OthersTyped /\ img[c] \in Row /\ ClientInHand(c)
      /\ img[c].target \in BOOLEAN
      /\ Sound(img[c], provider) /\ Returned(img[c], lease)
  BY <1>c, InvParts DEF Row
<1>r. ASSUME UNCHANGED <<provider, lease>>
      PROVE  Good(Restored(img[c])) /\ Good(Restored(TakenOver(img[c])))
  <2>1. TakenOver(img[c]) \in Row
    BY <1>t, TakenOverTyped
  <2>2. Keeps(img[c], Restored(img[c])) /\ Keeps(img[c], Restored(TakenOver(img[c])))
    BY <1>t, <2>1, TakenOverKeeps, RestoredKeeps DEF Keeps
  <2> QED BY <1>t, <1>r, <2>1, <2>2, RestoredKeeps, GoodUnended
<1>1. CASE ReadDropped(c)
  BY <1>1, <1>c, <1>t, QuietAdds DEF ReadDropped
<1>2. CASE SweepWorker(c)
  BY <1>2, <1>c, <1>t, <1>r, QuietAdds, WriteAdds DEF SweepWorker
<1>3. CASE SweepLive(c)
  BY <1>3, <1>c, <1>t, <1>r, QuietAdds, WriteAdds DEF SweepLive
<1>4. CASE SweepCleanup(c)
  <2> DEFINE targeted == img[c].target /\ "lease_release" \in img[c].remaining
  <2>1. img[c].prov # "none" => provider = "dead"
    BY <1>4, <1>t, SeesSound DEF SweepCleanup, ProvedGone, Sound, OthersTyped, OsState
  <2>2. provider' = provider
    BY <1>4 DEF SweepCleanup
  <2>3. targeted \in BOOLEAN
    OBVIOUS
  <2>4. CASE Release(targeted, TRUE) /\ Write(c, Finished(img[c]), "idle")
    <3>1. (lease' = "held" => lease = "held") /\ (targeted => lease' = "ended")
      BY <2>3, <2>4, ReleaseGives
    <3>2. img[c].target => lease' # "held"
      BY <1>4, <1>t, <3>1 DEF SweepCleanup, ClientInHand, DropSound
    <3>3. Good(Finished(img[c]))
      BY <1>t, <2>1, <2>2, <3>1, <3>2, FinishedKeeps, GoodEnded
    <3> QED BY <1>c, <1>t, <2>4, <3>3, WriteAdds
  <2>5. CASE /\ Release(targeted, FALSE)
             /\ Write(c, [img[c] EXCEPT !.remaining = {"lease_release"}], "idle")
    <3>1. lease' = "held" => lease = "held"
      BY <2>3, <2>5, ReleaseGives
    <3>2. img[c].state = "recovery_required"
      BY <1>4, <1>t DEF SweepCleanup, ClientInHand
    <3>3. {"lease_release"} \in SUBSET Steps
      BY DEF Steps
    <3>4. Good([img[c] EXCEPT !.remaining = {"lease_release"}])
      BY <1>t, <2>2, <3>1, <3>2, <3>3, EditsKeep, GoodUnended
    <3> QED BY <1>c, <1>t, <2>5, <3>4, WriteAdds
  <2> QED BY <1>4, <2>4, <2>5 DEF SweepCleanup
<1> QED BY <1>1, <1>2, <1>3, <1>4 DEF Sweep

LEMMA CancelAdds ==
  ASSUME IInv, NEW c \in Clients, Cancel(c)
  PROVE  Adds
<1>c. c \in Procs
  BY DEF Procs
<1>t. /\ RowsTyped /\ img[c] \in Row
      /\ img[c].target \in BOOLEAN /\ img[c].remaining \in SUBSET Steps
      /\ Sound(img[c], provider) /\ Returned(img[c], lease)
      /\ pc[c] = "giveBack" => StopSound(img[c], provider)
  BY <1>c, InvParts DEF Row
<1>1. CASE ReadForCancel(c)
  BY <1>1, <1>c, <1>t, QuietAdds DEF ReadForCancel
<1>2. CASE TerminateRunTree(c)
  <2>1. PICK stopped \in BOOLEAN : Stopped(c, stopped)
    BY <1>2 DEF TerminateRunTree
  <2>2. PICK left \in SUBSET Steps : img' = [img EXCEPT ![c].remaining = left]
    BY <2>1 DEF Stopped, Steps
  <2>3. Copies' \subseteq Copies \cup {[img[c] EXCEPT !.remaining = left]}
    BY <1>2, <1>c, <1>t, <2>2 DEF TerminateRunTree, Copies, RowsTyped
  <2>4. /\ lease' = lease
        /\ provider' = provider \/ (provider = "alive" /\ provider' = "dead")
    BY <1>2, SeesSound DEF TerminateRunTree
  <2>5. Good([img[c] EXCEPT !.remaining = left])
    <3>1. LET q == [img[c] EXCEPT !.remaining = left] IN
            Keeps(img[c], q) /\ q.state = img[c].state /\ q.stage = img[c].stage
      BY <1>t, EditsKeep
    <3> QED BY <1>t, <2>4, <3>1 DEF Good, Keeps, Sound, Returned
  <2> QED BY <2>3, <2>5 DEF Adds
<1>3. CASE ApplyCancel(c)
  <2>1. provider' = provider /\ StopSound(img[c], provider)
    BY <1>3, <1>t DEF ApplyCancel
  <2>d. ASSUME NEW left \in SUBSET Steps, lease' = "held" => lease = "held"
        PROVE  Good(Dropped(img[c], "cleanup", left))
    <3>1. "cleanup" \in Stage BY DEF Stage
    <3> QED BY <1>t, <2>1, <2>d, <3>1, DroppedKeeps, GoodUnended
  <2>2. CASE Release(img[c].target, TRUE)
    <3>1. (lease' = "held" => lease = "held") /\ (img[c].target => lease' = "ended")
      BY <1>t, <2>2, ReleaseGives
    <3>2. ASSUME img[c].remaining = {}
          PROVE  Good([img[c] EXCEPT !.state = "cancelled", !.stage = "none"])
      <4>1. img[c].prov # "none" => provider' = "dead"
        BY <2>1, <3>2 DEF StopSound
      <4> QED BY <1>t, <3>1, <4>1, EditsKeep, GoodEnded DEF Ended
    <3>3. lease = "held" \/ lease' # "held"
      BY <3>1
    <3>4. Good(Dropped(img[c], "cleanup", img[c].remaining))
      BY <1>t, <2>d, <3>3
    <3>5. Good(Dropped(img[c], "cleanup", img[c].remaining \cup {"lease_release"}))
      <4>1. img[c].remaining \cup {"lease_release"} \in SUBSET Steps BY <1>t DEF Steps
      <4> QED BY <2>d, <3>3, <4>1
    <3> QED BY <1>3, <1>c, <1>t, <3>2, <3>4, <3>5, WriteAdds DEF ApplyCancel
  <2>3. CASE /\ Release(img[c].target, FALSE)
             /\ Write(c, Dropped(img[c], "cleanup", img[c].remaining \cup {"lease_release"}),
                      "idle")
    <3>1. lease' = "held" => lease = "held"
      BY <1>t, <2>3, ReleaseGives
    <3>2. img[c].remaining \cup {"lease_release"} \in SUBSET Steps
      BY <1>t DEF Steps
    <3> QED BY <1>c, <1>t, <2>3, <2>d, <3>1, <3>2, WriteAdds
  <2> QED BY <1>3, <2>2, <2>3 DEF ApplyCancel
<1> QED BY <1>1, <1>2, <1>3 DEF Cancel

LEMMA ServeAdds ==
  ASSUME IInv, Serve
  PROVE  Adds
<1>w. Worker \in Procs
  BY DEF Procs
<1>t. /\ RowsTyped /\ OthersTyped /\ img[Worker] \in Row /\ WorkerInHand
      /\ Sound(img[Worker], provider) /\ Returned(img[Worker], lease)
  BY <1>w, InvParts DEF Row
<1>b. pc[Worker] \in PreStart => provider = "unborn" /\ img[Worker].prov = "none"
  BY <1>t, InvParts DEF LaunchOnce, Sound
<1>u. pc[Worker] \in PreReserve => Unreserved(img[Worker])
  BY <1>w, InvParts, OwnCopy DEF ReservedOnce
<1>s. "request_validation" \in Stage /\ "reservation" \in Stage /\ "provider_start" \in Stage
  BY DEF Stage
<1>x. WorkerExits => Adds
  BY <1>w, <1>t, QuietAdds DEF WorkerExits
<1>g. ASSUME NEW r, WorkerGivesUp(r), Good(r) PROVE Adds
  BY <1>g, <1>w, <1>t, WriteAdds DEF WorkerGivesUp
<1>n. ASSUME NEW q, pc[Worker] \in PreReserve, Keeps(img[Worker], q), q.state \in {"failed", "idle", "reserved"}
      PROVE  Good(q)
  <2>1. q.prov = "none" /\ ~q.target /\ ~q.handedOver
    BY <1>n, <1>b, <1>u DEF PreStart, Unreserved, Keeps
  <2> QED BY <2>1 DEF Good, Sound, Returned
<1>1. CASE WorkerBoot
  BY <1>1, <1>w, <1>t, <1>x, QuietAdds DEF WorkerBoot
<1>2. CASE WorkerJoin
  BY <1>2, <1>w, AttachAdds DEF WorkerJoin
<1>3. CASE WorkerLoad
  BY <1>3, <1>w, <1>t, <1>x, QuietAdds DEF WorkerLoad
<1>4. CASE WorkerPreflight
  <2> DEFINE reserved == [img[Worker] EXCEPT !.state = "reserved"]
  <2>1. Good(Failed(img[Worker], "request_validation")) /\ Good(NotStarted(img[Worker]))
    BY <1>4, <1>t, <1>s, <1>n, FailedKeeps, NotStartedKeeps DEF WorkerPreflight, PreReserve
  <2>2. Keeps(img[Worker], reserved) /\ reserved.state = "reserved"
    BY <1>t, EditsKeep
  <2> HIDE DEF reserved
  <2>3. Good(reserved)
    BY <1>4, <1>n, <2>2 DEF WorkerPreflight, PreReserve
  <2> USE DEF reserved
  <2> QED BY <1>4, <1>w, <1>t, <1>g, <2>1, <2>3, WriteAdds DEF WorkerPreflight
<1>5. CASE WorkerReserve
  <2>1. Good(Failed(img[Worker], "reservation")) /\ Good(NotStarted(img[Worker]))
    BY <1>5, <1>t, <1>s, <1>n, FailedKeeps, NotStartedKeeps DEF WorkerReserve, PreReserve
  <2> QED BY <1>5, <1>w, <1>t, <1>g, <2>1, QuietAdds DEF WorkerReserve
<1>6. CASE WorkerHold
  <2>1. img[Worker].state = "reserved" /\ img[Worker].prov = "none"
    BY <1>6, <1>t, <1>b DEF WorkerHold, WorkerInHand, PreStart
  <2>2. Good([img[Worker] EXCEPT !.target = TRUE])
    BY <1>6, <1>t, <2>1 DEF WorkerHold, Good, Sound, Returned, Row, Ended
  <2> QED BY <1>6, <1>w, <1>t, <2>2, WriteAdds DEF WorkerHold
<1>7. CASE WorkerConfirm
  <2>1. img[Worker].prov = "none"
    BY <1>7, <1>b DEF WorkerConfirm, PreStart
  <2>2. \A released \in BOOLEAN :
          Release(TRUE, released) => (lease' = "held" => lease = "held")
    BY ReleaseGives
  <2>3. ASSUME lease' = "held" => lease = "held"
        PROVE  Good(Failed(img[Worker], "reservation"))
    BY <1>t, <1>s, <2>1, <2>3, FailedKeeps, GoodEnded DEF Ended
  <2> QED BY <1>7, <1>w, <1>t, <1>g, <2>2, <2>3, QuietAdds DEF WorkerConfirm
<1>8. CASE WorkerStart
  <2>1. img[Worker].prov = "none" /\ img[Worker].state = "reserved"
    BY <1>8, <1>b, <1>t DEF WorkerStart, PreStart, WorkerInHand
  <2>2. CASE provider' = "alive" /\ UNCHANGED <<row, lease>> /\ Go(Worker, "publish")
    <3>1. PICK identity \in IdentityRead :
            img' = [img EXCEPT ![Worker].state = "running", ![Worker].prov = identity]
      <4>1. ~\E r : WorkerGivesUp(r)
        BY <2>2, <1>w, InvParts, GoMoves, "publish" # "gone" DEF WorkerGivesUp, Write
      <4> QED BY <1>8, <4>1 DEF WorkerStart
    <3>2. img'[Worker] = [img[Worker] EXCEPT !.state = "running", !.prov = identity]
      BY <3>1, <1>w, <1>t DEF RowsTyped
    <3>3. Good(img'[Worker])
      BY <1>t, <2>2, <3>2 DEF Good, Sound, Returned, Row, Ended
    <3>4. Copies' \subseteq Copies \cup {img'[Worker]}
      BY <2>2, <3>1, <1>w, <1>t DEF Copies, RowsTyped
    <3> QED BY <3>3, <3>4 DEF Adds
  <2>3. ASSUME NEW released \in BOOLEAN, Release(TRUE, released),
               WorkerGivesUp(FailedOrDropped(img[Worker], "provider_start", released)),
               provider' = provider
        PROVE  Adds
    <3>1. (lease' = "held" => lease = "held") /\ (released => lease' = "ended")
      BY <2>3, ReleaseGives
    <3>2. CASE released
      <4>1. Good(FailedOrDropped(img[Worker], "provider_start", released))
        BY <1>t, <1>s, <2>1, <3>1, <3>2, FailedOrDroppedKeeps, GoodEnded DEF Ended
      <4> QED BY <2>3, <4>1, <1>g
    <3>3. CASE ~released
      <4>1. Good(FailedOrDropped(img[Worker], "provider_start", released))
        BY <1>t, <1>s, <2>3, <3>1, <3>3, FailedOrDroppedKeeps, GoodUnended
      <4> QED BY <2>3, <4>1, <1>g
    <3> QED BY <3>2, <3>3
  <2> QED BY <1>8, <2>2, <2>3 DEF WorkerStart
<1>9. CASE WorkerPublish
  BY <1>9, <1>w, <1>t, WriteCopies, OwnCopy DEF WorkerPublish, Adds
<1>10. CASE WorkerWatch
  BY <1>10, <1>w, <1>t, <1>x, QuietAdds DEF WorkerWatch
<1>11. CASE Judge(Worker)
  BY <1>11, <1>w, JudgeAdds
<1> QED BY <1>1, <1>2, <1>3, <1>4, <1>5, <1>6, <1>7, <1>8, <1>9, <1>10, <1>11 DEF Serve

LEMMA RestAdds ==
  ASSUME IInv, Environment \/ \E c \in Clients : PruneHistory(c) \/ ClientCrash(c)
  PROVE  Adds
<1>w. Worker \in Procs /\ RowsTyped /\ \A c \in Clients : c \in Procs
  BY InvParts DEF Procs
<1>1. CASE ProviderExit \/ RecordOutcome \/ LeaseEnds
  BY <1>1, <1>w, QuietAdds DEF ProviderExit, RecordOutcome, LeaseEnds
<1>2. CASE WorkerCrash
  BY <1>2, <1>w, QuietAdds DEF WorkerCrash, WorkerExits
<1>3. ASSUME NEW c \in Clients, PruneHistory(c) PROVE Adds
  BY <1>3 DEF PruneHistory, Adds, Copies
<1>4. ASSUME NEW c \in Clients, ClientCrash(c) PROVE Adds
  BY <1>4, <1>w, QuietAdds DEF ClientCrash
<1> QED BY <1>1, <1>2, <1>3, <1>4 DEF Environment

LEMMA NextAdds ==
  ASSUME IInv, Next
  PROVE  Adds
  BY LaunchAdds, ReconcileAdds, SweepAdds, CancelAdds, ServeAdds, RestAdds DEF Next

-----------------------------------------------------------------------------
(* How a step moves the provider and the lease.                            *)

LEMMA ProviderStep ==
  ASSUME IInv, Next
  PROVE  \/ provider' = provider
         \/ provider = "alive" /\ provider' = "dead"
         \/ provider = "unborn" /\ provider' = "alive" /\ pc[Worker] = "start"
<1>t. RowsTyped /\ LaunchOnce
  BY InvParts
<1>1. ASSUME NEW c \in Clients, Steady(c)
      PROVE  provider' = provider \/ (provider = "alive" /\ provider' = "dead")
  BY <1>1, <1>t, SteadyActs
<1>2. CASE Serve
  BY <1>2, <1>t, ServeActs DEF LaunchOnce, PreStart
<1>3. CASE Environment
  BY <1>3 DEF Environment, ProviderExit, RecordOutcome, LeaseEnds, WorkerCrash
<1>4. ASSUME NEW c \in Clients,
             QueueOneRun(c) \/ WorkerNotLaunched(c) \/ LaunchRunWorker(c)
             \/ PruneHistory(c) \/ ClientCrash(c)
      PROVE  provider' = provider
  BY <1>4 DEF QueueOneRun, WorkerNotLaunched, LaunchRunWorker, PruneHistory, ClientCrash
<1> QED BY <1>1, <1>2, <1>3, <1>4 DEF Next, Launch, Steady

LEMMA LeaseStep ==
  ASSUME IInv, Next
  PROVE  \/ lease' = "held" => lease = "held"
         \/ WorkerReserve
<1>r. \A targeted, released : Release(targeted, released) => (lease' = "held" => lease = "held")
  BY DEF Release
<1>j. ASSUME NEW p, Judge(p) PROVE lease' = "held" => lease = "held"
  BY <1>j, <1>r DEF Judge, JudgeQueued, JudgeUnstarted, RecoverUnverified,
     RecoverResumed, RecoverExited
<1>1. ASSUME NEW c \in Clients, Launch(c) PROVE lease' = lease
  BY <1>1 DEF Launch, QueueOneRun, WorkerNotLaunched, LaunchRunWorker, AttachLaunched,
     AttachSupervisor, WorkerShowedItself, DiscardRun, StartWaitEnds
<1>2. ASSUME NEW c \in Clients, Reconcile(c) PROVE lease' = "held" => lease = "held"
  BY <1>2, <1>j DEF Reconcile, ReadActive, CheckOwner, CheckWorker, CheckProcess
<1>3. ASSUME NEW c \in Clients, Sweep(c) PROVE lease' = "held" => lease = "held"
  BY <1>3, <1>r DEF Sweep, ReadDropped, SweepWorker, SweepLive, SweepCleanup
<1>4. ASSUME NEW c \in Clients, Cancel(c) PROVE lease' = "held" => lease = "held"
  BY <1>4, <1>r DEF Cancel, ReadForCancel, TerminateRunTree, ApplyCancel
<1>5. ASSUME NEW c \in Clients, PruneHistory(c) \/ ClientCrash(c) PROVE lease' = lease
  BY <1>5 DEF PruneHistory, ClientCrash
<1>6. ASSUME Serve, ~WorkerReserve PROVE lease' = "held" => lease = "held"
  BY <1>6, <1>r, <1>j DEF Serve, WorkerBoot, WorkerJoin, AttachSupervisor, WorkerLoad,
     WorkerPreflight, WorkerHold, WorkerConfirm, WorkerStart, WorkerPublish, WorkerWatch
<1>7. ASSUME Environment PROVE lease' = "held" => lease = "held"
  BY <1>7 DEF Environment, ProviderExit, RecordOutcome, LeaseEnds, WorkerCrash
<1> QED BY <1>1, <1>2, <1>3, <1>4, <1>5, <1>6, <1>7 DEF Next

-----------------------------------------------------------------------------
(* ProcessInv.                                                             *)

LEMMA CopiesSound ==
  ASSUME IInv, Next
  PROVE  \A r \in Copies' : Sound(r, provider')
<1>1. \A r \in Copies : Sound(r, provider)
  BY DEF IInv, ProcessInv
<1>2. \A r \in Copies : Sound(r, provider')
  BY <1>1, ProviderStep DEF Sound
<1>3. Sound(NoRow, provider')
  BY DEF Sound, NoRow
<1> QED BY <1>2, <1>3, NextAdds DEF Adds, Good

(* A control process is moved only by its own steps.                       *)
LEMMA Unmoved ==
  ASSUME IInv, Next, NEW c \in Clients
  PROVE  \/ Steady(c)
         \/ pc'[c] \in {"popen", "attach", "idle"}
         \/ pc'[c] = pc[c] /\ img'[c] = img[c]
<1>t. /\ RowsTyped /\ PcTyped
      /\ c \in Procs /\ Worker \in Procs /\ c # Worker
      /\ \A d \in Clients : d \in Procs /\ d # Worker
  BY InvParts, WorkerIsNoClient DEF Procs
<1>1. ASSUME NEW d \in Clients \ {c}, Steady(d) PROVE pc'[c] = pc[c] /\ img'[c] = img[c]
  BY <1>1, <1>t, SteadyActs, GoMoves DEF Alone
<1>2. CASE Serve
  BY <1>2, <1>t, ServeActs, GoMoves DEF Alone
<1>3. CASE Environment
  BY <1>3, <1>t, LeaveCopies, GoMoves
  DEF Environment, ProviderExit, RecordOutcome, LeaseEnds, WorkerCrash, WorkerExits
<1>4. ASSUME NEW d \in Clients, PruneHistory(d) PROVE pc'[c] = pc[c] /\ img'[c] = img[c]
  BY <1>4 DEF PruneHistory
<1>5. ASSUME NEW d \in Clients, QueueOneRun(d) \/ WorkerNotLaunched(d) \/ ClientCrash(d)
      PROVE  pc'[c] \in {"popen", "idle"} \/ (pc'[c] = pc[c] /\ img'[c] = img[c])
  <2>1. PICK next \in {"popen", "idle"} : Go(d, next) /\ Alone(d)
    BY <1>5, <1>t, WriteCopies, LeaveCopies
    DEF QueueOneRun, WorkerNotLaunched, ClientCrash, Alone
  <2>2. CASE d = c
    BY <2>1, <2>2, <1>t, GoMoves
  <2>3. CASE d # c
    BY <2>1, <2>3, <1>t, GoMoves DEF Alone
  <2> QED BY <2>2, <2>3
<1>6. ASSUME NEW d \in Clients, LaunchRunWorker(d)
      PROVE  pc'[c] \in {"attach", pc[c]} /\ img'[c] = img[c]
  <2>1. pc' = [[pc EXCEPT ![d] = "attach"] EXCEPT ![Worker] = "boot"] /\ img' = img
    BY <1>6 DEF LaunchRunWorker
  <2> QED BY <2>1, <1>t DEF PcTyped
<1> QED BY <1>1, <1>2, <1>3, <1>4, <1>5, <1>6 DEF Next, Launch, Steady

(* Where the steps of a control process take it.                           *)
LEMMA ClientNext ==
  ASSUME PcTyped, NEW c \in Clients
  PROVE  /\ \A next : Go(c, next) => pc'[c] = next
         /\ \A r, next : Write(c, r, next) => pc'[c] = next
         /\ \A next : Leave(c, next) \/ Read(c, next) => pc'[c] = next
<1>1. c \in Procs
  BY DEF Procs
<1> QED BY <1>1, GoMoves DEF Write, Leave, Read

(* Only the cancel's own steps reach or change its copy while it gives the *)
(* lease back.                                                             *)
LEMMA CancelSound ==
  ASSUME IInv, Next, NEW c \in Clients, pc'[c] = "giveBack"
  PROVE  StopSound(img'[c], provider')
<1>t. /\ RowsTyped /\ PcTyped /\ OthersTyped /\ img[c] \in Row
      /\ pc[c] = "giveBack" => StopSound(img[c], provider)
      /\ Sound(img[c], provider) /\ LaunchOnce
      /\ c \in Procs /\ Worker \in Procs /\ c # Worker
      /\ \A d \in Clients : d \in Procs
  BY InvParts, WorkerIsNoClient DEF Procs
<1>k. ASSUME pc[c] = "giveBack", img'[c] = img[c] PROVE StopSound(img'[c], provider')
  BY <1>k, <1>t, ProviderStep DEF StopSound, Sound, LaunchOnce, PreStart
<1>1. CASE TerminateRunTree(c)
  <2>1. PICK stopped \in BOOLEAN : Stopped(c, stopped)
    BY <1>1 DEF TerminateRunTree
  <2>2. img'[c] = [img[c] EXCEPT !.remaining = IF stopped THEN {} ELSE {"process_termination"}]
    BY <2>1, <1>t DEF Stopped, RowsTyped
  <2>3. img'[c].prov = img[c].prov
        /\ img'[c].remaining = IF stopped THEN {} ELSE {"process_termination"}
    BY <2>2, <1>t DEF Row
  <2>4. Stopped(c, TRUE) => stopped
    <3>1. Stopped(c, TRUE) => img'[c] = [img[c] EXCEPT !.remaining = {}]
      BY <1>t DEF Stopped, RowsTyped
    <3> QED BY <3>1, <2>3, <1>t DEF Row
  <2>5. Stopped(c, FALSE) => ~stopped
    <3>1. Stopped(c, FALSE) => img'[c] = [img[c] EXCEPT !.remaining = {"process_termination"}]
      BY <1>t DEF Stopped, RowsTyped
    <3> QED BY <3>1, <2>3, <1>t DEF Row
  <2>6. CASE stopped
    <3>1. img[c].prov = "none" \/ provider' = "dead"
      BY <1>1, <1>t, <2>5, <2>6, SeesSound
      DEF TerminateRunTree, Sound, OthersTyped, OsState
    <3> QED BY <3>1, <2>3 DEF StopSound
  <2>7. CASE ~stopped
    BY <2>3, <2>7 DEF StopSound
  <2> QED BY <2>6, <2>7
<1>2. ASSUME Steady(c), ~TerminateRunTree(c) PROVE FALSE
  <2>n. /\ \A next : Go(c, next) => pc'[c] = next
        /\ \A r, next : Write(c, r, next) => pc'[c] = next
        /\ \A next : Leave(c, next) \/ Read(c, next) => pc'[c] = next
    BY <1>t, ClientNext
  <2>1. CASE AttachLaunched(c) \/ WorkerShowedItself(c) \/ DiscardRun(c) \/ StartWaitEnds(c)
    BY <2>1, <2>n DEF AttachLaunched, AttachSupervisor, WorkerShowedItself,
       DiscardRun, StartWaitEnds
  <2>2. CASE Judge(c)
    BY <2>2, <2>n, <1>t, JudgeActs DEF Home
  <2>3. CASE ReadActive(c) \/ CheckOwner(c) \/ CheckWorker(c) \/ CheckProcess(c)
    BY <2>3, <2>n DEF ReadActive, CheckOwner, CheckWorker, CheckProcess
  <2>4. CASE Sweep(c)
    BY <2>4, <2>n DEF Sweep, ReadDropped, SweepWorker, SweepLive, SweepCleanup
  <2>5. CASE ReadForCancel(c) \/ ApplyCancel(c)
    BY <2>5, <2>n DEF ReadForCancel, ApplyCancel
  <2> QED BY <1>2, <2>1, <2>2, <2>3, <2>4, <2>5 DEF Steady, Reconcile, Cancel
<1> QED BY <1>1, <1>2, <1>k, Unmoved

LEMMA ProcessInvStep ==
  ASSUME IInv, Next
  PROVE  ProcessInv'
<1>1. LaunchOnce'
  BY InvParts, LaunchOnceStep
<1> QED BY <1>1, CopiesSound, CancelSound DEF ProcessInv

-----------------------------------------------------------------------------
(* LeaseInv.                                                               *)

LEMMA LeaseKept ==
  ASSUME IInv, Next, NEW r \in Copies
  PROVE  /\ Returned(r, lease) => Returned(r, lease')
         /\ DropSound(r, lease) => DropSound(r, lease')
<1>1. CASE lease' = "held" => lease = "held"
  BY <1>1 DEF Returned, DropSound
<1>2. CASE WorkerReserve
  <2>1. Unreserved(r)
    BY <1>2, InvParts DEF WorkerReserve, ReservedOnce, PreReserve
  <2> QED BY <2>1 DEF Unreserved, Returned, DropSound
<1> QED BY <1>1, <1>2, LeaseStep

LEMMA CopiesReturned ==
  ASSUME IInv, Next
  PROVE  \A r \in Copies' : Returned(r, lease')
<1>1. \A r \in Copies : Returned(r, lease)
  BY DEF IInv, LeaseInv
<1>2. Returned(NoRow, lease')
  BY DEF Returned, NoRow
<1> QED BY <1>1, <1>2, LeaseKept, NextAdds DEF Adds, Good

LEMMA ClientInHandStep ==
  ASSUME IInv, Next, NEW c \in Clients
  PROVE  ClientInHand(c)'
<1>t. /\ RowsTyped /\ PcTyped /\ ClientInHand(c) /\ c \in Procs
      /\ img[c] \in Copies /\ row \in Copies /\ DropSound(row, lease)
  BY InvParts DEF Procs, Copies
<1>d. /\ DropSound(row, lease')
      /\ DropSound(img[c], lease) => DropSound(img[c], lease')
  BY <1>t, LeaseKept
<1>n. /\ \A next : Go(c, next) => pc'[c] = next
      /\ \A r, next : Write(c, r, next) => pc'[c] = next
      /\ \A next : Leave(c, next) => pc'[c] = next
      /\ \A next : Read(c, next) => pc'[c] = next /\ img'[c] = row
  BY <1>t, ClientNext, ReadCopies
<1> DEFINE Held == {"owner", "worker", "process", "sweepWorker", "sweepProcess"}
<1>o. pc'[c] \notin Held => ClientInHand(c)'
  BY DEF ClientInHand
<1>1. CASE pc'[c] = pc[c] /\ img'[c] = img[c]
  BY <1>1, <1>t, <1>d DEF ClientInHand
<1>2. CASE AttachLaunched(c) \/ WorkerShowedItself(c) \/ DiscardRun(c)
  BY <1>2, <1>n, <1>o DEF AttachLaunched, AttachSupervisor, WorkerShowedItself, DiscardRun
<1>3. CASE StartWaitEnds(c) \/ ReadActive(c)
  BY <1>3, <1>n DEF StartWaitEnds, ReadActive, ClientInHand
<1>4. CASE CheckOwner(c)
  BY <1>4, <1>t, <1>n DEF CheckOwner, ClientInHand
<1>5. CASE CheckWorker(c)
  BY <1>5, <1>t, <1>n DEF CheckWorker, ClientInHand
<1>6. CASE CheckProcess(c)
  BY <1>6, <1>n, <1>o DEF CheckProcess
<1>7. CASE Judge(c)
  BY <1>7, <1>t, <1>n, <1>o, JudgeActs DEF Home
<1>8. CASE ReadDropped(c)
  BY <1>8, <1>n, <1>d DEF ReadDropped, ClientInHand
<1>9. CASE SweepWorker(c)
  BY <1>9, <1>t, <1>d, <1>n DEF SweepWorker, ClientInHand
<1>10. CASE SweepLive(c) \/ SweepCleanup(c)
  BY <1>10, <1>n, <1>o DEF SweepLive, SweepCleanup
<1>11. CASE ReadForCancel(c) \/ ApplyCancel(c)
  <2>1. \E r, next : next \in {"stop", "idle"} /\ (Read(c, next) \/ Write(c, r, next))
    BY <1>11 DEF ReadForCancel, ApplyCancel
  <2> QED BY <2>1, <1>n, <1>o
<1>12. CASE TerminateRunTree(c)
  <2>1. Go(c, "giveBack")
    BY <1>12 DEF TerminateRunTree, Stopped
  <2> QED BY <2>1, <1>n, <1>o
<1>13. CASE pc'[c] \in {"popen", "attach", "idle"}
  BY <1>13, <1>o
<1> QED BY <1>1, <1>2, <1>3, <1>4, <1>5, <1>6, <1>7, <1>8, <1>9, <1>10, <1>11, <1>12,
           <1>13, Unmoved DEF Steady, Reconcile, Sweep, Cancel

(* The worker's own copy: reserved from its first write until it starts a  *)
(* provider, running when it publishes that.                               *)
LEMMA WorkerInHandStep ==
  ASSUME IInv, Next
  PROVE  WorkerInHand'
<1>t. /\ RowsTyped /\ PcTyped /\ WorkerInHand /\ LaunchOnce
      /\ Worker \in Procs /\ img[Worker] \in Row
      /\ \A d \in Clients : d \in Procs /\ d # Worker
  BY InvParts, WorkerIsNoClient DEF Procs
<1> DEFINE Held == {"reserve", "hold", "confirm", "start", "publish"}
<1>o. pc'[Worker] \notin Held => WorkerInHand'
  BY DEF WorkerInHand
<1>k. pc'[Worker] = pc[Worker] /\ img'[Worker] = img[Worker] => WorkerInHand'
  BY <1>t DEF WorkerInHand
<1>n. /\ \A next : Go(Worker, next) => pc'[Worker] = next
      /\ \A r, next : Write(Worker, r, next) => pc'[Worker] = next
      /\ \A next : Leave(Worker, next) \/ Read(Worker, next) => pc'[Worker] = next
  BY <1>t, GoMoves DEF Write, Leave, Read
<1>g. /\ \A r : WorkerGivesUp(r) => pc'[Worker] = "gone"
      /\ WorkerExits => pc'[Worker] = "gone"
  BY <1>n DEF WorkerGivesUp, WorkerExits
<1>1. CASE WorkerBoot \/ WorkerJoin \/ WorkerLoad
  BY <1>1, <1>n, <1>g, <1>o DEF WorkerBoot, WorkerJoin, AttachSupervisor, WorkerLoad
<1>2. CASE WorkerPreflight
  <2>1. [img[Worker] EXCEPT !.state = "reserved"].state = "reserved"
    BY <1>t, EditsKeep
  <2>2. CASE Write(Worker, [img[Worker] EXCEPT !.state = "reserved"], "reserve")
    <3>1. img'[Worker] = [img[Worker] EXCEPT !.state = "reserved"]
      BY <2>2, <1>t DEF Write, RowsTyped
    <3> QED BY <3>1, <2>1, <2>2, <1>n DEF WorkerInHand
  <2> QED BY <1>2, <2>2, <1>g, <1>o DEF WorkerPreflight
<1>3. CASE WorkerReserve
  <2>1. Go(Worker, "hold") /\ UNCHANGED img => WorkerInHand'
    BY <1>3, <1>t, <1>n DEF WorkerReserve, WorkerInHand
  <2> QED BY <1>3, <2>1, <1>g, <1>o DEF WorkerReserve
<1>4. CASE WorkerHold
  <2>1. img'[Worker] = [img[Worker] EXCEPT !.target = TRUE] /\ pc'[Worker] = "confirm"
    BY <1>4, <1>t, <1>n DEF WorkerHold, Write, RowsTyped
  <2>2. img'[Worker].state = "reserved"
    BY <1>4, <2>1, <1>t DEF WorkerHold, WorkerInHand, Row
  <2> QED BY <2>1, <2>2 DEF WorkerInHand
<1>5. CASE WorkerConfirm
  <2>1. Go(Worker, "start") /\ UNCHANGED img => WorkerInHand'
    BY <1>5, <1>t, <1>n DEF WorkerConfirm, WorkerInHand
  <2> QED BY <1>5, <2>1, <1>g, <1>o DEF WorkerConfirm
<1>6. CASE WorkerStart
  <2>1. \A identity :
          Go(Worker, "publish")
            /\ img' = [img EXCEPT ![Worker].state = "running", ![Worker].prov = identity]
          => pc'[Worker] = "publish" /\ img'[Worker].state = "running"
    BY <1>t, <1>n DEF RowsTyped, Row
  <2>2. pc'[Worker] = "gone" \/ (pc'[Worker] = "publish" /\ img'[Worker].state = "running")
    BY <1>6, <2>1, <1>g DEF WorkerStart
  <2> QED BY <2>2 DEF WorkerInHand
<1>7. CASE WorkerPublish \/ WorkerWatch
  BY <1>7, <1>n, <1>g, <1>o DEF WorkerPublish, WorkerWatch
<1>8. CASE Judge(Worker)
  BY <1>8, <1>t, <1>n, <1>o, JudgeActs DEF Home
<1>9. CASE Environment
  BY <1>9, <1>k, <1>g, <1>o
  DEF Environment, ProviderExit, RecordOutcome, LeaseEnds, WorkerCrash
<1>10. ASSUME NEW c \in Clients, Steady(c) PROVE WorkerInHand'
  BY <1>10, <1>t, <1>k, SteadyActs, GoMoves DEF Alone
<1>11. ASSUME NEW c \in Clients, PruneHistory(c) PROVE WorkerInHand'
  BY <1>11, <1>k DEF PruneHistory
<1>12. ASSUME NEW c \in Clients, QueueOneRun(c) \/ WorkerNotLaunched(c) \/ ClientCrash(c)
       PROVE  WorkerInHand'
  <2>1. Alone(c) /\ \E next : Go(c, next)
    BY <1>12, <1>t, WriteCopies, LeaveCopies
    DEF QueueOneRun, WorkerNotLaunched, ClientCrash, Alone
  <2> QED BY <2>1, <1>t, <1>k, GoMoves DEF Alone
<1>13. ASSUME NEW c \in Clients, LaunchRunWorker(c) PROVE WorkerInHand'
  <2>1. pc'[Worker] = "boot"
    BY <1>13, <1>t DEF LaunchRunWorker, PcTyped
  <2> QED BY <2>1, <1>o
<1> QED BY <1>1, <1>2, <1>3, <1>4, <1>5, <1>6, <1>7, <1>8, <1>9, <1>10, <1>11, <1>12,
           <1>13 DEF Next, Launch, Steady, Serve

(* The stored row after a step: a dropped run without a lease_release step *)
(* is written only by a handler that gave its lease back.                  *)
LEMMA RowDropStep ==
  ASSUME IInv, Next
  PROVE  DropSound(row', lease')
<1>t. /\ RowsTyped /\ row \in Row /\ WorkerInHand /\ Worker \in Procs
      /\ \A p \in Procs : img[p] \in Row /\ img[p].target \in BOOLEAN
                          /\ img[p].remaining \in SUBSET Steps
      /\ \A c \in Clients : c \in Procs /\ ClientInHand(c)
  BY InvParts DEF Procs, Row
<1>s. /\ {} \in SUBSET Steps /\ {"lease_release"} \in SUBSET Steps /\ Steps \in SUBSET Steps
      /\ "provider_start" \in Stage /\ "recovery" \in Stage /\ "cleanup" \in Stage
      /\ "reservation" \in Stage /\ "request_validation" \in Stage
      /\ "lease_release" \in Steps
  BY DEF Steps, Stage
<1>k. row' = row => DropSound(row', lease')
  <2>1. row \in Copies /\ DropSound(row, lease)
    BY InvParts DEF Copies
  <2> QED BY <2>1, LeaseKept
<1>o. row'.state # "recovery_required" => DropSound(row', lease')
  BY DEF DropSound
<1>r. row'.remaining = {} \/ "lease_release" \in row'.remaining => DropSound(row', lease')
  BY DEF DropSound
<1>w. /\ \A p, r, next : Write(p, r, next) => row' = r
      /\ \A p, next : Leave(p, next) \/ Read(p, next) => row' = row
  BY DEF Write, Leave, Read
<1>f. ASSUME NEW p \in Procs, NEW stage \in Stage, NEW released \in BOOLEAN,
             row' = FailedOrDropped(img[p], stage, released)
      PROVE  DropSound(row', lease')
  BY <1>f, <1>t, <1>o, <1>r, FailedOrDroppedKeeps
<1>n. NoRow.state # "recovery_required"
  BY DEF NoRow
<1>a. \A p, next : AttachSupervisor(p, next) => DropSound(row', lease')
  <2>1. ASSUME NEW p, NEW next, AttachSupervisor(p, next), row.state = "queued"
        PROVE  row'.state = "queued"
    <3>1. \A i \in Record : [row EXCEPT !.sup = i].state = row.state
      BY <1>t, EditsKeep
    <3>2. IdentityRead \subseteq Record
      BY DEF IdentityRead, Record
    <3> QED BY <2>1, <3>1, <3>2 DEF AttachSupervisor
  <2> QED BY <2>1, <1>k, <1>o DEF AttachSupervisor
<1>j. ASSUME NEW p \in Procs, Judge(p) PROVE DropSound(row', lease')
  <2>1. CASE JudgeQueued(p)
    BY <2>1, <1>t, <1>s, <1>w, <1>o, FailedKeeps DEF JudgeQueued
  <2>2. CASE JudgeUnstarted(p)
    BY <2>2, <1>s, <1>w, <1>f DEF JudgeUnstarted
  <2>3. CASE RecoverUnverified(p)
    BY <2>3, <1>t, <1>s, <1>w, <1>r, DroppedKeeps DEF RecoverUnverified
  <2>4. CASE RecoverResumed(p)
    <3>1. Renewed(img[p], lease # "held").state = "running"
      BY <2>4, <1>t DEF RecoverResumed, JudgesStarted, Renewed, Row
    <3> QED BY <2>4, <3>1, <1>w, <1>o DEF RecoverResumed
  <2>5. CASE RecoverExited(p)
    <3>1. Exited(img[p]).state # "recovery_required"
      BY <1>j, <1>t, ExitedKeeps DEF Ended
    <3>2. Dropped(img[p], "cleanup", {"lease_release"}).remaining = {"lease_release"}
      BY <1>j, <1>t, <1>s, DroppedKeeps
    <3> QED BY <2>5, <3>1, <3>2, <1>w, <1>o, <1>r DEF RecoverExited
  <2> QED BY <1>j, <2>1, <2>2, <2>3, <2>4, <2>5 DEF Judge
<1>1. ASSUME NEW c \in Clients, Launch(c) PROVE DropSound(row', lease')
  <2>1. CASE QueueOneRun(c)
    <3>1. [NoRow EXCEPT !.state = "queued"].state = "queued" BY DEF NoRow
    <3> QED BY <2>1, <3>1, <1>w, <1>o DEF QueueOneRun
  <2>2. CASE WorkerNotLaunched(c)
    BY <2>2, <1>t, <1>s, <1>w, <1>o, FailedKeeps DEF WorkerNotLaunched
  <2>3. CASE AttachLaunched(c)
    BY <2>3, <1>a DEF AttachLaunched
  <2>4. CASE DiscardRun(c)
    BY <2>4, <1>n, <1>o DEF DiscardRun
  <2>5. CASE LaunchRunWorker(c) \/ WorkerShowedItself(c) \/ StartWaitEnds(c)
    BY <2>5, <1>k, <1>w DEF LaunchRunWorker, WorkerShowedItself, StartWaitEnds
  <2> QED BY <1>1, <2>1, <2>2, <2>3, <2>4, <2>5 DEF Launch
<1>2. ASSUME NEW c \in Clients, Reconcile(c) PROVE DropSound(row', lease')
  <2>1. CASE ReadActive(c) \/ CheckOwner(c)
    BY <2>1, <1>k, <1>w DEF ReadActive, CheckOwner
  <2>2. "lease_release" \in Dropped(img[c], "recovery", Steps).remaining
    BY <1>2, <1>t, <1>s, DroppedKeeps
  <2>3. CASE CheckWorker(c)
    BY <2>2, <2>3, <1>k, <1>r, <1>w DEF CheckWorker
  <2>4. CASE CheckProcess(c)
    <3>1. TakenOver(img[c]).state # "recovery_required"
      BY <2>4, <1>t, TakenOverKeeps DEF CheckProcess, ClientInHand, Active
    <3> QED BY <2>2, <2>4, <3>1, <1>k, <1>r, <1>o, <1>w DEF CheckProcess
  <2>5. CASE Judge(c)
    BY <2>5, <1>t, <1>j
  <2> QED BY <1>2, <2>1, <2>3, <2>4, <2>5 DEF Reconcile
<1>3. ASSUME NEW c \in Clients, Sweep(c) PROVE DropSound(row', lease')
  <2>1. CASE ReadDropped(c)
    BY <2>1, <1>k, <1>w DEF ReadDropped
  <2>2. Restored(img[c]).state = "running" /\ Restored(TakenOver(img[c])).state = "running"
    BY <1>3, <1>t, TakenOverTyped, RestoredKeeps
  <2>3. CASE SweepWorker(c) \/ SweepLive(c)
    BY <2>2, <2>3, <1>k, <1>o, <1>w DEF SweepWorker, SweepLive
  <2>4. CASE SweepCleanup(c)
    <3>1. Finished(img[c]).state # "recovery_required"
      BY <1>3, <1>t, FinishedKeeps DEF Ended
    <3>2. [img[c] EXCEPT !.remaining = {"lease_release"}].remaining = {"lease_release"}
      BY <1>3, <1>t DEF Row
    <3> QED BY <2>4, <3>1, <3>2, <1>o, <1>r, <1>w DEF SweepCleanup
  <2> QED BY <1>3, <2>1, <2>3, <2>4 DEF Sweep
<1>4. ASSUME NEW c \in Clients, Cancel(c) PROVE DropSound(row', lease')
  <2>1. CASE ReadForCancel(c) \/ TerminateRunTree(c)
    BY <2>1, <1>k, <1>w DEF ReadForCancel, TerminateRunTree
  <2>2. CASE ApplyCancel(c)
    <3>1. [img[c] EXCEPT !.state = "cancelled", !.stage = "none"].state = "cancelled"
      BY <1>4, <1>t, EditsKeep
    <3>2. CASE Release(img[c].target, TRUE)
               /\ Write(c, Dropped(img[c], "cleanup", img[c].remaining), "idle")
      <4>1. row'.target = img[c].target
        BY <1>4, <3>2, <1>t, <1>s, <1>w, DroppedKeeps DEF Keeps
      <4>2. img[c].target => lease' = "ended"
        BY <1>4, <3>2, <1>t, ReleaseGives
      <4> QED BY <4>1, <4>2 DEF DropSound
    <3>3. CASE Write(c, Dropped(img[c], "cleanup", img[c].remaining \cup {"lease_release"}),
                     "idle")
      <4>1. img[c].remaining \cup {"lease_release"} \in SUBSET Steps
        BY <1>4, <1>t, <1>s
      <4>2. "lease_release" \in row'.remaining
        BY <1>4, <3>3, <4>1, <1>t, <1>s, <1>w, DroppedKeeps
      <4> QED BY <4>2, <1>r
    <3> QED BY <2>2, <3>1, <3>2, <3>3, <1>o, <1>w DEF ApplyCancel
  <2> QED BY <1>4, <2>1, <2>2 DEF Cancel
<1>5. ASSUME NEW c \in Clients, PruneHistory(c) \/ ClientCrash(c) PROVE DropSound(row', lease')
  BY <1>5, <1>k, <1>n, <1>o, <1>w DEF PruneHistory, ClientCrash
<1>6. CASE Serve
  <2>g. /\ \A r : WorkerGivesUp(r) => row' = r
        /\ WorkerExits => row' = row
    BY <1>w DEF WorkerGivesUp, WorkerExits
  <2>1. CASE WorkerBoot \/ WorkerLoad \/ WorkerWatch
    BY <2>1, <2>g, <1>k, <1>w DEF WorkerBoot, WorkerLoad, WorkerWatch
  <2>2. CASE WorkerJoin
    BY <2>2, <1>a DEF WorkerJoin
  <2>3. /\ Failed(img[Worker], "request_validation").state = "failed"
        /\ Failed(img[Worker], "reservation").state = "failed"
        /\ NotStarted(img[Worker]).state = "idle"
    BY <1>t, <1>s, FailedKeeps, NotStartedKeeps
  <2>r. [img[Worker] EXCEPT !.state = "reserved"].state = "reserved"
    BY <1>t DEF Row
  <2>4. CASE WorkerPreflight \/ WorkerReserve \/ WorkerConfirm
    BY <2>3, <2>r, <2>4, <2>g, <1>k, <1>o, <1>w DEF WorkerPreflight, WorkerReserve, WorkerConfirm
  <2>5. CASE WorkerHold
    <3>1. [img[Worker] EXCEPT !.target = TRUE].state = "reserved"
      BY <2>5, <1>t DEF WorkerHold, WorkerInHand, Row
    <3> QED BY <2>5, <3>1, <1>o, <1>w DEF WorkerHold
  <2>6. CASE WorkerStart
    BY <2>6, <2>g, <1>t, <1>s, <1>k, <1>f DEF WorkerStart
  <2>7. CASE WorkerPublish
    BY <2>7, <1>t, <1>o, <1>w DEF WorkerPublish, WorkerInHand
  <2>8. CASE Judge(Worker)
    BY <2>8, <1>t, <1>j
  <2> QED BY <1>6, <2>1, <2>2, <2>4, <2>5, <2>6, <2>7, <2>8 DEF Serve
<1>7. CASE Environment
  BY <1>7, <1>k, <1>w
  DEF Environment, ProviderExit, RecordOutcome, LeaseEnds, WorkerCrash, WorkerExits
<1> QED BY <1>1, <1>2, <1>3, <1>4, <1>5, <1>6, <1>7 DEF Next

(* Before the reservation no copy names a target or a handed over lease.   *)
LEMMA ReservedOnceStep ==
  ASSUME IInv, Next
  PROVE  ReservedOnce'
<1> SUFFICES ASSUME pc'[Worker] \in PreReserve
             PROVE  lease' = "none" /\ \A r \in Copies' : Unreserved(r)
  BY DEF ReservedOnce
<1>t. /\ RowsTyped /\ PcTyped /\ LaunchOnce /\ row \in Row /\ Worker \in Procs
      /\ \A p \in Procs : img[p] \in Row /\ Sound(img[p], provider)
      /\ \A c \in Clients : c \in Procs /\ c # Worker
  BY InvParts, WorkerIsNoClient DEF Procs
<1>n. /\ \A next : Go(Worker, next) => pc'[Worker] = next
      /\ \A r, next : Write(Worker, r, next) => pc'[Worker] = next
      /\ \A next : Leave(Worker, next) \/ Read(Worker, next) => pc'[Worker] = next
  BY <1>t, GoMoves DEF Write, Leave, Read
<1>g. /\ \A r : ~WorkerGivesUp(r)
      /\ ~WorkerExits
  BY <1>n DEF WorkerGivesUp, WorkerExits, PreReserve
<1>m. Serve => \/ WorkerBoot \/ WorkerJoin \/ WorkerLoad
               \/ WorkerPreflight /\ Write(Worker, [img[Worker] EXCEPT !.state = "reserved"], "reserve")
  <2>1. ~WorkerReserve /\ ~WorkerHold /\ ~WorkerConfirm /\ ~WorkerStart
    BY <1>n, <1>g DEF WorkerReserve, WorkerHold, WorkerConfirm, WorkerStart, PreReserve
  <2>2. ~WorkerPublish /\ ~WorkerWatch
    BY <1>n, <1>g DEF WorkerPublish, WorkerWatch, PreReserve
  <2>3. ~Judge(Worker)
    BY <1>t, <1>n, JudgeActs DEF Home, PreReserve
  <2>4. WorkerPreflight => Write(Worker, [img[Worker] EXCEPT !.state = "reserved"], "reserve")
    BY <1>g DEF WorkerPreflight
  <2> QED BY <2>1, <2>2, <2>3, <2>4 DEF Serve
<1>p. pc[Worker] \in PreReserve
  <2>1. CASE Serve
    BY <1>m, <2>1 DEF WorkerBoot, WorkerJoin, WorkerLoad, WorkerPreflight, PreReserve
  <2>2. CASE Environment
    BY <2>2, <1>g DEF Environment, ProviderExit, RecordOutcome, LeaseEnds, WorkerCrash
  <2>3. ASSUME NEW c \in Clients, Steady(c) PROVE pc'[Worker] = pc[Worker]
    BY <2>3, <1>t, SteadyActs, GoMoves
  <2>4. ASSUME NEW c \in Clients, QueueOneRun(c) \/ WorkerNotLaunched(c) \/ ClientCrash(c)
        PROVE  pc'[Worker] = pc[Worker]
    <3>1. \E next : Go(c, next)
      BY <2>4, <1>t, WriteCopies, LeaveCopies DEF QueueOneRun, WorkerNotLaunched, ClientCrash
    <3> QED BY <3>1, <1>t, GoMoves
  <2>5. ASSUME NEW c \in Clients, PruneHistory(c) PROVE pc' = pc
    BY <2>5 DEF PruneHistory
  <2>6. ASSUME NEW c \in Clients, LaunchRunWorker(c) PROVE pc[Worker] \in PreReserve
    BY <2>6, <1>t DEF LaunchRunWorker, LaunchOnce, PreReserve
  <2> QED BY <2>1, <2>2, <2>3, <2>4, <2>5, <2>6 DEF Next, Launch, Steady
<1>u. /\ lease = "none" /\ provider = "unborn"
      /\ \A r \in Copies : Unreserved(r)
      /\ \A q \in Procs : /\ img[q].prov = "none"
                          /\ Unreserved(img[q])
  <2>1. lease = "none" /\ provider = "unborn" /\ \A r \in Copies : Unreserved(r)
    BY <1>p, <1>t, InvParts DEF ReservedOnce, LaunchOnce, PreStart
  <2> QED BY <2>1, <1>t, OwnCopy DEF Sound
<1>f. \A r, q : Unreserved(r) /\ Keeps(r, q) => Unreserved(q)
  BY DEF Unreserved, Keeps
<1>z. Unreserved(NoRow)
  BY DEF Unreserved, NoRow
<1>l. \A b \in BOOLEAN : Release(FALSE, b) => lease' = lease
  BY DEF Release
<1>k. Copies' \subseteq Copies \cup {NoRow} => \A r \in Copies' : Unreserved(r)
  BY <1>u, <1>z
<1>w. ASSUME NEW p \in Procs, NEW q, NEW next, Write(p, q, next), Keeps(img[p], q)
      PROVE  \A r \in Copies' : Unreserved(r)
  <2>1. Unreserved(q)
    BY <1>w, <1>u, <1>f
  <2> QED BY <1>w, <2>1, <1>t, <1>u, <1>z, WriteCopies
<1>q. ASSUME NEW p \in Procs,
             UNCHANGED <<row, img>> \/ \E next : Read(p, next) \/ Leave(p, next)
      PROVE  \A r \in Copies' : Unreserved(r)
  BY <1>q, <1>t, <1>k, ReadCopies, LeaveCopies, KeepCopies
<1>a. ASSUME NEW p \in Procs, NEW next, AttachSupervisor(p, next)
      PROVE  lease' = lease /\ \A r \in Copies' : Unreserved(r)
  <2>1. Unreserved(row)
    BY <1>u DEF Copies
  <2>2. \A i \in Record : Unreserved([row EXCEPT !.sup = i])
    BY <2>1, <1>t DEF Unreserved, Row
  <2>3. IdentityRead \subseteq Record
    BY DEF IdentityRead, Record
  <2>4. Unreserved(row')
    BY <1>a, <2>1, <2>2, <2>3 DEF AttachSupervisor
  <2> QED BY <1>a, <2>4, <1>u DEF AttachSupervisor, Copies
<1>s. /\ "provider_start" \in Stage /\ "recovery" \in Stage /\ "cleanup" \in Stage
      /\ Steps \in SUBSET Steps /\ {"lease_release"} \in SUBSET Steps
  BY DEF Stage, Steps
<1>j. ASSUME NEW p \in Procs, Judge(p)
      PROVE  lease' = lease /\ \A r \in Copies' : Unreserved(r)
  <2>1. CASE JudgeQueued(p)
    BY <2>1, <1>w, <1>t, <1>s, FailedKeeps DEF JudgeQueued
  <2>2. CASE JudgeUnstarted(p)
    <3>1. PICK released \in BOOLEAN :
            /\ Release(FALSE, released)
            /\ Write(p, FailedOrDropped(img[p], "provider_start", released), Home(p))
      <4>1. img[p].target = FALSE
        BY <1>u, <1>t DEF Unreserved, Row
      <4> QED BY <2>2, <4>1 DEF JudgeUnstarted
    <3> QED BY <3>1, <1>l, <1>w, <1>t, <1>s, FailedOrDroppedKeeps
  <2>3. ~JudgesStarted(p)
    BY <1>u DEF JudgesStarted
  <2> QED BY <1>j, <2>1, <2>2, <2>3 DEF Judge, RecoverUnverified, RecoverResumed, RecoverExited
<1>1. ASSUME NEW c \in Clients, Launch(c)
      PROVE  lease' = lease /\ \A r \in Copies' : Unreserved(r)
  <2>1. CASE QueueOneRun(c)
    <3>1. Unreserved([NoRow EXCEPT !.state = "queued"])
      BY DEF Unreserved, NoRow
    <3> QED BY <2>1, <3>1, <1>t, <1>u, <1>z, WriteCopies DEF QueueOneRun
  <2>2. CASE WorkerNotLaunched(c)
    BY <2>2, <1>w, <1>t, <1>s, FailedKeeps DEF WorkerNotLaunched
  <2>3. CASE AttachLaunched(c)
    BY <2>3, <1>t, <1>a DEF AttachLaunched
  <2>4. CASE DiscardRun(c)
    <3>1. Copies' \subseteq Copies \cup {NoRow}
      BY <2>4, <1>t DEF DiscardRun, Copies, RowsTyped
    <3> QED BY <2>4, <3>1, <1>k DEF DiscardRun
  <2>5. CASE WorkerShowedItself(c)
    <3>1. Copies' \subseteq Copies \cup {NoRow}
      BY <2>5, <1>t DEF WorkerShowedItself, Copies, RowsTyped
    <3> QED BY <2>5, <3>1, <1>k DEF WorkerShowedItself
  <2>6. CASE LaunchRunWorker(c) \/ StartWaitEnds(c)
    BY <2>6, <1>t, <1>q DEF LaunchRunWorker, StartWaitEnds
  <2> QED BY <1>1, <2>1, <2>2, <2>3, <2>4, <2>5, <2>6 DEF Launch
<1>2. ASSUME NEW c \in Clients, Reconcile(c)
      PROVE  lease' = lease /\ \A r \in Copies' : Unreserved(r)
  <2>1. CASE ReadActive(c) \/ CheckOwner(c)
    BY <2>1, <1>t, <1>q DEF ReadActive, CheckOwner
  <2>2. CASE CheckWorker(c)
    BY <2>2, <1>t, <1>q, <1>w, <1>s, DroppedKeeps DEF CheckWorker
  <2>3. CASE CheckProcess(c)
    BY <2>3, <1>t, <1>q, <1>w, <1>s, DroppedKeeps, TakenOverKeeps DEF CheckProcess
  <2>4. CASE Judge(c)
    BY <2>4, <1>t, <1>j
  <2> QED BY <1>2, <2>1, <2>2, <2>3, <2>4 DEF Reconcile
<1>3. ASSUME NEW c \in Clients, Sweep(c)
      PROVE  lease' = lease /\ \A r \in Copies' : Unreserved(r)
  <2>1. CASE ReadDropped(c)
    BY <2>1, <1>t, <1>q DEF ReadDropped
  <2>2. Keeps(img[c], Restored(img[c])) /\ Keeps(img[c], Restored(TakenOver(img[c])))
    BY <1>3, <1>t, TakenOverTyped, TakenOverKeeps, RestoredKeeps DEF Keeps
  <2>3. CASE SweepWorker(c) \/ SweepLive(c)
    BY <2>2, <2>3, <1>t, <1>q, <1>w DEF SweepWorker, SweepLive
  <2>4. CASE SweepCleanup(c)
    <3>1. (img[c].target /\ "lease_release" \in img[c].remaining) = FALSE
      BY <1>3, <1>t, <1>u DEF Unreserved
    <3>2. Keeps(img[c], Finished(img[c]))
      BY <1>3, <1>t, FinishedKeeps
    <3>3. Keeps(img[c], [img[c] EXCEPT !.remaining = {"lease_release"}])
      BY <1>3, <1>t DEF Keeps, Row
    <3> QED BY <2>4, <3>1, <3>2, <3>3, <1>t, <1>l, <1>w DEF SweepCleanup
  <2> QED BY <1>3, <2>1, <2>3, <2>4 DEF Sweep
<1>4. ASSUME NEW c \in Clients, Cancel(c)
      PROVE  lease' = lease /\ \A r \in Copies' : Unreserved(r)
  <2>1. CASE ReadForCancel(c)
    BY <2>1, <1>t, <1>q DEF ReadForCancel
  <2>2. CASE TerminateRunTree(c)
    <3>1. PICK left \in SUBSET Steps : img' = [img EXCEPT ![c].remaining = left]
      BY <2>2 DEF TerminateRunTree, Stopped, Steps
    <3>2. Unreserved([img[c] EXCEPT !.remaining = left])
      BY <1>4, <1>t, <1>u DEF Unreserved, Row
    <3> QED BY <2>2, <3>1, <3>2, <1>t, <1>u DEF TerminateRunTree, Copies, RowsTyped
  <2>3. CASE ApplyCancel(c)
    <3>1. img[c].target = FALSE /\ img[c].remaining \in SUBSET Steps
          /\ img[c].remaining \cup {"lease_release"} \in SUBSET Steps
      BY <1>4, <1>t, <1>u DEF Unreserved, Row, Steps
    <3>2. /\ Keeps(img[c], Dropped(img[c], "cleanup", img[c].remaining))
          /\ Keeps(img[c], Dropped(img[c], "cleanup", img[c].remaining \cup {"lease_release"}))
      BY <1>4, <3>1, <1>t, <1>s, DroppedKeeps
    <3>3. Keeps(img[c], [img[c] EXCEPT !.state = "cancelled", !.stage = "none"])
      BY <1>4, <1>t DEF Keeps, Row
    <3>4. lease' = lease
      BY <2>3, <3>1, <1>l DEF ApplyCancel
    <3> QED BY <2>3, <3>2, <3>3, <3>4, <1>t, <1>w DEF ApplyCancel
  <2> QED BY <1>4, <2>1, <2>2, <2>3 DEF Cancel
<1>5. ASSUME NEW c \in Clients, PruneHistory(c) \/ ClientCrash(c)
      PROVE  lease' = lease /\ \A r \in Copies' : Unreserved(r)
  <2>1. CASE PruneHistory(c)
    BY <2>1, <1>k DEF PruneHistory, Copies
  <2>2. CASE ClientCrash(c)
    BY <2>2, <1>t, <1>q DEF ClientCrash
  <2> QED BY <1>5, <2>1, <2>2
<1>6. CASE Serve
  <2>1. CASE WorkerBoot \/ WorkerLoad
    <3>1. UNCHANGED <<row, img>> \/ Read(Worker, "preflight")
      BY <2>1, <1>g DEF WorkerBoot, WorkerLoad
    <3>2. lease' = lease
      BY <2>1 DEF WorkerBoot, WorkerLoad
    <3> QED BY <3>1, <3>2, <1>t, <1>u, <1>q
  <2>2. CASE WorkerJoin
    BY <2>2, <1>t, <1>a, <1>u DEF WorkerJoin
  <2>3. CASE WorkerPreflight /\ Write(Worker, [img[Worker] EXCEPT !.state = "reserved"], "reserve")
    <3>1. Keeps(img[Worker], [img[Worker] EXCEPT !.state = "reserved"])
      BY <1>t DEF Keeps, Row
    <3>2. lease' = lease
      BY <2>3 DEF WorkerPreflight
    <3> QED BY <2>3, <3>1, <3>2, <1>t, <1>u, <1>w
  <2> QED BY <1>6, <1>m, <2>1, <2>2, <2>3
<1>7. CASE Environment
  BY <1>7, <1>t, <1>u, <1>q, <1>g
  DEF Environment, ProviderExit, RecordOutcome, LeaseEnds, WorkerCrash
<1> QED BY <1>1, <1>2, <1>3, <1>4, <1>5, <1>6, <1>7, <1>u DEF Next

LEMMA LeaseInvStep ==
  ASSUME IInv, Next
  PROVE  LeaseInv'
  BY ReservedOnceStep, CopiesReturned, RowDropStep, WorkerInHandStep, ClientInHandStep
  DEF LeaseInv

-----------------------------------------------------------------------------
(* The invariant and what follows from it.                                 *)

LEMMA InvInit == Init => IInv
<1> SUFFICES ASSUME Init PROVE IInv
  OBVIOUS
<1>w. Worker \in Procs /\ \A c \in Clients : c \in Procs /\ c # Worker
  BY WorkerIsNoClient DEF Procs
<1>1. Copies = {NoRow} /\ \A p \in Procs : img[p] = NoRow
  BY <1>w DEF Init, Copies
<1>2. pc[Worker] = "unborn" /\ \A c \in Clients : pc[c] = "idle"
  BY <1>w DEF Init
<1>3. ProcessInv
  BY <1>1, <1>2 DEF Init, ProcessInv, LaunchOnce, Sound, NoRow
<1>4. LeaseInv
  <2>1. /\ \A r \in Copies : Unreserved(r) /\ Returned(r, lease)
        /\ lease = "none" /\ row = NoRow
    BY <1>1 DEF Init, Returned, Unreserved, NoRow
  <2>2. DropSound(row, lease)
    BY <2>1 DEF DropSound
  <2>3. WorkerInHand /\ \A c \in Clients : ClientInHand(c)
    BY <1>2 DEF WorkerInHand, ClientInHand
  <2> QED BY <2>1, <2>2, <2>3 DEF LeaseInv, ReservedOnce
<1> QED BY <1>3, <1>4, TypeInit DEF IInv

LEMMA InvStep == IInv /\ [Next]_vars => IInv'
<1> SUFFICES ASSUME IInv, [Next]_vars PROVE IInv'
  OBVIOUS
<1>1. CASE Next
  <2>1. TypeOK'
    BY <1>1, TypeStep DEF IInv
  <2> QED BY <1>1, <2>1, ProcessInvStep, LeaseInvStep DEF IInv
<1>2. CASE UNCHANGED vars
  BY <1>2 DEF vars, IInv, TypeOK, ProcessInv, LaunchOnce, Copies, LeaseInv, ReservedOnce,
     WorkerInHand, ClientInHand
<1> QED BY <1>1, <1>2

(* Every copy of the row, stored or held by a handler, is sound for the    *)
(* provider and for the lease: the invariant holds of the specification.   *)
THEOREM InvCorrect == Spec => []IInv
  BY InvInit, InvStep, PTL DEF Spec

(* No handler ends a run whose provider is alive, however old the copy it  *)
(* writes back.                                                            *)
THEOREM EndedIsDead == Spec => []EndedRunIsDead
<1>1. IInv => EndedRunIsDead
  BY DEF IInv, ProcessInv, Copies, Sound, EndedRunIsDead
<1> QED BY <1>1, InvCorrect, PTL

(* A run ends with its lease returned, unless it failed while reserving.   *)
THEOREM EndedReturnedLease == Spec => []EndedRunReturnedLease
<1>1. IInv => EndedRunReturnedLease
  BY DEF IInv, LeaseInv, Copies, Returned, EndedRunReturnedLease
<1> QED BY <1>1, InvCorrect, PTL

(* leaseHandedOver is never set on a run whose lease is still its own.     *)
THEOREM HandedOverIsGone == Spec => []HandedOverLeaseIsGone
<1>1. IInv => HandedOverLeaseIsGone
  BY DEF IInv, LeaseInv, Copies, Returned, HandedOverLeaseIsGone
<1> QED BY <1>1, InvCorrect, PTL

-----------------------------------------------------------------------------
(* While every process can be observed.                                    *)

LEMMA ObservablySeen ==
  ASSUME Observable
  PROVE  /\ IdentityRead = {"identified"}
         /\ \A process, record : "unknown" \notin Sees(process, record)
         /\ \A process : process = "alive" => Sees(process, "identified") = {"same"}
  BY DEF Observable, IdentityRead, Sees

(* The worker is created once and stays gone.                              *)
LEMMA SupervisorStep ==
  ASSUME IInv, Next
  PROVE  /\ supervisor # "unborn" => supervisor' # "unborn"
         /\ supervisor = "dead" => supervisor' = "dead"
<1>t. RowsTyped /\ LaunchOnce
  BY InvParts
<1>1. ASSUME NEW c \in Clients, Steady(c) PROVE supervisor' = supervisor
  BY <1>1, <1>t, SteadyActs
<1>2. CASE Serve
  BY <1>2, <1>t, ServeActs
<1>3. CASE Environment
  BY <1>3 DEF Environment, ProviderExit, RecordOutcome, LeaseEnds, WorkerCrash, WorkerExits
<1>4. ASSUME NEW c \in Clients, LaunchRunWorker(c) PROVE supervisor = "unborn" /\ supervisor' = "alive"
  BY <1>4, <1>t DEF LaunchRunWorker, LaunchOnce
<1>5. ASSUME NEW c \in Clients,
             QueueOneRun(c) \/ WorkerNotLaunched(c) \/ PruneHistory(c) \/ ClientCrash(c)
      PROVE  supervisor' \in {supervisor, "dead"}
  BY <1>5 DEF QueueOneRun, WorkerNotLaunched, PruneHistory, ClientCrash
<1> QED BY <1>1, <1>2, <1>3, <1>4, <1>5 DEF Next, Launch, Steady

(* What the handlers' edits say of the worker.                             *)
LEMMA EditsKeepWorker ==
  \A r \in Row, s \in Stage, left \in SUBSET Steps, b \in BOOLEAN :
    /\ Failed(r, s).sup = r.sup
    /\ Dropped(r, s, left).sup = r.sup
    /\ FailedOrDropped(r, s, b).sup = r.sup
    /\ TakenOver(r).sup = "none"
    /\ Restored(r).sup = r.sup
    /\ NotStarted(r).sup = r.sup
    /\ Finished(r).sup = r.sup
    /\ Exited(r).sup = r.sup
  BY DEF Row, Failed, Dropped, FailedOrDropped, TakenOver, Restored, NotStarted, Finished,
     Exited

LEMMA RenewedKeeps ==
  \A r \in Row, b \in BOOLEAN :
    LET q == Renewed(r, b) IN
      q.prov = r.prov /\ q.sup = r.sup /\ q.state = r.state
  BY DEF Renewed, Row

LEMMA CopyEditsKeepWorker ==
  \A r \in Row :
    /\ \A left \in SUBSET Steps : [r EXCEPT !.remaining = left].sup = r.sup
    /\ [r EXCEPT !.state = "cancelled", !.stage = "none"].sup = r.sup
    /\ [r EXCEPT !.state = "reserved"].sup = r.sup
    /\ LET q == [r EXCEPT !.target = TRUE] IN
         q.sup = r.sup /\ q.prov = r.prov /\ q.state = r.state
  BY DEF Row

(* What a step may add to the copies, as far as the processes go.          *)
Shown(r) == Observed(r, provider', supervisor')

Shows == \A r \in Copies' : r \in Copies \cup {NoRow} \/ Shown(r)

LEMMA ShownFrom ==
  ASSUME NEW r, NEW q, q.prov = r.prov, q.sup \in {r.sup, "none"},
         Observed(r, provider, supervisor),
         provider' = provider \/ provider' = "dead",
         supervisor # "unborn" => supervisor' # "unborn",
         r.prov # "none" /\ provider' = "alive" /\ q.state = "recovery_required"
           => q.remaining # {}
  PROVE  Shown(q)
  BY DEF Shown, Observed

LEMMA WriteShows ==
  ASSUME RowsTyped, NEW p \in Procs, NEW r, NEW next, Write(p, r, next), Shown(r)
  PROVE  Shows
  BY WriteCopies DEF Shows

LEMMA QuietShows ==
  ASSUME RowsTyped, NEW p \in Procs,
         UNCHANGED <<row, img>> \/ \E next : Read(p, next) \/ Leave(p, next)
  PROVE  Shows
  BY ReadCopies, LeaveCopies, KeepCopies DEF Shows

LEMMA ObservedParts ==
  ASSUME ObservedInv
  PROVE  /\ IInv /\ OwnersGone
         /\ Observed(row, provider, supervisor)
         /\ \A p \in Procs : Observed(img[p], provider, supervisor)
  BY DEF ObservedInv, Copies

LEMMA AttachShows ==
  ASSUME ObservedInv, Observable, NEW p \in Procs, NEW next, AttachSupervisor(p, next),
         supervisor # "unborn"
  PROVE  Shows
<1>1. row \in Row /\ Observed(row, provider, supervisor)
  BY ObservedParts, InvParts
<1>2. "identified" \in Record
  BY DEF Record
<1>3. Shown([row EXCEPT !.sup = "identified"])
  <2>1. provider' = provider /\ supervisor' = supervisor
    BY DEF AttachSupervisor
  <2> QED BY <1>1, <1>2, <2>1, EditsKeep DEF Shown, Observed, Keeps
<1>4. row' = row \/ Shown(row')
  BY <1>3, ObservablySeen DEF AttachSupervisor
<1> QED BY <1>4 DEF AttachSupervisor, Shows, Copies

LEMMA LaunchShows ==
  ASSUME ObservedInv, Observable, NEW c \in Clients, Launch(c)
  PROVE  Shows
<1>c. c \in Procs
  BY DEF Procs
<1>t. /\ IInv /\ RowsTyped /\ LaunchOnce /\ img[c] \in Row /\ Sound(img[c], provider)
      /\ Observed(img[c], provider, supervisor)
  BY <1>c, ObservedParts, InvParts
<1>1. CASE QueueOneRun(c)
  <2>1. Shown([NoRow EXCEPT !.state = "queued"])
    BY DEF Shown, Observed, NoRow
  <2> QED BY <1>1, <1>c, <1>t, <2>1, WriteShows DEF QueueOneRun
<1>2. CASE WorkerNotLaunched(c)
  <2>1. Shown(Failed(img[c], "provider_start"))
    <3>1. "provider_start" \in Stage BY DEF Stage
    <3>2. /\ Failed(img[c], "provider_start").prov = img[c].prov
          /\ Failed(img[c], "provider_start").state = "failed"
      BY <1>t, <3>1, FailedKeeps DEF Keeps
    <3>3. Failed(img[c], "provider_start").sup = img[c].sup
      BY <1>t, <3>1, EditsKeepWorker, {} \in SUBSET Steps, TRUE \in BOOLEAN
    <3>4. provider' = provider /\ supervisor' = "dead"
      BY <1>2 DEF WorkerNotLaunched
    <3> QED BY <1>t, <3>2, <3>3, <3>4, ShownFrom
  <2> QED BY <1>2, <1>c, <1>t, <2>1, WriteShows DEF WorkerNotLaunched
<1>3. CASE LaunchRunWorker(c)
  BY <1>3, <1>c, <1>t, QuietShows DEF LaunchRunWorker
<1>4. CASE AttachLaunched(c)
  BY <1>4, <1>c, AttachShows, ObservedParts DEF AttachLaunched, OwnersGone
<1>5. CASE WorkerShowedItself(c)
  BY <1>5, <1>t DEF WorkerShowedItself, Shows, Copies, RowsTyped
<1>6. CASE DiscardRun(c)
  BY <1>6, <1>t DEF DiscardRun, Shows, Copies, RowsTyped
<1>7. CASE StartWaitEnds(c)
  BY <1>7, <1>c, <1>t, QuietShows DEF StartWaitEnds
<1> QED BY <1>1, <1>2, <1>3, <1>4, <1>5, <1>6, <1>7 DEF Launch

LEMMA JudgeShows ==
  ASSUME ObservedInv, Observable, NEW p \in Procs, Judge(p)
  PROVE  Shows
<1>t. /\ RowsTyped /\ img[p] \in Row
      /\ Observed(img[p], provider, supervisor)
      /\ Judge(p) => UNCHANGED <<supervisor, provider>>
  BY ObservedParts, InvParts, JudgeActs
<1>s. /\ {} \in SUBSET Steps /\ {"lease_release"} \in SUBSET Steps
      /\ "provider_start" \in Stage /\ "recovery" \in Stage /\ "cleanup" \in Stage
      /\ TRUE \in BOOLEAN
  BY DEF Steps, Stage
<1>w. ASSUME NEW q, Write(p, q, Home(p)), q.prov = img[p].prov, q.sup = img[p].sup,
             q.state = "recovery_required" /\ provider = "alive" /\ img[p].prov # "none"
               => q.remaining # {}
      PROVE  Shows
  <2>1. Shown(q)
    BY <1>w, <1>t, ShownFrom
  <2> QED BY <1>w, <1>t, <2>1, WriteShows
<1>1. CASE JudgeQueued(p)
  <2> DEFINE q == Failed(img[p], "provider_start")
  <2>1. q.prov = img[p].prov /\ q.state = "failed"
    BY <1>t, <1>s, FailedKeeps DEF Keeps
  <2>2. q.sup = img[p].sup
    BY <1>t, <1>s, EditsKeepWorker
  <2>3. Write(p, q, Home(p))
    BY <1>1 DEF JudgeQueued
  <2> HIDE DEF q
  <2> QED BY <1>w, <2>1, <2>2, <2>3
<1>2. CASE JudgeUnstarted(p)
  <2>1. PICK released \in BOOLEAN :
          Write(p, FailedOrDropped(img[p], "provider_start", released), Home(p))
    BY <1>2 DEF JudgeUnstarted
  <2> DEFINE q == FailedOrDropped(img[p], "provider_start", released)
  <2>2. /\ q.prov = img[p].prov
        /\ released => q.state = "failed"
        /\ ~released => q.remaining = {"lease_release"}
    BY <1>t, <1>s, FailedOrDroppedKeeps DEF Keeps
  <2>3. q.sup = img[p].sup
    BY <1>t, <1>s, EditsKeepWorker
  <2>4. Write(p, q, Home(p))
    BY <2>1
  <2> HIDE DEF q
  <2> QED BY <1>w, <2>2, <2>3, <2>4
<1>d. ASSUME NEW s \in Stage, NEW left \in SUBSET Steps,
             Write(p, Dropped(img[p], s, left), Home(p)),
             left # {} \/ provider # "alive"
      PROVE  Shows
  <2> DEFINE q == Dropped(img[p], s, left)
  <2>1. q.prov = img[p].prov /\ q.remaining = left
    BY <1>t, DroppedKeeps DEF Keeps
  <2>2. q.sup = img[p].sup
    BY <1>t, <1>s, EditsKeepWorker
  <2>3. Write(p, q, Home(p))
    BY <1>d
  <2> HIDE DEF q
  <2> QED BY <1>w, <1>d, <2>1, <2>2, <2>3
<1>3. CASE RecoverUnverified(p)
  <2>1. provider # "alive"
    BY <1>3, <1>t, ObservablySeen DEF RecoverUnverified, JudgesStarted, Observed
  <2> QED BY <1>3, <1>d, <1>s, <2>1 DEF RecoverUnverified
<1>4. CASE RecoverResumed(p)
  <2>1. img[p].state = "running"
    BY <1>4 DEF RecoverResumed, JudgesStarted
  <2> DEFINE q == Renewed(img[p], lease # "held")
  <2>2. q.prov = img[p].prov /\ q.sup = img[p].sup /\ q.state = "running"
    BY <1>t, <2>1, RenewedKeeps
  <2>3. Write(p, q, Home(p))
    BY <1>4 DEF RecoverResumed
  <2> HIDE DEF q
  <2> QED BY <1>w, <2>2, <2>3
<1>5. CASE RecoverExited(p)
  <2>1. CASE Write(p, Exited(img[p]), Home(p))
    <3> DEFINE q == Exited(img[p])
    <3>1. q.prov = img[p].prov /\ q.state # "recovery_required"
      BY <1>t, ExitedKeeps DEF Keeps, Ended
    <3>2. q.sup = img[p].sup
      BY <1>t, <1>s, EditsKeepWorker
    <3>3. Write(p, q, Home(p))
      BY <2>1
    <3> HIDE DEF q
    <3> QED BY <1>w, <3>1, <3>2, <3>3
  <2>2. CASE Write(p, Dropped(img[p], "cleanup", {"lease_release"}), Home(p))
    BY <2>2, <1>d, <1>s
  <2> QED BY <1>5, <2>1, <2>2 DEF RecoverExited
<1> QED BY <1>1, <1>2, <1>3, <1>4, <1>5 DEF Judge

LEMMA ReconcileShows ==
  ASSUME ObservedInv, Observable, NEW c \in Clients, Reconcile(c)
  PROVE  Shows
<1>c. c \in Procs
  BY DEF Procs
<1>t. /\ RowsTyped /\ img[c] \in Row /\ ClientInHand(c)
      /\ Observed(img[c], provider, supervisor)
  BY <1>c, ObservedParts, InvParts
<1>d. ASSUME UNCHANGED <<supervisor, provider>> PROVE Shown(Dropped(img[c], "recovery", Steps))
  <2> DEFINE q == Dropped(img[c], "recovery", Steps)
  <2>s. "recovery" \in Stage /\ Steps \in SUBSET Steps /\ Steps # {} /\ TRUE \in BOOLEAN
    BY DEF Stage, Steps
  <2>1. q.prov = img[c].prov /\ q.remaining = Steps
    BY <1>t, <2>s, DroppedKeeps DEF Keeps
  <2>2. q.sup = img[c].sup
    BY <1>t, <2>s, EditsKeepWorker
  <2> HIDE DEF q
  <2>3. Shown(q)
    BY <1>t, <1>d, <2>s, <2>1, <2>2, ShownFrom
  <2> QED BY <2>3 DEF q
<1>1. CASE ReadActive(c) \/ CheckOwner(c)
  BY <1>1, <1>c, <1>t, QuietShows DEF ReadActive, CheckOwner
<1>2. CASE CheckWorker(c)
  BY <1>2, <1>c, <1>t, <1>d, QuietShows, WriteShows DEF CheckWorker
<1>3. CASE CheckProcess(c)
  <2>1. Shown(TakenOver(img[c]))
    <3>1. UNCHANGED <<supervisor, provider>> /\ img[c].state # "recovery_required"
      BY <1>3, <1>t DEF CheckProcess, ClientInHand, Active
    <3> DEFINE q == TakenOver(img[c])
    <3>2. q.prov = img[c].prov /\ q.state = img[c].state
      BY <1>t, TakenOverKeeps DEF Keeps
    <3>3. q.sup = "none"
      BY <1>t, EditsKeepWorker, {} \in SUBSET Steps, "none" \in Stage, TRUE \in BOOLEAN DEF Stage
    <3> HIDE DEF q
    <3>4. Shown(q)
      BY <1>t, <3>1, <3>2, <3>3, ShownFrom
    <3> QED BY <3>4 DEF q
  <2> QED BY <1>3, <1>c, <1>t, <1>d, <2>1, QuietShows, WriteShows DEF CheckProcess
<1>4. CASE Judge(c)
  BY <1>4, <1>c, JudgeShows
<1> QED BY <1>1, <1>2, <1>3, <1>4 DEF Reconcile

LEMMA SweepShows ==
  ASSUME ObservedInv, NEW c \in Clients, Sweep(c)
  PROVE  Shows
<1>c. c \in Procs
  BY DEF Procs
<1>t. /\ RowsTyped /\ img[c] \in Row
      /\ Observed(img[c], provider, supervisor)
      /\ Sweep(c) => UNCHANGED <<supervisor, provider>>
  BY <1>c, ObservedParts, InvParts
  DEF Sweep, ReadDropped, SweepWorker, SweepLive, SweepCleanup
<1>s. {} \in SUBSET Steps /\ {"lease_release"} \in SUBSET Steps /\ "none" \in Stage /\ TRUE \in BOOLEAN
  BY DEF Steps, Stage
<1>w. ASSUME NEW q, Write(c, q, "idle"), q.prov = img[c].prov, q.sup \in {img[c].sup, "none"},
             q.state # "recovery_required" \/ q.remaining # {}
      PROVE  Shows
  <2>1. Shown(q)
    BY <1>w, <1>t, ShownFrom
  <2> QED BY <1>w, <1>c, <1>t, <2>1, WriteShows
<1>r. ASSUME Write(c, Restored(img[c]), "idle") \/ Write(c, Restored(TakenOver(img[c])), "idle")
      PROVE  Shows
  <2>1. ASSUME NEW r \in Row, r.prov = img[c].prov, r.sup \in {img[c].sup, "none"},
               Write(c, Restored(r), "idle")
        PROVE  Shows
    <3> DEFINE q == Restored(r)
    <3>1. q.prov = r.prov /\ q.state = "running"
      BY <2>1, RestoredKeeps DEF Keeps
    <3>2. q.sup = r.sup
      BY <2>1, <1>s, EditsKeepWorker
    <3>3. Write(c, q, "idle")
      BY <2>1
    <3> HIDE DEF q
    <3> QED BY <1>w, <2>1, <3>1, <3>2, <3>3
  <2>2. TakenOver(img[c]) \in Row /\ TakenOver(img[c]).prov = img[c].prov
    BY <1>t, TakenOverTyped, TakenOverKeeps DEF Keeps
  <2>3. TakenOver(img[c]).sup = "none"
    BY <1>t, <1>s, EditsKeepWorker
  <2> QED BY <1>r, <1>t, <2>1, <2>2, <2>3
<1>1. CASE ReadDropped(c)
  BY <1>1, <1>c, <1>t, QuietShows DEF ReadDropped
<1>2. CASE SweepWorker(c)
  BY <1>2, <1>c, <1>t, <1>r, QuietShows DEF SweepWorker
<1>3. CASE SweepLive(c)
  BY <1>3, <1>c, <1>t, <1>r, QuietShows DEF SweepLive
<1>4. CASE SweepCleanup(c)
  <2>1. CASE Write(c, Finished(img[c]), "idle")
    <3> DEFINE q == Finished(img[c])
    <3>1. q.prov = img[c].prov /\ q.state # "recovery_required"
      BY <1>t, FinishedKeeps DEF Keeps, Ended
    <3>2. q.sup = img[c].sup
      BY <1>t, <1>s, EditsKeepWorker
    <3>3. Write(c, q, "idle")
      BY <2>1
    <3> HIDE DEF q
    <3> QED BY <1>w, <3>1, <3>2, <3>3
  <2>2. CASE Write(c, [img[c] EXCEPT !.remaining = {"lease_release"}], "idle")
    <3> DEFINE q == [img[c] EXCEPT !.remaining = {"lease_release"}]
    <3>1. q.prov = img[c].prov /\ q.remaining = {"lease_release"}
      BY <1>t, <1>s, EditsKeep DEF Keeps
    <3>2. q.sup = img[c].sup
      BY <1>t, <1>s, CopyEditsKeepWorker
    <3>3. Write(c, q, "idle")
      BY <2>2
    <3> HIDE DEF q
    <3> QED BY <1>w, <3>1, <3>2, <3>3
  <2> QED BY <1>4, <2>1, <2>2 DEF SweepCleanup
<1> QED BY <1>1, <1>2, <1>3, <1>4 DEF Sweep

LEMMA CancelShows ==
  ASSUME ObservedInv, Observable, NEW c \in Clients, Cancel(c)
  PROVE  Shows
<1>c. c \in Procs
  BY DEF Procs
<1>t. /\ RowsTyped /\ img[c] \in Row /\ img[c].remaining \in SUBSET Steps
      /\ Observed(img[c], provider, supervisor)
  BY <1>c, ObservedParts, InvParts DEF Row
<1>1. CASE ReadForCancel(c)
  BY <1>1, <1>c, <1>t, QuietShows DEF ReadForCancel
<1>2. CASE TerminateRunTree(c)
  <2>0. /\ supervisor' = supervisor /\ row' = row
        /\ provider' = provider \/ provider' = "dead"
    BY <1>2 DEF TerminateRunTree
  <2>1. ASSUME NEW left \in SUBSET Steps, img' = [img EXCEPT ![c].remaining = left],
               img[c].prov = "none" \/ provider' # "alive" \/ left # {}
        PROVE  Shows
    <3> DEFINE q == [img[c] EXCEPT !.remaining = left]
    <3>1. q.prov = img[c].prov /\ q.remaining = left
      BY <1>t, EditsKeep DEF Keeps
    <3>2. q.sup = img[c].sup
      BY <1>t, CopyEditsKeepWorker
    <3>3. Copies' \subseteq Copies \cup {q}
      BY <2>0, <2>1, <1>c, <1>t DEF Copies, RowsTyped
    <3> HIDE DEF q
    <3>4. Shown(q)
      BY <1>t, <2>0, <2>1, <3>1, <3>2, ShownFrom
    <3> QED BY <3>3, <3>4 DEF Shows
  <2>2. {} \in SUBSET Steps /\ {"process_termination"} \in SUBSET Steps
    BY DEF Steps
  <2>3. Stopped(c, FALSE) => Shows
    BY <2>1, <2>2 DEF Stopped
  <2>4. Stopped(c, TRUE) /\ (img[c].prov = "none" \/ provider' # "alive") => Shows
    BY <2>1, <2>2 DEF Stopped
  <2>5. \/ Stopped(c, FALSE)
        \/ Stopped(c, TRUE) /\ (img[c].prov = "none" \/ provider' # "alive")
    BY <1>2, SeesSound DEF TerminateRunTree
  <2> QED BY <2>3, <2>4, <2>5
<1>3. CASE ApplyCancel(c)
  <2>0. UNCHANGED <<supervisor, provider>>
    BY <1>3 DEF ApplyCancel
  <2>1. ASSUME NEW left \in SUBSET Steps, left # {},
               Write(c, Dropped(img[c], "cleanup", left), "idle")
        PROVE  Shows
    <3> DEFINE q == Dropped(img[c], "cleanup", left)
    <3>s. "cleanup" \in Stage /\ TRUE \in BOOLEAN
      BY DEF Stage
    <3>1. q.prov = img[c].prov /\ q.remaining = left
      BY <1>t, <3>s, DroppedKeeps DEF Keeps
    <3>2. q.sup = img[c].sup
      BY <1>t, <3>s, EditsKeepWorker
    <3>3. Write(c, q, "idle")
      BY <2>1
    <3> HIDE DEF q
    <3>4. Shown(q)
      BY <1>t, <2>0, <2>1, <3>1, <3>2, ShownFrom
    <3> QED BY <1>c, <1>t, <3>3, <3>4, WriteShows
  <2>2. CASE Write(c, [img[c] EXCEPT !.state = "cancelled", !.stage = "none"], "idle")
    <3> DEFINE q == [img[c] EXCEPT !.state = "cancelled", !.stage = "none"]
    <3>1. q.prov = img[c].prov /\ q.state = "cancelled"
      BY <1>t, EditsKeep DEF Keeps
    <3>2. q.sup = img[c].sup
      BY <1>t, CopyEditsKeepWorker
    <3>3. Write(c, q, "idle")
      BY <2>2
    <3> HIDE DEF q
    <3>4. Shown(q)
      BY <1>t, <2>0, <3>1, <3>2, ShownFrom
    <3> QED BY <1>c, <1>t, <3>3, <3>4, WriteShows
  <2>3. img[c].remaining \cup {"lease_release"} \in SUBSET Steps
    BY <1>t DEF Steps
  <2> QED BY <1>3, <1>t, <2>1, <2>2, <2>3 DEF ApplyCancel
<1> QED BY <1>1, <1>2, <1>3 DEF Cancel

LEMMA ServeShows ==
  ASSUME ObservedInv, Observable, Serve
  PROVE  Shows
<1>w. Worker \in Procs
  BY DEF Procs
<1>t. /\ RowsTyped /\ PcTyped /\ img[Worker] \in Row /\ WorkerInHand /\ LaunchOnce
      /\ Observed(img[Worker], provider, supervisor)
  BY <1>w, ObservedParts, InvParts
<1>s. /\ "request_validation" \in Stage /\ "reservation" \in Stage
      /\ "provider_start" \in Stage /\ {} \in SUBSET Steps /\ TRUE \in BOOLEAN
  BY DEF Stage
<1>x. WorkerExits => Shows
  BY <1>w, <1>t, QuietShows DEF WorkerExits
<1>q. ASSUME NEW q, q.prov = img[Worker].prov, q.sup = img[Worker].sup,
             q.state = "recovery_required" => q.remaining # {},
             provider' = provider, supervisor' \in {supervisor, "dead"}
      PROVE  Shown(q)
  BY <1>q, <1>t, ShownFrom
<1>g. ASSUME NEW q, WorkerGivesUp(q), provider' = provider,
             q.prov = img[Worker].prov, q.sup = img[Worker].sup,
             q.state = "recovery_required" => q.remaining # {}
      PROVE  Shows
  <2>1. supervisor' = "dead" /\ Write(Worker, q, "gone")
    BY <1>g DEF WorkerGivesUp
  <2>2. Shown(q)
    BY <1>g, <1>q, <2>1
  <2> QED BY <1>w, <1>t, <2>1, <2>2, WriteShows
<1>f. ASSUME NEW s \in Stage, WorkerGivesUp(Failed(img[Worker], s)), provider' = provider
      PROVE  Shows
  <2> DEFINE q == Failed(img[Worker], s)
  <2>1. q.prov = img[Worker].prov /\ q.state = "failed"
    BY <1>t, FailedKeeps DEF Keeps
  <2>2. q.sup = img[Worker].sup
    BY <1>t, <1>s, EditsKeepWorker
  <2>3. WorkerGivesUp(q)
    BY <1>f
  <2> HIDE DEF q
  <2> QED BY <1>f, <1>g, <2>1, <2>2, <2>3
<1>n. ASSUME WorkerGivesUp(NotStarted(img[Worker])), provider' = provider
      PROVE  Shows
  <2> DEFINE q == NotStarted(img[Worker])
  <2>1. q.prov = img[Worker].prov /\ q.state = "idle"
    BY <1>t, NotStartedKeeps DEF Keeps
  <2>2. q.sup = img[Worker].sup
    BY <1>t, <1>s, EditsKeepWorker
  <2>3. WorkerGivesUp(q)
    BY <1>n
  <2> HIDE DEF q
  <2> QED BY <1>n, <1>g, <2>1, <2>2, <2>3
<1>1. CASE WorkerBoot
  BY <1>1, <1>w, <1>t, <1>x, QuietShows DEF WorkerBoot
<1>2. CASE WorkerJoin
  <2>1. supervisor # "unborn"
    BY <1>2, <1>t DEF WorkerJoin, LaunchOnce
  <2> QED BY <1>2, <1>w, <2>1, AttachShows DEF WorkerJoin
<1>3. CASE WorkerLoad
  BY <1>3, <1>w, <1>t, <1>x, QuietShows DEF WorkerLoad
<1>4. CASE WorkerPreflight
  <2>1. ASSUME Write(Worker, [img[Worker] EXCEPT !.state = "reserved"], "reserve"),
               UNCHANGED <<supervisor, provider>>
        PROVE  Shows
    <3> DEFINE q == [img[Worker] EXCEPT !.state = "reserved"]
    <3>1. q.prov = img[Worker].prov /\ q.state = "reserved"
      BY <1>t, EditsKeep DEF Keeps
    <3>2. q.sup = img[Worker].sup
      BY <1>t, CopyEditsKeepWorker
    <3>3. Write(Worker, q, "reserve")
      BY <2>1
    <3> HIDE DEF q
    <3>4. Shown(q)
      BY <1>q, <2>1, <3>1, <3>2
    <3> QED BY <1>w, <1>t, <3>3, <3>4, WriteShows
  <2> QED BY <1>4, <1>s, <1>f, <1>n, <2>1 DEF WorkerPreflight
<1>5. CASE WorkerReserve
  BY <1>5, <1>w, <1>t, <1>s, <1>f, <1>n, QuietShows DEF WorkerReserve
<1>6. CASE WorkerHold
  <2>1. img[Worker].state = "reserved" /\ UNCHANGED <<supervisor, provider>>
    BY <1>6, <1>t DEF WorkerHold, WorkerInHand
  <2> DEFINE q == [img[Worker] EXCEPT !.target = TRUE]
  <2>2. q.prov = img[Worker].prov /\ q.sup = img[Worker].sup /\ q.state = "reserved"
    BY <1>t, <2>1, CopyEditsKeepWorker
  <2>3. Write(Worker, q, "confirm")
    BY <1>6 DEF WorkerHold
  <2> HIDE DEF q
  <2>4. Shown(q)
    BY <1>q, <2>1, <2>2
  <2> QED BY <1>w, <1>t, <2>3, <2>4, WriteShows
<1>7. CASE WorkerConfirm
  BY <1>7, <1>w, <1>t, <1>s, <1>f, QuietShows DEF WorkerConfirm
<1>8. CASE WorkerStart
  <2>1. CASE provider' = "alive" /\ UNCHANGED <<row, supervisor>> /\ Go(Worker, "publish")
    <3>1. PICK identity \in IdentityRead :
            img' = [img EXCEPT ![Worker].state = "running", ![Worker].prov = identity]
      <4>1. ~\E r : WorkerGivesUp(r)
        BY <2>1, <1>w, <1>t, GoMoves, "publish" # "gone" DEF WorkerGivesUp, Write
      <4> QED BY <1>8, <4>1 DEF WorkerStart
    <3>2. img'[Worker] = [img[Worker] EXCEPT !.state = "running", !.prov = "identified"]
      BY <3>1, <1>w, <1>t, ObservablySeen DEF RowsTyped
    <3>3. Shown(img'[Worker])
      BY <1>t, <2>1, <3>2 DEF Shown, Observed, Row
    <3>4. Copies' \subseteq Copies \cup {img'[Worker]}
      BY <2>1, <3>1, <1>w, <1>t DEF Copies, RowsTyped
    <3> QED BY <3>3, <3>4 DEF Shows
  <2>2. ASSUME NEW released \in BOOLEAN, provider' = provider,
               WorkerGivesUp(FailedOrDropped(img[Worker], "provider_start", released))
        PROVE  Shows
    <3> DEFINE q == FailedOrDropped(img[Worker], "provider_start", released)
    <3>1. /\ q.prov = img[Worker].prov
          /\ released => q.state = "failed"
          /\ ~released => q.remaining = {"lease_release"}
      BY <1>t, <1>s, FailedOrDroppedKeeps DEF Keeps
    <3>2. q.sup = img[Worker].sup
      BY <1>t, <1>s, EditsKeepWorker
    <3>3. WorkerGivesUp(q)
      BY <2>2
    <3> HIDE DEF q
    <3> QED BY <2>2, <1>g, <3>1, <3>2, <3>3
  <2> QED BY <1>8, <2>1, <2>2 DEF WorkerStart
<1>9. CASE WorkerPublish
  BY <1>9, <1>w, <1>t, WriteCopies, OwnCopy DEF WorkerPublish, Shows
<1>10. CASE WorkerWatch
  BY <1>10, <1>w, <1>t, <1>x, QuietShows DEF WorkerWatch
<1>11. CASE Judge(Worker)
  BY <1>11, <1>w, JudgeShows
<1> QED BY <1>1, <1>2, <1>3, <1>4, <1>5, <1>6, <1>7, <1>8, <1>9, <1>10, <1>11 DEF Serve

LEMMA RestShows ==
  ASSUME ObservedInv, Environment \/ \E c \in Clients : PruneHistory(c) \/ ClientCrash(c)
  PROVE  Shows
<1>w. Worker \in Procs /\ RowsTyped /\ \A c \in Clients : c \in Procs
  BY ObservedParts, InvParts DEF Procs
<1>1. CASE ProviderExit \/ RecordOutcome \/ LeaseEnds
  BY <1>1, <1>w, QuietShows DEF ProviderExit, RecordOutcome, LeaseEnds
<1>2. CASE WorkerCrash
  BY <1>2, <1>w, QuietShows DEF WorkerCrash, WorkerExits
<1>3. ASSUME NEW c \in Clients, PruneHistory(c) PROVE Shows
  BY <1>3 DEF PruneHistory, Shows, Copies
<1>4. ASSUME NEW c \in Clients, ClientCrash(c) PROVE Shows
  BY <1>4, <1>w, QuietShows DEF ClientCrash
<1> QED BY <1>1, <1>2, <1>3, <1>4 DEF Environment

LEMMA CopiesObserved ==
  ASSUME ObservedInv, Observable, Next
  PROVE  \A r \in Copies' : Observed(r, provider', supervisor')
<1>1. IInv /\ \A r \in Copies : Observed(r, provider, supervisor) /\ Sound(r, provider)
  BY DEF ObservedInv, IInv, ProcessInv
<1>2. supervisor # "unborn" => supervisor' # "unborn"
  BY <1>1, SupervisorStep
<1>3. \A r \in Copies : Observed(r, provider', supervisor')
  BY <1>1, <1>2, ProviderStep DEF Observed, Sound
<1>4. Observed(NoRow, provider', supervisor')
  BY DEF Observed, NoRow
<1>5. Shows
  BY LaunchShows, ReconcileShows, SweepShows, CancelShows, ServeShows, RestShows DEF Next
<1> QED BY <1>3, <1>4, <1>5 DEF Shows, Shown

(* A control process goes past a recorded worker only where it saw it gone.*)
LEMMA OwnersGoneStep ==
  ASSUME ObservedInv, Observable, Next, NEW c \in Clients
  PROVE  /\ pc'[c] = "attach" => supervisor' # "unborn"
         /\ pc'[c] \in {"worker", "process", "judge"} /\ img'[c].sup = "identified"
              => supervisor' = "dead"
<1> DEFINE Past == {"worker", "process", "judge"}
<1>t. /\ IInv /\ RowsTyped /\ PcTyped /\ OthersTyped /\ LaunchOnce
      /\ c \in Procs /\ Worker \in Procs /\ c # Worker /\ img[c] \in Row
      /\ Observed(img[c], provider, supervisor)
      /\ pc[c] = "attach" => supervisor # "unborn"
      /\ pc[c] \in Past /\ img[c].sup = "identified" => supervisor = "dead"
  BY ObservedParts, InvParts, WorkerIsNoClient DEF Procs, OwnersGone
<1>s. /\ supervisor # "unborn" => supervisor' # "unborn"
      /\ supervisor = "dead" => supervisor' = "dead"
  BY <1>t, SupervisorStep
<1>n. /\ \A next : Go(c, next) => pc'[c] = next
      /\ \A r, next : Write(c, r, next) => pc'[c] = next
      /\ \A next : Leave(c, next) \/ Read(c, next) => pc'[c] = next
  BY <1>t, ClientNext
<1>o. pc'[c] \notin Past \cup {"attach"} =>
        /\ pc'[c] = "attach" => supervisor' # "unborn"
        /\ pc'[c] \in Past /\ img'[c].sup = "identified" => supervisor' = "dead"
  OBVIOUS
<1>1. CASE pc'[c] = pc[c] /\ img'[c] = img[c]
  BY <1>1, <1>t, <1>s
<1>2. CASE AttachLaunched(c) \/ WorkerShowedItself(c) \/ DiscardRun(c) \/ StartWaitEnds(c)
  BY <1>2, <1>n
  DEF AttachLaunched, AttachSupervisor, WorkerShowedItself, DiscardRun, StartWaitEnds
<1>3. CASE ReadActive(c)
  BY <1>3, <1>n DEF ReadActive
<1>4. CASE CheckOwner(c)
  <2>1. CASE img[c].sup # "identified"
    BY <1>4, <2>1, <1>n DEF CheckOwner
  <2>2. CASE img[c].sup = "identified"
    <3>1. PICK seen \in Sees(supervisor, "identified") :
            IF seen = "same" THEN Leave(c, "idle")
                             ELSE Go(c, "worker") /\ UNCHANGED <<row, img>>
      BY <1>4, <2>2 DEF CheckOwner
    <3>2. CASE seen = "same"
      BY <3>1, <3>2, <1>n
    <3>3. CASE seen # "same"
      <4>1. supervisor = "dead"
        BY <3>1, <3>3, <2>2, <1>t, ObservablySeen DEF Observed, OthersTyped, OsState
      <4> QED BY <3>1, <3>3, <4>1, <1>n, <1>s
    <3> QED BY <3>2, <3>3
  <2> QED BY <2>1, <2>2
<1>5. CASE CheckWorker(c)
  BY <1>5, <1>t, <1>s, <1>n DEF CheckWorker
<1>6. CASE CheckProcess(c)
  <2>1. CASE Write(c, TakenOver(img[c]), "judge")
    <3>1. img'[c] = TakenOver(img[c]) /\ pc'[c] = "judge"
      BY <2>1, <1>t, <1>n DEF Write, RowsTyped
    <3>2. img'[c].sup = "none"
      BY <3>1, <1>t, EditsKeepWorker, {} \in SUBSET Steps, "none" \in Stage, TRUE \in BOOLEAN DEF Stage
    <3> QED BY <3>1, <3>2
  <2> QED BY <1>6, <1>t, <1>s, <1>n, <2>1 DEF CheckProcess
<1>7. CASE Judge(c)
  BY <1>7, <1>t, <1>n, JudgeActs DEF Home
<1>8. CASE Sweep(c)
  BY <1>8, <1>n DEF Sweep, ReadDropped, SweepWorker, SweepLive, SweepCleanup
<1>9. CASE Cancel(c)
  <2>1. \E r, next : /\ next \in {"stop", "giveBack", "idle"}
                     /\ Read(c, next) \/ Go(c, next) \/ Write(c, r, next)
    BY <1>9 DEF Cancel, ReadForCancel, TerminateRunTree, Stopped, ApplyCancel
  <2> QED BY <2>1, <1>n
<1>10. CASE pc'[c] \in {"popen", "idle"}
  BY <1>10
<1>11. CASE pc'[c] = "attach"
  <2>1. pc[c] = "attach" \/ \E d \in Clients : LaunchRunWorker(d)
    <3>a. ASSUME NEW d \in Clients, QueueOneRun(d) \/ WorkerNotLaunched(d) \/ ClientCrash(d)
          PROVE  pc'[c] # "attach" \/ pc[c] = "attach"
      <4>1. PICK next \in {"popen", "idle"} : Go(d, next)
        BY <3>a DEF QueueOneRun, WorkerNotLaunched, ClientCrash, Write, Leave
      <4> QED BY <4>1, <1>t DEF Go, PcTyped
    <3>b. ASSUME NEW d \in Clients, Steady(d), d # c PROVE pc'[c] = pc[c]
      <4>1. \E next : Go(d, next)
        BY <3>b, <1>t, SteadyActs
      <4> QED BY <4>1, <3>b, <1>t DEF Go, PcTyped
    <3>c. CASE Serve
      <4>1. \E next : Go(Worker, next)
        BY <3>c, <1>t, ServeActs
      <4> QED BY <1>11, <4>1, <1>t, GoMoves
    <3>d. CASE Environment
      <4>1. pc' = pc \/ Go(Worker, "gone")
        BY <3>d DEF Environment, ProviderExit, RecordOutcome, LeaseEnds, WorkerCrash, WorkerExits, Leave
      <4> QED BY <1>11, <4>1, <1>t, GoMoves
    <3>e. ASSUME NEW d \in Clients, PruneHistory(d) PROVE pc'[c] = pc[c]
      BY <3>e DEF PruneHistory
    <3>f. ASSUME Steady(c) PROVE pc'[c] # "attach"
      <4>1. CASE AttachLaunched(c) \/ WorkerShowedItself(c) \/ DiscardRun(c) \/ StartWaitEnds(c)
        BY <4>1, <1>n
        DEF AttachLaunched, AttachSupervisor, WorkerShowedItself, DiscardRun, StartWaitEnds
      <4>2. CASE Judge(c)
        BY <4>2, <1>t, <1>n, JudgeActs DEF Home
      <4>3. CASE ReadActive(c) \/ CheckOwner(c) \/ CheckWorker(c) \/ CheckProcess(c)
        BY <4>3, <1>n DEF ReadActive, CheckOwner, CheckWorker, CheckProcess
      <4>4. CASE Sweep(c)
        BY <4>4, <1>n DEF Sweep, ReadDropped, SweepWorker, SweepLive, SweepCleanup
      <4>5. CASE Cancel(c)
        <5>1. \E r, next : /\ next \in {"stop", "giveBack", "idle"}
                           /\ Read(c, next) \/ Go(c, next) \/ Write(c, r, next)
          BY <4>5 DEF Cancel, ReadForCancel, TerminateRunTree, Stopped, ApplyCancel
        <5> QED BY <5>1, <1>n
      <4> QED BY <3>f, <4>1, <4>2, <4>3, <4>4, <4>5 DEF Steady, Reconcile
    <3> QED BY <1>11, <3>a, <3>b, <3>c, <3>d, <3>e, <3>f DEF Next, Launch, Steady
  <2>2. supervisor' # "unborn"
    BY <2>1, <1>t, <1>s DEF LaunchRunWorker
  <2> QED BY <1>11, <2>2
<1> QED BY <1>1, <1>2, <1>3, <1>4, <1>5, <1>6, <1>7, <1>8, <1>9, <1>10, <1>11, <1>t,
           Unmoved DEF Steady, Reconcile

LEMMA ObservedInit == Init => ObservedInv
<1> SUFFICES ASSUME Init PROVE ObservedInv
  OBVIOUS
<1>w. Worker \in Procs /\ \A c \in Clients : c \in Procs /\ c # Worker
  BY WorkerIsNoClient DEF Procs
<1>1. \A r \in Copies : r = NoRow
  BY <1>w DEF Init, Copies
<1>2. \A r \in Copies : Observed(r, provider, supervisor)
  BY <1>1 DEF Observed, NoRow
<1>3. OwnersGone
  BY <1>w DEF Init, OwnersGone
<1> QED BY <1>2, <1>3, InvInit DEF ObservedInv

LEMMA ObservedStep == Observable /\ ObservedInv /\ [Next]_vars => ObservedInv'
<1> SUFFICES ASSUME Observable, ObservedInv, [Next]_vars PROVE ObservedInv'
  OBVIOUS
<1>1. IInv'
  BY InvStep DEF ObservedInv
<1>2. CASE Next
  <2>1. (\A r \in Copies : Observed(r, provider, supervisor))'
    BY <1>2, CopiesObserved
  <2>2. OwnersGone'
    BY <1>2, OwnersGoneStep DEF OwnersGone
  <2> QED BY <1>1, <2>1, <2>2 DEF ObservedInv
<1>3. CASE UNCHANGED vars
  <2>1. (\A r \in Copies : Observed(r, provider, supervisor))'
    BY <1>3 DEF vars, ObservedInv, Copies
  <2>2. OwnersGone'
    BY <1>3 DEF vars, ObservedInv, OwnersGone
  <2> QED BY <1>1, <2>1, <2>2 DEF ObservedInv
<1> QED BY <1>2, <1>3

(* While every process can be observed, the copies never lose sight of the *)
(* provider and the worker they name: the strengthened invariant holds.    *)
THEOREM ObservedCorrect == Spec => [](Observable => ObservedInv)
<1>1. Init => (Observable => ObservedInv)
  BY ObservedInit
<1>2. (Observable => ObservedInv) /\ [Next]_vars => (Observable => ObservedInv)'
  <2> SUFFICES ASSUME Observable => ObservedInv, [Next]_vars, Observable'
               PROVE  ObservedInv'
    OBVIOUS
  <2>1. env' = env
    BY EnvStays DEF vars
  <2> QED BY <2>1, ObservedStep DEF Observable
<1> QED BY <1>1, <1>2, PTL DEF Spec

(* While every process can be observed, neither a recovery, a sweep nor a  *)
(* cancel makes the row of a live provider it names count as free.         *)
THEOREM SlotCorrect == Spec => []NamedProviderKeepsSlot
<1>1. (Observable => ObservedInv) => NamedProviderKeepsSlot
  BY DEF ObservedInv, IInv, ProcessInv, Copies, Sound, Observed, Active, Ended, Occupies,
     NamedProviderKeepsSlot
<1> QED BY <1>1, ObservedCorrect, PTL

(* While every process can be observed, no control process judges a run    *)
(* whose recorded worker lives.                                            *)
THEOREM JudgementCorrect == Spec => []NoForeignJudgement
<1>1. (Observable => ObservedInv) => NoForeignJudgement
  BY DEF ObservedInv, OwnersGone, NoForeignJudgement
<1> QED BY <1>1, ObservedCorrect, PTL
=============================================================================
