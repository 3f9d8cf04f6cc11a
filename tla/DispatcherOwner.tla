-------------------------- MODULE DispatcherOwner --------------------------
(***************************************************************************)
(* The one dispatcher of a device.  Its row in the SQLite store names the  *)
(* process that owns repeat scheduling by PID and creation identity.  Any  *)
(* control command may find the row stale and launch another dispatcher,   *)
(* a service manager restarts its own for ever, a migration terminates the *)
(* one it finds, and each of them reads the row, observes the process and  *)
(* acts in separate steps.  Only the two transactions on the row, insert   *)
(* when empty and delete when unchanged, are atomic.                       *)
(***************************************************************************)
EXTENDS Naturals, FiniteSets

CONSTANTS
  Servers,   \* agent-dispatcher processes, each a PID with its own identity
  Clients,   \* commands that ensure a dispatcher or migrate the service
  None,      \* no row
  Env        \* what the environment of this instance may do, see EnvKinds

EnvKinds == { "unobservable",   \* observe_process may answer unknown
              "pid_reuse",      \* a dead process's PID may name another one
              "client_crash" }  \* a command may die at any point

ASSUME NoneAssumption == None \notin Servers
ASSUME ClientsAssumption == Servers \cap Clients = {}
ASSUME EnvAssumption == Env \subseteq EnvKinds

VARIABLES
  claim,    \* the agent_dispatcher row: the process it names, or None
  intents,  \* is there an active repeat intent
  calm,     \* has the environment stopped disturbing, see Settles
  service,  \* is the managed service registered
  managed,  \* the dispatchers that were started by the service manager
  spc,      \* spc[s]: where dispatcher process s is
  cpc,      \* cpc[c]: where command c is
  read,     \* read[p]: the row as process p read it
  looked    \* looked[c]: what c last learned: an observation, or a handoff

vars == <<claim, intents, calm, service, managed, spc, cpc, read, looked>>

ServerPc == {"unborn", "boot", "observe", "release", "claim", "serve", "finally", "gone"}
ClientPc == {"idle", "ensure", "look", "decide", "release", "launch", "await",
             "find", "terminate", "forget", "migrate", "verify"}
Observation == {"same", "other", "gone", "unknown"}

TypeOK ==
  /\ claim \in Servers \cup {None}
  /\ intents \in BOOLEAN
  /\ calm \in BOOLEAN
  /\ service \in BOOLEAN
  /\ managed \in SUBSET Servers
  /\ spc \in [Servers -> ServerPc]
  /\ cpc \in [Clients -> ClientPc]
  /\ read \in [Servers \cup Clients -> Servers \cup {None}]
  /\ looked \in [Clients -> Observation \cup {"nothing", "stopped"}]

Alive(s) == spc[s] \notin {"unborn", "gone"}

Serving == {s \in Servers : spc[s] = "serve"}

-----------------------------------------------------------------------------
(* Observations and the two transactions on the row.                       *)

(* observe_process of a row's PID, compared with the row's identity.       *)
Sees(s) ==
  (IF Alive(s) THEN {"same"}
               ELSE {"gone"} \cup (IF "pid_reuse" \in Env THEN {"other"} ELSE {}))
  \cup (IF "unobservable" \in Env THEN {"unknown"} ELSE {})

(* Seeded fault: the row is deleted whatever it says by now.               *)
DeleteAnyRow(s) == claim' = None

(* Seeded fault: the row is marked as released in place of deleted.        *)
MarkRow(s) == claim' = IF claim = s THEN "released" ELSE claim

(* release_dispatcher: delete the row if it still is the one given.        *)
ReleaseRow(s) == claim' = IF claim = s THEN None ELSE claim

(* Seeded fault: INSERT OR REPLACE in place of INSERT OR IGNORE.           *)
ReplaceRow(s) == claim' = s

(* claim_dispatcher: insert unless there is a row.                         *)
ClaimRow(s) == claim' = IF claim = None THEN s ELSE claim

-----------------------------------------------------------------------------
(* serve_continuous_intents: one dispatcher process.                       *)

ServerGoes(s, next) == spc' = [spc EXCEPT ![s] = next]

ServerEnds(s) ==
  /\ ServerGoes(s, "gone")
  /\ read' = [read EXCEPT ![s] = None]

(* A process that cannot read its own identity gives up.                   *)
ServerReads(s) ==
  /\ spc[s] = "boot"
  /\ \/ /\ read' = [read EXCEPT ![s] = claim]
        /\ ServerGoes(s, IF claim = None THEN "claim" ELSE "observe")
     \/ "unobservable" \in Env /\ ServerEnds(s)
  /\ UNCHANGED <<claim, intents, calm, service, managed, cpc, looked>>

(* _claim_dispatcher_process: never guess about a process that cannot be   *)
(* observed, leave a living owner alone, release a stale one.              *)
ServerObserves(s) ==
  /\ spc[s] = "observe"
  /\ \E seen \in Sees(read[s]) :
       \/ /\ seen = "same"
          /\ IF read[s] = s THEN ServerGoes(s, "serve") /\ UNCHANGED read
                            ELSE ServerEnds(s)
       \/ seen = "unknown" /\ ServerEnds(s)
       \/ seen \in {"gone", "other"} /\ ServerGoes(s, "release") /\ UNCHANGED read
  /\ UNCHANGED <<claim, intents, calm, service, managed, cpc, looked>>

ServerReleasesStale(s) ==
  /\ spc[s] = "release"
  /\ ReleaseRow(read[s])
  /\ ServerGoes(s, "claim")
  /\ UNCHANGED <<intents, calm, service, managed, cpc, read, looked>>

ServerClaims(s) ==
  /\ spc[s] = "claim"
  /\ ClaimRow(s)
  /\ IF claim' = s THEN ServerGoes(s, "serve") ELSE ServerGoes(s, "gone")
  /\ read' = [read EXCEPT ![s] = None]
  /\ UNCHANGED <<intents, calm, service, managed, cpc, looked>>

(* An error in the loop leads to the finally block, which gives back the   *)
(* row; a killed process never reaches it.                                 *)
ServerFails(s) ==
  /\ ~calm
  /\ spc[s] = "serve"
  /\ ServerGoes(s, "finally")
  /\ UNCHANGED <<claim, intents, calm, service, managed, cpc, read, looked>>

ServerGivesBack(s) ==
  /\ spc[s] = "finally"
  /\ ReleaseRow(s)
  /\ ServerEnds(s)
  /\ UNCHANGED <<intents, calm, service, managed, cpc, looked>>

ServerCrash(s) ==
  /\ ~calm
  /\ Alive(s)
  /\ ServerEnds(s)
  /\ UNCHANGED <<claim, intents, calm, service, managed, cpc, looked>>

(* Launchd and systemd start the service's dispatcher again whenever it    *)
(* ended, whatever it ended with.                                          *)
ServiceStarts(s) ==
  /\ service
  /\ \A t \in managed : ~Alive(t)
  /\ spc[s] = "unborn"
  /\ ServerGoes(s, "boot")
  /\ managed' = managed \cup {s}
  /\ UNCHANGED <<claim, intents, calm, service, cpc, read, looked>>

(* Every process has an identity of its own.  One nobody refers to any     *)
(* more stands for the next one to be created.                             *)
Forgotten(s) ==
  /\ spc[s] = "gone"
  /\ claim # s
  /\ \A p \in Servers \cup Clients : read[p] # s
  /\ ServerGoes(s, "unborn")
  /\ managed' = managed \ {s}
  /\ UNCHANGED <<claim, intents, calm, service, cpc, read, looked>>

-----------------------------------------------------------------------------
(* ensure_continuous_dispatcher: what a command does about the dispatcher. *)

ClientGoes(c, next) == cpc' = [cpc EXCEPT ![c] = next]

ClientEnds(c) ==
  /\ ClientGoes(c, "idle")
  /\ read' = [read EXCEPT ![c] = None]
  /\ looked' = [looked EXCEPT ![c] = "nothing"]

EnsureReads(c) ==
  /\ cpc[c] \in {"idle", "ensure"}
  /\ \/ /\ intents
        /\ read' = [read EXCEPT ![c] = claim]
        /\ ClientGoes(c, IF claim = None THEN "launch" ELSE "look")
        /\ UNCHANGED looked
     \/ cpc[c] = "ensure" /\ ~intents /\ ClientEnds(c)
  /\ UNCHANGED <<claim, intents, calm, service, managed, spc>>

EnsureLooks(c) ==
  /\ cpc[c] = "look"
  /\ \E seen \in Sees(read[c]) : looked' = [looked EXCEPT ![c] = seen]
  /\ ClientGoes(c, "decide")
  /\ UNCHANGED <<claim, intents, calm, service, managed, spc, read>>

(* Seeded fault: a running process is taken for the dispatcher, whoever it *)
(* is.                                                                     *)
EnsureDecidesByPid(c) ==
  /\ cpc[c] = "decide"
  /\ \E seen \in Sees(read[c]) :
       IF seen \in {"same", "other"} \/ looked[c] = "unknown"
         THEN ClientEnds(c)
         ELSE ClientGoes(c, "release") /\ UNCHANGED <<read, looked>>
  /\ UNCHANGED <<claim, intents, calm, service, managed, spc>>

(* _dispatcher_is_live looks a second time, and only that look can say     *)
(* "live"; only the first one can say "unknown".                           *)
EnsureDecides(c) ==
  /\ cpc[c] = "decide"
  /\ \E seen \in Sees(read[c]) :
       IF seen = "same" \/ looked[c] = "unknown"
         THEN ClientEnds(c)
         ELSE ClientGoes(c, "release") /\ UNCHANGED <<read, looked>>
  /\ UNCHANGED <<claim, intents, calm, service, managed, spc>>

EnsureReleasesStale(c) ==
  /\ cpc[c] = "release"
  /\ ReleaseRow(read[c])
  /\ ClientGoes(c, "launch")
  /\ UNCHANGED <<intents, calm, service, managed, spc, read, looked>>

EnsureLaunches(c) ==
  /\ cpc[c] = "launch"
  /\ \/ \E s \in Servers : /\ spc[s] = "unborn"
                           /\ ServerGoes(s, "boot")
                           /\ ClientGoes(c, "await")
                           /\ UNCHANGED <<read, looked>>
     \/ ClientEnds(c) /\ UNCHANGED spc
  /\ UNCHANGED <<claim, intents, calm, service, managed>>

(* The new dispatcher showed itself, or the wait timed out.                *)
EnsureWaitEnds(c) ==
  /\ cpc[c] = "await"
  /\ ClientEnds(c)
  /\ UNCHANGED <<claim, intents, calm, service, managed, spc>>

-----------------------------------------------------------------------------
(* migrate_service, with stop_continuous_dispatcher_for_service.           *)

StopReads(c) ==
  /\ ~calm
  /\ cpc[c] = "idle"
  /\ read' = [read EXCEPT ![c] = claim]
  /\ ClientGoes(c, IF claim = None THEN "migrate" ELSE "find")
  /\ UNCHANGED <<claim, intents, calm, service, managed, spc, looked>>

StopFinds(c) ==
  /\ cpc[c] = "find"
  /\ \E seen \in Sees(read[c]) :
       \/ seen = "unknown" /\ ClientEnds(c)
       \/ seen = "same" /\ ClientGoes(c, "terminate") /\ UNCHANGED <<read, looked>>
       \/ seen \in {"gone", "other"} /\ ClientGoes(c, "forget") /\ UNCHANGED <<read, looked>>
  /\ UNCHANGED <<claim, intents, calm, service, managed, spc>>

(* Terminate and wait.  A process that is gone by now counts as stopped;   *)
(* one that refuses or outlives the wait blocks the migration.             *)
StopTerminates(c) ==
  /\ cpc[c] = "terminate"
  /\ \/ /\ spc' = IF Alive(read[c]) THEN [spc EXCEPT ![read[c]] = "gone"] ELSE spc
        /\ read' = IF Alive(read[c]) THEN [read EXCEPT ![read[c]] = None] ELSE read
        /\ looked' = [looked EXCEPT ![c] = "stopped"]
        /\ ClientGoes(c, "forget")
     \/ ClientEnds(c) /\ UNCHANGED spc
  /\ UNCHANGED <<claim, intents, calm, service, managed>>

StopForgets(c) ==
  /\ cpc[c] = "forget"
  /\ ReleaseRow(read[c])
  /\ ClientGoes(c, "migrate")
  /\ UNCHANGED <<intents, calm, service, managed, spc, read, looked>>

MigrateFails(c) ==
  /\ ClientGoes(c, IF looked[c] = "stopped" THEN "ensure" ELSE "idle")
  /\ read' = [read EXCEPT ![c] = None]
  /\ looked' = [looked EXCEPT ![c] = "nothing"]

(* What unloading a registration does to the dispatchers it started.       *)
ServiceEnds(c) ==
  LET ended == {s \in managed : Alive(s)} IN
    /\ spc' = [s \in Servers |-> IF s \in ended THEN "gone" ELSE spc[s]]
    /\ read' = [p \in Servers \cup Clients |->
                  IF p \in ended \cup {c} THEN None ELSE read[p]]

(* The adapter's migrate replaces an earlier registration, whose           *)
(* dispatcher ends with it, or fails before it changed anything.           *)
MigrateInstalls(c) ==
  /\ cpc[c] = "migrate"
  /\ \/ /\ service' = TRUE
        /\ ServiceEnds(c)
        /\ ClientGoes(c, "verify")
        /\ UNCHANGED looked
     \/ MigrateFails(c) /\ UNCHANGED <<service, spc>>
  /\ UNCHANGED <<claim, intents, calm, managed>>

(* The service must be running now.  Otherwise the earlier registration is *)
(* put back, managed or not, and so is a dispatcher stopped for it.        *)
MigrateVerifies(c) ==
  /\ cpc[c] = "verify"
  /\ \/ /\ \E s \in managed : Alive(s)
        /\ ClientEnds(c)
        /\ UNCHANGED <<service, spc>>
     \/ /\ service' \in BOOLEAN
        /\ ServiceEnds(c)
        /\ ClientGoes(c, IF looked[c] = "stopped" THEN "ensure" ELSE "idle")
        /\ looked' = [looked EXCEPT ![c] = "nothing"]
  /\ UNCHANGED <<claim, intents, calm, managed>>

ClientCrash(c) ==
  /\ "client_crash" \in Env
  /\ ~calm
  /\ cpc[c] # "idle"
  /\ ClientEnds(c)
  /\ UNCHANGED <<claim, intents, calm, service, managed, spc>>

(* config.write, project.pause and the ticks add and drop intents.         *)
IntentsChange ==
  /\ ~calm
  /\ intents' = ~intents
  /\ UNCHANGED <<calm, claim, service, managed, spc, cpc, read, looked>>

(* From some point on nobody kills dispatchers, migrates or edits intents. *)
Settles ==
  /\ ~calm
  /\ calm' = TRUE
  /\ UNCHANGED <<claim, intents, service, managed, spc, cpc, read, looked>>

-----------------------------------------------------------------------------
Init ==
  /\ claim = None
  /\ intents \in BOOLEAN
  /\ calm = FALSE
  /\ service = FALSE
  /\ managed = {}
  /\ spc = [s \in Servers |-> "unborn"]
  /\ cpc = [c \in Clients |-> "idle"]
  /\ read = [p \in Servers \cup Clients |-> None]
  /\ looked = [c \in Clients |-> "nothing"]

Start(s) ==
  ServerReads(s) \/ ServerObserves(s) \/ ServerReleasesStale(s) \/ ServerClaims(s)

Server(s) ==
  \/ Start(s) \/ ServerFails(s) \/ ServerGivesBack(s) \/ ServerCrash(s)
  \/ ServiceStarts(s) \/ Forgotten(s)

Ensure(c) ==
  \/ EnsureReads(c) \/ EnsureLooks(c) \/ EnsureDecides(c) \/ EnsureReleasesStale(c)
  \/ EnsureLaunches(c) \/ EnsureWaitEnds(c)

Migrate(c) ==
  \/ StopReads(c) \/ StopFinds(c) \/ StopTerminates(c) \/ StopForgets(c)
  \/ MigrateInstalls(c) \/ MigrateVerifies(c)

Next ==
  \/ \E s \in Servers : Server(s)
  \/ \E c \in Clients : Ensure(c) \/ Migrate(c) \/ ClientCrash(c)
  \/ IntentsChange \/ Settles

Spec == Init /\ [][Next]_vars

(***************************************************************************)
(* The job daemon d ensures a dispatcher in every cycle and finishes what  *)
(* it began; creating a process does not fail for ever; dispatchers that   *)
(* were started run on, and there is always one more process to create.    *)
(***************************************************************************)
Fairness(d) ==
  /\ WF_vars(cpc[d] = "idle" /\ EnsureReads(d))
  /\ WF_vars(cpc[d] # "idle" /\ (Ensure(d) \/ Migrate(d)))
  /\ SF_vars(EnsureLaunches(d) /\ cpc'[d] = "await")
  /\ \A s \in Servers : WF_vars(Start(s) \/ ServerGivesBack(s)) /\ WF_vars(Forgotten(s))

-----------------------------------------------------------------------------
(* Safety.                                                                 *)

(* However many dispatchers are launched for the same stale row, and       *)
(* however late their deletes come, the one that serves is the one the row *)
(* names: nobody's compare-and-delete removes the claim of a living owner. *)
ServingOwnsTheRow == \A s \in Servers : spc[s] \in {"serve", "finally"} => claim = s

(* Two dispatchers never tick the projects at the same time.               *)
owner == IF Serving = {} THEN None ELSE CHOOSE s \in Serving : TRUE

Abstract == INSTANCE SingleOwner WITH NoOwner <- None

OneOwnerAtATime == Abstract!Spec

(* Liveness: once nothing disturbs it, a device with repeat intents gets   *)
(* its dispatcher: no stale row, reused PID, half-done command or lost     *)
(* race between launches leaves scheduling stopped for good.               *)
SchedulingResumes == calm /\ intents ~> Serving # {}

-----------------------------------------------------------------------------
(* The inductive invariant behind the two safety properties.               *)

Starting(s) == spc[s] \in {"boot", "observe", "release", "claim"}

(* Identities are not used again while a row or a process remembers them.  *)
Remembered ==
  /\ claim # None => spc[claim] # "unborn"
  /\ \A p \in Servers \cup Clients : read[p] # None => spc[read[p]] # "unborn"

(* A dispatcher that has no claim yet is named nowhere.                    *)
Fresh == \A s \in Servers : Starting(s) => claim # s /\ read[s] # s

(* Whoever is about to release a row read it, and its process is dead.     *)
StaleOnly ==
  /\ \A s \in Servers :
       /\ spc[s] = "observe" => read[s] # None
       /\ spc[s] = "release" => read[s] # None /\ spc[read[s]] = "gone"
  /\ \A c \in Clients :
       /\ cpc[c] \in {"look", "decide", "find", "terminate"} => read[c] # None
       /\ cpc[c] \in {"release", "forget"} => read[c] # None /\ spc[read[c]] = "gone"

(* With every process observable: a release that is still to come names a  *)
(* dead process, so however late it is, it cannot name the owner.          *)
OwnerInv == TypeOK /\ ServingOwnsTheRow /\ Remembered /\ Fresh /\ StaleOnly

-----------------------------------------------------------------------------
(* What the code's own documents say and the code does not do.             *)

(* stop_continuous_dispatcher_for_service: "The managed OS service must    *)
(* own the singleton after migration".                                     *)
ServiceOwnsTheSingleton ==
  service /\ (\A c \in Clients : cpc[c] \notin {"migrate", "verify"})
    => \A s \in Serving : s \in managed

=============================================================================
