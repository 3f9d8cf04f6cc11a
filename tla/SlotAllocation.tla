--------------------------- MODULE SlotAllocation ---------------------------
(***************************************************************************)
(* Repeat intents, slot limits and who gets the next slot.                 *)
(*                                                                         *)
(* The dispatcher ticks all projects, one after the other.  A tick reads   *)
(* the project's configuration, recovers its runs, lists its intents,      *)
(* marks the due ones, counts free slots and queues runs, waiting up to    *)
(* ten seconds for each.  Beside it control commands write configurations, *)
(* confirm plans and retry runs.  Each call of the store is a transaction; *)
(* between two calls everything may move, and the tick goes on with the    *)
(* copies it has.                                                          *)
(*                                                                         *)
(* A run's own life is the subject of RunLedger.  Here it is what the      *)
(* counting sees: active, occupying (dropped with cleanup left) or over.   *)
(***************************************************************************)
EXTENDS Integers, FiniteSets, Sequences, SequencesExt

CONSTANTS
  ProjectOrder,    \* the projects, in the order of their ids
  RoleOrder,       \* the roles, in the order a tick prefers them
  Runs,            \* run ids; an id nothing remembers stands for a new one
  Activations,     \* intent ids, likewise
  PlanIds,         \* plan ids, likewise
  Clients,         \* control commands in flight
  DeviceMax,       \* deviceMaxParallel
  ProjectMax,      \* projectMaxParallel of each project
  RoleMax,         \* maxParallel of each role
  ExecutionLimit,  \* executionLimit of each role, 0 where there is none
  Requests,        \* the slots a plan.read may ask for, by role
  None,
  Env              \* what the environment of an instance may do, see EnvKinds

EnvKinds == {
  "config",    \* config.write changes which roles repeat
  "pause",     \* projects are paused and resumed, automationEnabled is switched
  "consent",   \* consent is granted and revoked
  "manual",    \* plan.read, run.start and run.retry
  "watch",     \* the watcher reports changed workflow files
  "phases",    \* the poll intervals of roles elapse at different times
  "refuses",   \* preflight finds no target, or the reservation is refused
  "drops",     \* runs are dropped with cleanup left, and adopted again
  "quick",     \* a run may be over before its starter has seen and counted it
  "crash",     \* the dispatcher may die
  "dies" }     \* a control command may die

Projects == ToSet(ProjectOrder)
Roles == ToSet(RoleOrder)

ASSUME LimitsAssumption ==
  /\ DeviceMax \in Nat \ {0}
  /\ ProjectMax \in [Projects -> Nat \ {0}]
  /\ RoleMax \in [Roles -> Nat \ {0}]
  /\ ExecutionLimit \in [Roles -> Nat]
ASSUME OrderAssumption ==
  /\ ProjectOrder \in Seq(Projects)
  /\ RoleOrder \in Seq(Roles) /\ IsInjective(RoleOrder)
ASSUME RequestsAssumption == Requests \subseteq [Roles -> Nat]
ASSUME EnvAssumption == Env \subseteq EnvKinds

VARIABLES
  configuration,  \* agent_configurations
  consent,        \* is the project's consent valid
  intents,        \* agent_automation: one row or None per project and role
  runs,           \* agent_runs: the rows that hold a slot
  plans,          \* agent_queue: plans that can still be confirmed
  turns,          \* roles of a project by lastAssignedAt, oldest first
  projectTurns,   \* projects by their latest run, oldest first
  tick,           \* the dispatcher: where it is and the copies it works on
  cmd,            \* cmd[c]: the same of control command c
  starts,         \* history: by role, the runs that served for an activation
  spent           \* history: roles whose intent a tick ended on purpose

rows == <<configuration, consent, intents, runs, plans>>
history == <<starts, spent>>
vars == <<rows, turns, projectTurns, tick, cmd, history>>

-----------------------------------------------------------------------------
(* Rows and copies *)

\* automation: automationEnabled; continuous: the roles with that mode.
Configuration == [paused : BOOLEAN, automation : BOOLEAN, continuous : SUBSET Roles]

\* due: has nextPollAt passed when the next tick begins.
Intent == [id : Activations, started : Nat, due : BOOLEAN]

\* "serving" is a run with a target: reserved or running.
Run == [project : Projects, role : Roles, intent : Activations \cup {None},
        state : {"queued", "serving", "occupying"}]

\* What the fingerprint is computed from.
Revision == [configuration : Configuration, active : SUBSET Runs, occupied : SUBSET Runs]

Plan == [project : Projects, granted : [Roles -> Nat], revision : Revision]

ASSUME NoneAssumption ==
  /\ None \notin Projects \cup Roles \cup Runs \cup Activations \cup PlanIds
  /\ None \notin Intent \cup Run \cup Plan

NoIntents == [r \in Roles |-> None]
Off == [paused |-> FALSE, automation |-> FALSE, continuous |-> {}]
NoGrants == [r \in Roles |-> 0]

\* copies are the listed intents.  due holds the roles still to be served in this tick, pass those of this
\* round, todo those whose row is still to be looked at.
TickPc == {"idle", "wake", "next", "recovered", "marking", "room", "pass", "await", "rejected",
           "after"}
Tick == [at : TickPc, rest : Seq(Projects), project : Projects \cup {None},
         configuration : Configuration, copies : [Roles -> Intent \cup {None}],
         todo : Seq(Roles), due : Seq(Roles), pass : Seq(Roles),
         progress : BOOLEAN, run : Runs \cup {None}]

TickIdle ==
  [at |-> "idle", rest |-> <<>>, project |-> None, configuration |-> Off,
   copies |-> NoIntents, todo |-> <<>>, due |-> <<>>, pass |-> <<>>,
   progress |-> FALSE, run |-> None]

CommandPc == {"idle", "sync", "drop", "activate", "budget", "grant", "save",
              "take", "confirm", "start", "await", "retry", "retried"}
Command == [at : CommandPc, project : Projects \cup {None}, configuration : Configuration,
            todo : Seq(Roles), want : [Roles -> Nat], granted : [Roles -> Nat],
            budget : Nat, plan : PlanIds \cup {None}, taken : Plan \cup {None},
            run : Runs \cup {None}]

CommandIdle ==
  [at |-> "idle", project |-> None, configuration |-> Off, todo |-> <<>>,
   want |-> NoGrants, granted |-> NoGrants, budget |-> 0, plan |-> None,
   taken |-> None, run |-> None]

TypeOK ==
  /\ configuration \in [Projects -> Configuration]
  /\ consent \in [Projects -> BOOLEAN]
  /\ intents \in [Projects -> [Roles -> Intent \cup {None}]]
  /\ runs \in [Runs -> Run \cup {None}]
  /\ plans \in [PlanIds -> Plan \cup {None}]
  /\ turns \in [Projects -> Seq(Roles)]
  /\ projectTurns \in Seq(Projects)
  /\ tick \in Tick
  /\ cmd \in [Clients -> Command]
  /\ starts \in [Roles -> [Activations -> Nat]]
  /\ spent \in [Projects -> SUBSET Roles]

-----------------------------------------------------------------------------
(* Counting slots *)

Active == {"queued", "serving"}

RunsIn(S) == {x \in Runs : runs[x] # None /\ runs[x].state \in S}

\* A dropped run holds its slot until its cleanup has finished.  Occupying runs
\* are read after the active ones.  A run dropped in between counts twice, which
\* only costs a turn; none is missed, since adoption is the tick's own.
Occupying == RunsIn({"occupying"})

(* Seeded fault: a run takes its slot only when it serves.                 *)
HeldWhileServing == RunsIn({"serving"}) \cup Occupying

Held == RunsIn(Active) \cup Occupying

(* Seeded fault: the remaining slots are not cut off at none.              *)
NotCutOff(n) == n

Above0(n) == IF n > 0 THEN n ELSE 0

DeviceRemaining == Above0(DeviceMax - Cardinality(Held))

ProjectRemaining(p) ==
  Above0(ProjectMax[p] - Cardinality({x \in Held : runs[x].project = p}))

RoleRemaining(p, r) ==
  Above0(RoleMax[r] - Cardinality({x \in Held : runs[x].project = p /\ runs[x].role = r}))

Smaller(a, b) == IF a < b THEN a ELSE b

Room(p) == Smaller(ProjectRemaining(p), DeviceRemaining)

RuntimeRevision(cfg) ==
  [configuration |-> cfg, active |-> RunsIn(Active), occupied |-> Occupying]

-----------------------------------------------------------------------------
(* Intents *)

\* The row of a project and role is replaced whatever its id is.
SaveIntent(p, r, i) == intents' = [intents EXCEPT ![p][r] = i]

\* The row with this id is deleted whoever holds it by now.
WithoutIntent(id) ==
  [p \in Projects |-> [r \in Roles |->
    IF intents[p][r] # None /\ intents[p][r].id = id THEN None ELSE intents[p][r]]]

(* Seeded fault: one more run than the limit.                              *)
PastLimit(i, r) == ExecutionLimit[r] > 0 /\ i.started > ExecutionLimit[r]

AtLimit(i, r) == ExecutionLimit[r] > 0 /\ i.started >= ExecutionLimit[r]

\* startedCount only matters under a limit; without one it is left at 0.
Counted(n, r) == IF ExecutionLimit[r] > 0 THEN n + 1 ELSE n

WithIntent(p) == {r \in Roles : intents[p][r] # None}

\* The elements of seq that are in S, in seq's order: the n-th stands at the place
\* with n - 1 such places before it.
Places(seq, S) == {i \in 1..Len(seq) : seq[i] \in S}
Place(seq, S, n) ==
  CHOOSE i \in Places(seq, S) : Cardinality({j \in Places(seq, S) : j <= i}) = n
Keep(seq, S) == [n \in 1..Cardinality(Places(seq, S)) |-> seq[Place(seq, S, n)]]
Without(seq, S) == Keep(seq, ToSet(seq) \ S)

\* lastAssignedAt orders the roles; those that never had a run come first.
InTurn(seq, recent) == Without(seq, ToSet(recent)) \o recent

LastInTurn(recent, e) == Append(Without(recent, {e}), e)

(* Seeded fault: the projects are always ticked in the order of their ids. *)
IdOrder == ProjectOrder

FairOrder == InTurn(ProjectOrder, projectTurns)

SortDue(p, S) == Keep(InTurn(RoleOrder, turns[p]), S)

\* list_intents
ListOrder(p) == SortDue(p, WithIntent(p))

-----------------------------------------------------------------------------
(* Runs, as the counting sees them *)

Awaited(x) == tick.run = x \/ \E c \in Clients : cmd[c].run = x

\* Slots are counted again at once after a run was seen to work.
JustSeen(x) == tick.at = "after" /\ tick.run = x

InRevision(x, plan) ==
  plan # None /\ x \in plan.revision.active \cup plan.revision.occupied

Unused(x) ==
  /\ runs[x] = None
  /\ ~Awaited(x)
  /\ \A i \in PlanIds : ~InRevision(x, plans[i])
  /\ \A c \in Clients : ~InRevision(x, cmd[c].taken)

\* queue_one_run after its preflight: the row is saved before its worker is
\* launched, and its createdAt is the project's latest.
QueueOneRun(x, p, r, id) ==
  /\ Unused(x)
  /\ runs' = [runs EXCEPT ![x] =
       [project |-> p, role |-> r, intent |-> id, state |-> "queued"]]
  /\ projectTurns' = LastInTurn(projectTurns, p)

\* What queue_and_launch_run's wait returns: a run that works or, at the
\* deadline, is still queued was started.
SeenStarted(x) == runs[x] # None /\ runs[x].state \in Active

RunServes(x) ==
  /\ runs[x] # None
  /\ runs[x].state = "queued"
  /\ runs' = [runs EXCEPT ![x].state = "serving"]
  /\ projectTurns' = LastInTurn(projectTurns, runs[x].project)
  /\ starts' = IF runs[x].intent = None THEN starts
               ELSE [starts EXCEPT ![runs[x].role][runs[x].intent] = Counted(@, runs[x].role)]
  /\ UNCHANGED <<configuration, consent, intents, plans, turns, tick, cmd, spent>>

RunGivesUp(x) ==
  /\ runs[x] # None
  /\ runs[x].state = "queued"
  /\ "quick" \in Env \/ ~JustSeen(x)
  /\ runs' = [runs EXCEPT ![x] = None]
  /\ UNCHANGED <<configuration, consent, intents, plans, turns, projectTurns, tick, cmd, history>>

RunEnds(x) ==
  /\ runs[x] # None
  /\ runs[x].state \in {"serving", "occupying"}
  /\ "quick" \in Env \/ ~Awaited(x)
  /\ runs' = [runs EXCEPT ![x] = None]
  /\ UNCHANGED <<configuration, consent, intents, plans, turns, projectTurns, tick, cmd, history>>

RunDropped(x) ==
  /\ "drops" \in Env
  /\ runs[x] # None
  /\ runs[x].state = "serving"
  /\ "quick" \in Env \/ ~Awaited(x)
  /\ runs' = [runs EXCEPT ![x].state = "occupying"]
  /\ UNCHANGED <<configuration, consent, intents, plans, turns, projectTurns, tick, cmd, history>>

\* The sweep of the project's tick finds the provider alive.
RunAdopted(x) ==
  /\ tick.at = "recovered"
  /\ runs[x] # None
  /\ runs[x].project = tick.project
  /\ runs[x].state = "occupying"
  /\ runs' = [runs EXCEPT ![x].state = "serving"]
  /\ UNCHANGED <<configuration, consent, intents, plans, turns, projectTurns, tick, cmd, history>>

\* nextPollAt of these intents passes.  All of a sweep compares with the time
\* at which the sweep began, so this happens between sweeps.
TimePasses(late) ==
  /\ tick.at = "idle"
  /\ late = Projects \X Roles \/ "phases" \in Env
  /\ intents' = [p \in Projects |-> [r \in Roles |->
       IF intents[p][r] # None /\ <<p, r>> \in late
         THEN [intents[p][r] EXCEPT !.due = TRUE]
         ELSE intents[p][r]]]
  /\ intents' # intents
  /\ UNCHANGED <<configuration, consent, runs, plans, turns, projectTurns, tick, cmd, history>>

-----------------------------------------------------------------------------
(* The dispatcher: tick_all_projects and tick_project *)

\* The next of the listed intents.
Listed == Head(tick.todo)

\* mark_automations_due, after files of the project changed; the tick of all
\* projects follows.
WatcherLists(p) ==
  /\ "watch" \in Env
  /\ tick.at = "idle"
  /\ tick' = [tick EXCEPT !.at = "wake", !.project = p,
                          !.copies = intents[p], !.todo = ListOrder(p)]
  /\ UNCHANGED <<rows, turns, projectTurns, cmd, history>>

WatcherMarks ==
  /\ tick.at = "wake"
  /\ tick.todo # <<>>
  /\ SaveIntent(tick.project, Listed, [tick.copies[Listed] EXCEPT !.due = TRUE])
  /\ tick' = [tick EXCEPT !.todo = Tail(@)]
  /\ UNCHANGED <<configuration, consent, runs, plans, turns, projectTurns, cmd, history>>

WatcherEnds ==
  /\ tick.at = "wake"
  /\ tick.todo = <<>>
  /\ tick' = [TickIdle EXCEPT !.at = "next", !.rest = FairOrder]
  /\ UNCHANGED <<rows, turns, projectTurns, cmd, history>>

TickAllProjects ==
  /\ tick.at = "idle"
  /\ tick' = [tick EXCEPT !.at = "next", !.rest = FairOrder]
  /\ UNCHANGED <<rows, turns, projectTurns, cmd, history>>

\* configuration_of.  Recovery and sweep of the project's runs follow, which
\* call helpers and may take a while.
ReadConfiguration ==
  /\ tick.at = "next"
  /\ tick.rest # <<>>
  /\ tick' = [TickIdle EXCEPT !.at = "recovered", !.rest = Tail(tick.rest),
                              !.project = Head(tick.rest),
                              !.configuration = configuration[Head(tick.rest)]]
  /\ UNCHANGED <<rows, turns, projectTurns, cmd, history>>

TickEnds ==
  /\ tick.at = "next"
  /\ tick.rest = <<>>
  /\ tick' = TickIdle
  /\ UNCHANGED <<rows, turns, projectTurns, cmd, history>>

MayAssign(p, cfg) == ~cfg.paused /\ cfg.automation /\ consent[p]

NextProject == [TickIdle EXCEPT !.at = "next", !.rest = tick.rest]

TickReturns ==
  /\ tick.at = "recovered"
  /\ ~MayAssign(tick.project, tick.configuration)
  /\ tick' = NextProject
  /\ UNCHANGED <<rows, turns, projectTurns, cmd, history>>

ListIntents ==
  /\ tick.at = "recovered"
  /\ MayAssign(tick.project, tick.configuration)
  /\ tick' = [tick EXCEPT !.at = "marking", !.copies = intents[tick.project],
                          !.todo = ListOrder(tick.project)]
  /\ UNCHANGED <<rows, turns, projectTurns, cmd, history>>

(* Seeded fault: the tick leaves it to config.write to drop intents.       *)
OnlyAtLimit(r) == AtLimit(tick.copies[r], r)

\* By the configuration this tick has read the role no longer repeats, or it
\* has had its runs.
Unwanted(r) == r \notin tick.configuration.continuous \/ AtLimit(tick.copies[r], r)

Finished(r) == IF r \in tick.configuration.continuous THEN {r} ELSE {}

DropUnwanted ==
  /\ tick.at = "marking"
  /\ tick.todo # <<>>
  /\ Unwanted(Listed)
  /\ intents' = WithoutIntent(tick.copies[Listed].id)
  /\ spent' = [spent EXCEPT ![tick.project] = @ \cup Finished(Listed)]
  /\ tick' = [tick EXCEPT !.todo = Tail(@)]
  /\ UNCHANGED <<configuration, consent, runs, plans, turns, projectTurns, cmd, starts>>

MarkDue ==
  LET i == [tick.copies[Listed] EXCEPT !.due = FALSE] IN
  /\ tick.at = "marking"
  /\ tick.todo # <<>>
  /\ ~Unwanted(Listed)
  /\ IF tick.copies[Listed].due
       THEN /\ SaveIntent(tick.project, Listed, i)
            /\ tick' = [tick EXCEPT !.todo = Tail(@), !.copies[Listed] = i,
                                    !.due = Append(@, Listed)]
       ELSE /\ tick' = [tick EXCEPT !.todo = Tail(@)]
            /\ UNCHANGED intents
  /\ UNCHANGED <<configuration, consent, runs, plans, turns, projectTurns, cmd, history>>

SortsDueIntents ==
  /\ tick.at = "marking"
  /\ tick.todo = <<>>
  /\ tick' = [tick EXCEPT !.at = "room", !.progress = TRUE,
                          !.due = SortDue(tick.project, ToSet(@))]
  /\ UNCHANGED <<rows, turns, projectTurns, cmd, history>>

\* The head of the while loop.
CheckRoom ==
  /\ tick.at = "room"
  /\ tick' = IF tick.due # <<>> /\ tick.progress /\ Room(tick.project) > 0
               THEN [tick EXCEPT !.at = "pass", !.pass = tick.due, !.progress = FALSE]
               ELSE NextProject
  /\ UNCHANGED <<rows, turns, projectTurns, cmd, history>>

PassEnds ==
  /\ tick.at = "pass"
  /\ tick.pass = <<>>
  /\ tick' = [tick EXCEPT !.at = "room"]
  /\ UNCHANGED <<rows, turns, projectTurns, cmd, history>>

Served == Head(tick.pass)

\* due_intents.remove and the next intent of the pass.
Leaves(due) == [tick EXCEPT !.at = "pass", !.due = due, !.pass = Tail(@), !.run = None]

\* A role at its execution limit has left before, by DropUnwanted or RunStarted;
\* the loop's own check finds nothing.
NoSeatForRole ==
  /\ tick.at = "pass"
  /\ tick.pass # <<>>
  /\ RoleRemaining(tick.project, Served) = 0
  /\ tick' = Leaves(Without(tick.due, {Served}))
  /\ UNCHANGED <<rows, turns, projectTurns, cmd, history>>

\* _preflight_target: no consent by now, or nothing eligible.
PreflightRefuses ==
  /\ tick.at = "pass"
  /\ tick.pass # <<>>
  /\ RoleRemaining(tick.project, Served) > 0
  /\ ~consent[tick.project] \/ "refuses" \in Env
  /\ SaveIntent(tick.project, Served, tick.copies[Served])
  /\ tick' = Leaves(Without(tick.due, {Served}))
  /\ UNCHANGED <<configuration, consent, runs, plans, turns, projectTurns, cmd, history>>

TickQueuesRun(x) ==
  /\ tick.at = "pass"
  /\ tick.pass # <<>>
  /\ RoleRemaining(tick.project, Served) > 0
  /\ consent[tick.project]
  /\ QueueOneRun(x, tick.project, Served, tick.copies[Served].id)
  /\ tick' = [tick EXCEPT !.at = "await", !.run = x]
  /\ UNCHANGED <<configuration, consent, intents, plans, turns, cmd, history>>

RunNotStarted ==
  /\ tick.at = "await"
  /\ ~SeenStarted(tick.run)
  /\ SaveIntent(tick.project, Served, tick.copies[Served])
  /\ tick' = Leaves(Without(tick.due, {Served}))
  /\ UNCHANGED <<configuration, consent, runs, plans, turns, projectTurns, cmd, history>>

\* The reservation refused the request itself: what is saved is then dropped.
RunRejected ==
  /\ "refuses" \in Env
  /\ tick.at = "await"
  /\ ~SeenStarted(tick.run)
  /\ SaveIntent(tick.project, Served, tick.copies[Served])
  /\ tick' = [tick EXCEPT !.at = "rejected"]
  /\ UNCHANGED <<configuration, consent, runs, plans, turns, projectTurns, cmd, history>>

DropRejected ==
  /\ tick.at = "rejected"
  /\ intents' = WithoutIntent(tick.copies[Served].id)
  /\ spent' = [spent EXCEPT ![tick.project] = @ \cup {Served}]
  /\ tick' = Leaves(Without(tick.due, {Served}))
  /\ UNCHANGED <<configuration, consent, runs, plans, turns, projectTurns, cmd, starts>>

\* The count and lastAssignedAt of the tick's copy; at the limit the intent is
\* dropped, otherwise the copy replaces the row.
RunStarted ==
  LET i == [tick.copies[Served] EXCEPT !.started = Counted(@, Served)] IN
  /\ tick.at = "await"
  /\ SeenStarted(tick.run)
  /\ turns' = [turns EXCEPT ![tick.project] = LastInTurn(@, Served)]
  /\ IF AtLimit(i, Served)
       THEN /\ intents' = WithoutIntent(i.id)
            /\ spent' = [spent EXCEPT ![tick.project] = @ \cup {Served}]
            /\ tick' = [Leaves(Without(tick.due, {Served})) EXCEPT !.progress = TRUE]
       ELSE /\ SaveIntent(tick.project, Served, i)
            /\ tick' = [tick EXCEPT !.at = "after", !.progress = TRUE,
                                    !.copies[Served] = i]
            /\ UNCHANGED spent
  /\ UNCHANGED <<configuration, consent, runs, plans, projectTurns, cmd, starts>>

\* Slots are counted again: a full role leaves, a full project or device ends
\* the pass.
CountAgain ==
  LET due == IF RoleRemaining(tick.project, Served) = 0
               THEN Without(tick.due, {Served}) ELSE tick.due IN
  /\ tick.at = "after"
  /\ tick' = IF Room(tick.project) > 0
               THEN Leaves(due)
               ELSE [tick EXCEPT !.at = "room", !.due = due, !.pass = <<>>, !.run = None]
  /\ UNCHANGED <<rows, turns, projectTurns, cmd, history>>

DispatcherDies ==
  /\ "crash" \in Env
  /\ tick' = TickIdle
  /\ tick # TickIdle
  /\ UNCHANGED <<rows, turns, projectTurns, cmd, history>>

Dispatcher ==
  \/ WatcherMarks \/ WatcherEnds
  \/ TickAllProjects \/ ReadConfiguration \/ TickEnds \/ TickReturns \/ ListIntents
  \/ DropUnwanted \/ MarkDue
  \/ SortsDueIntents \/ CheckRoom \/ PassEnds \/ NoSeatForRole \/ PreflightRefuses
  \/ \E x \in Runs : TickQueuesRun(x)
  \/ RunNotStarted \/ RunRejected \/ DropRejected \/ RunStarted \/ CountAgain


-----------------------------------------------------------------------------
(* Control commands *)

Goes(c, from, to) == cmd[c].at = from /\ cmd' = [cmd EXCEPT ![c].at = to]

Ends(c, from) == cmd[c].at = from /\ cmd' = [cmd EXCEPT ![c] = CommandIdle]

Begins(c, to, p) ==
  /\ cmd[c] = CommandIdle
  /\ cmd' = [cmd EXCEPT ![c] = [CommandIdle EXCEPT !.at = to, !.project = p,
                                                   !.configuration = configuration[p]]]

\* project.pause and project.resume
SetPaused(p) ==
  /\ "pause" \in Env
  /\ configuration' = [configuration EXCEPT ![p].paused = ~@]
  /\ UNCHANGED <<consent, intents, runs, plans, turns, projectTurns, tick, cmd, history>>

\* consent.grant and consent.revoke
SetConsent(p) ==
  /\ "consent" \in Env
  /\ consent' = [consent EXCEPT ![p] = ~@]
  /\ UNCHANGED <<configuration, intents, runs, plans, turns, projectTurns, tick, cmd, history>>

\* config.write: the configuration first, then what sync_automation does.  In
\* these instances only project.pause pauses.
WriteConfiguration(c, p, new) ==
  /\ "config" \in Env
  /\ ~new.paused
  /\ new.automation \/ "pause" \in Env
  /\ cmd[c] = CommandIdle
  /\ configuration' = [configuration EXCEPT ![p] = new]
  /\ cmd' = [cmd EXCEPT ![c] = [CommandIdle EXCEPT !.at = "sync", !.project = p,
                                                   !.configuration = new]]
  /\ spent' = [spent EXCEPT ![p] = {}]
  /\ UNCHANGED <<consent, intents, runs, plans, turns, projectTurns, tick, starts>>

\* The roles to activate are those without an intent at this moment.
SyncLists(c) ==
  LET new == cmd[c].configuration.continuous \ WithIntent(cmd[c].project) IN
  /\ cmd[c].at = "sync"
  /\ cmd' = [cmd EXCEPT ![c].at = "drop",
                        ![c].todo = Keep(RoleOrder, new)]
  /\ UNCHANGED <<rows, turns, projectTurns, tick, history>>

\* drop_role_intents
SyncDrops(c) ==
  LET p == cmd[c].project IN
  /\ Goes(c, "drop", "activate")
  /\ intents' = [intents EXCEPT ![p] = [r \in Roles |->
       IF r \in cmd[c].configuration.continuous THEN @[r] ELSE None]]
  /\ UNCHANGED <<configuration, consent, runs, plans, turns, projectTurns, tick, history>>

\* Does anything still name this activation?
Remembered(a) ==
  \/ \E p \in Projects, r \in Roles : intents[p][r] # None /\ intents[p][r].id = a
  \/ \E r \in Roles : tick.copies[r] # None /\ tick.copies[r].id = a
  \/ \E x \in Runs : runs[x] # None /\ runs[x].intent = a

\* activate_intent: whatever row the role has by now is replaced.
Activate(c, a) ==
  LET p == cmd[c].project
      r == Head(cmd[c].todo) IN
  /\ cmd[c].at = "activate"
  /\ cmd[c].todo # <<>>
  /\ ~Remembered(a)
  /\ SaveIntent(p, r, [id |-> a, started |-> 0, due |-> TRUE])
  /\ starts' = [s \in Roles |-> [starts[s] EXCEPT ![a] = 0]]
  /\ turns' = [turns EXCEPT ![p] = Without(@, {r})]
  /\ cmd' = [cmd EXCEPT ![c].todo = Tail(@)]
  /\ UNCHANGED <<configuration, consent, runs, plans, projectTurns, tick, spent>>

SyncEnds(c) ==
  /\ cmd[c].todo = <<>>
  /\ Ends(c, "activate")
  /\ UNCHANGED <<rows, turns, projectTurns, tick, history>>

\* plan.read reads the configuration, counts device and project,
PlanReads(c, p) ==
  /\ "manual" \in Env
  /\ Begins(c, "budget", p)
  /\ UNCHANGED <<rows, turns, projectTurns, tick, history>>

PlanCounts(c, want) ==
  /\ cmd[c].at = "budget"
  /\ cmd' = [cmd EXCEPT ![c].at = "grant", ![c].budget = Room(cmd[c].project),
                        ![c].want = want,
                        ![c].todo = Keep(RoleOrder, {r \in Roles : want[r] > 0})]
  /\ UNCHANGED <<rows, turns, projectTurns, tick, history>>

\* grants each role in turn, with a diagnosis of its provider in between,
PlanGrants(c, available) ==
  LET k == cmd[c]
      r == Head(k.todo)
      least == Smaller(Smaller(k.want[r], RoleRemaining(k.project, r)), k.budget)
      limited == IF ExecutionLimit[r] > 0 THEN Smaller(least, ExecutionLimit[r]) ELSE least
      granted == IF available /\ ~k.configuration.paused THEN limited ELSE 0 IN
  /\ k.at = "grant"
  /\ k.todo # <<>>
  /\ available \/ "refuses" \in Env
  /\ cmd' = [cmd EXCEPT ![c].todo = Tail(@), ![c].budget = @ - granted,
                        ![c].granted[r] = granted]
  /\ UNCHANGED <<rows, turns, projectTurns, tick, history>>

\* and takes the fingerprint last; an id that names no plan is a new one.
PlanSaves(c, i) ==
  /\ cmd[c].todo = <<>>
  /\ Ends(c, "grant")
  /\ plans[i] = None
  /\ \A d \in Clients : cmd[d].plan # i
  /\ plans' = [plans EXCEPT ![i] =
       [project |-> cmd[c].project, granted |-> cmd[c].granted,
        revision |-> RuntimeRevision(cmd[c].configuration)]]
  /\ UNCHANGED <<configuration, consent, intents, runs, turns, projectTurns, tick, history>>

\* An expired plan is refused when it is taken and pruned with the next save;
\* either way nothing is started from it.
PlanExpires(i) ==
  /\ plans[i] # None
  /\ plans' = [plans EXCEPT ![i] = None]
  /\ UNCHANGED <<configuration, consent, intents, runs, turns, projectTurns, tick, cmd, history>>

\* run.start reads the configuration,
StartReads(c, p) ==
  /\ "manual" \in Env
  /\ Begins(c, "take", p)
  /\ UNCHANGED <<rows, turns, projectTurns, tick, history>>

(* Seeded fault: the plan is read and stays.                               *)
ReadPlan(c, i) ==
  /\ cmd[c].at = "take"
  /\ plans[i] # None
  /\ plans[i].project = cmd[c].project
  /\ cmd' = [cmd EXCEPT ![c].at = "confirm", ![c].plan = i, ![c].taken = plans[i]]
  /\ UNCHANGED <<rows, turns, projectTurns, tick, history>>

\* takes the plan, which deletes it,
TakePlan(c, i) ==
  /\ cmd[c].at = "take"
  /\ plans[i] # None
  /\ plans[i].project = cmd[c].project
  /\ plans' = [plans EXCEPT ![i] = None]
  /\ cmd' = [cmd EXCEPT ![c].at = "confirm", ![c].plan = i, ![c].taken = plans[i]]
  /\ UNCHANGED <<configuration, consent, intents, runs, turns, projectTurns, tick, history>>

PlanNotFound(c) ==
  /\ Ends(c, "take")
  /\ UNCHANGED <<rows, turns, projectTurns, tick, history>>

RuntimeChanged(c) ==
  /\ Ends(c, "confirm")
  /\ cmd[c].taken.revision # RuntimeRevision(cmd[c].configuration)
  /\ UNCHANGED <<rows, turns, projectTurns, tick, history>>

\* and, when nothing moved, starts what was granted without counting again.
ConfirmPlan(c) ==
  LET granted == cmd[c].taken.granted IN
  /\ cmd[c].at = "confirm"
  /\ cmd[c].taken.revision = RuntimeRevision(cmd[c].configuration)
  /\ cmd' = [cmd EXCEPT ![c].at = "start", ![c].taken = None, ![c].granted = granted,
                        ![c].todo = Keep(RoleOrder, {r \in Roles : granted[r] > 0})]
  /\ UNCHANGED <<rows, turns, projectTurns, tick, history>>

StartQueuesRun(c, x) ==
  /\ cmd[c].at = "start"
  /\ cmd[c].todo # <<>>
  /\ consent[cmd[c].project]
  /\ QueueOneRun(x, cmd[c].project, Head(cmd[c].todo), None)
  /\ cmd' = [cmd EXCEPT ![c].at = "await", ![c].run = x]
  /\ UNCHANGED <<configuration, consent, intents, plans, turns, tick, history>>

\* Another run of this role, if one is left to start.
StartedOne(c) ==
  LET r == Head(cmd[c].todo)
      left == cmd[c].granted[r] - 1 IN
  /\ cmd[c].at = "await"
  /\ SeenStarted(cmd[c].run)
  /\ cmd' = [cmd EXCEPT ![c].at = "start", ![c].run = None, ![c].granted[r] = left,
                        ![c].todo = IF left = 0 THEN Tail(@) ELSE @]
  /\ UNCHANGED <<rows, turns, projectTurns, tick, history>>

\* The preflight refused or the run failed: the role is over.
StartLeavesRole(c) ==
  /\ \/ /\ cmd[c].at = "start"
        /\ cmd[c].todo # <<>>
        /\ ~consent[cmd[c].project] \/ "refuses" \in Env
     \/ /\ cmd[c].at = "await"
        /\ ~SeenStarted(cmd[c].run)
  /\ cmd' = [cmd EXCEPT ![c].at = "start", ![c].run = None, ![c].todo = Tail(@),
                        ![c].granted[Head(cmd[c].todo)] = 0]
  /\ UNCHANGED <<rows, turns, projectTurns, tick, history>>

StartEnds(c) ==
  /\ cmd[c].todo = <<>>
  /\ Ends(c, "start")
  /\ UNCHANGED <<rows, turns, projectTurns, tick, history>>

\* run.retry counts nothing.
RetryReads(c, p) ==
  /\ "manual" \in Env
  /\ Begins(c, "retry", p)
  /\ UNCHANGED <<rows, turns, projectTurns, tick, history>>

RetryQueuesRun(c, x, r) ==
  /\ cmd[c].at = "retry"
  /\ consent[cmd[c].project]
  /\ QueueOneRun(x, cmd[c].project, r, None)
  /\ cmd' = [cmd EXCEPT ![c].at = "retried", ![c].run = x]
  /\ UNCHANGED <<configuration, consent, intents, plans, turns, tick, history>>

\* With the run's result, whatever it is, or refused by the preflight.
RetryEnds(c) ==
  /\ \/ Ends(c, "retried")
     \/ Ends(c, "retry") /\ (~consent[cmd[c].project] \/ "refuses" \in Env)
  /\ UNCHANGED <<rows, turns, projectTurns, tick, history>>

CommandDies(c) ==
  /\ "dies" \in Env
  /\ cmd[c] # CommandIdle
  /\ cmd' = [cmd EXCEPT ![c] = CommandIdle]
  /\ UNCHANGED <<rows, turns, projectTurns, tick, history>>

ConfigWrite(c) ==
  \/ \E p \in Projects, new \in Configuration : WriteConfiguration(c, p, new)
  \/ SyncLists(c) \/ SyncDrops(c) \/ SyncEnds(c)
  \/ \E a \in Activations : Activate(c, a)

Manual(c) ==
  \/ \E p \in Projects : PlanReads(c, p) \/ StartReads(c, p) \/ RetryReads(c, p)
  \/ \E want \in Requests : PlanCounts(c, want)
  \/ \E available \in BOOLEAN : PlanGrants(c, available)
  \/ \E i \in PlanIds : PlanSaves(c, i) \/ TakePlan(c, i)
  \/ PlanNotFound(c) \/ RuntimeChanged(c) \/ ConfirmPlan(c)
  \/ \E x \in Runs : StartQueuesRun(c, x) \/ \E r \in Roles : RetryQueuesRun(c, x, r)
  \/ StartedOne(c) \/ StartLeavesRole(c) \/ StartEnds(c) \/ RetryEnds(c)

Environment ==
  \/ \E x \in Runs : RunServes(x) \/ RunGivesUp(x) \/ RunEnds(x)
                     \/ RunDropped(x) \/ RunAdopted(x)
  \/ \E late \in SUBSET (Projects \X Roles) : TimePasses(late)
  \/ \E p \in Projects : WatcherLists(p) \/ SetPaused(p) \/ SetConsent(p)
  \/ \E i \in PlanIds : PlanExpires(i)
  \/ DispatcherDies
  \/ \E c \in Clients : CommandDies(c)

Next ==
  \/ Dispatcher
  \/ \E c \in Clients : ConfigWrite(c) \/ Manual(c)
  \/ Environment

\* Every role repeats and has its intent, as the first config.write left it.
Init ==
  /\ configuration = [p \in Projects |->
       [paused |-> FALSE, automation |-> TRUE, continuous |-> Roles]]
  /\ consent = [p \in Projects |-> TRUE]
  /\ intents \in [Projects -> [Roles -> [id : Activations, started : {0}, due : {TRUE}]]]
  /\ \A p, q \in Projects, r, s \in Roles :
       intents[p][r].id = intents[q][s].id => p = q /\ r = s
  /\ runs = [x \in Runs |-> None]
  /\ plans = [i \in PlanIds |-> None]
  /\ turns = [p \in Projects |-> <<>>]
  /\ projectTurns = <<>>
  /\ tick = TickIdle
  /\ cmd = [c \in Clients |-> CommandIdle]
  /\ starts = [r \in Roles |-> [a \in Activations |-> 0]]
  /\ spent = [p \in Projects |-> {}]

Spec == Init /\ [][Next]_vars

-----------------------------------------------------------------------------
(* Properties *)

\* The runs of these projects and roles that a tick has queued.
Automatic(ps, rs) ==
  {x \in Runs : /\ runs[x] # None
                /\ runs[x].intent # None
                /\ runs[x].project \in ps
                /\ runs[x].role \in rs}

\* The runs a dispatcher queued never exceed a limit: whatever was queued by
\* hand beside it, dropped with cleanup left, adopted again or ended while it
\* waited for another run, a tick that adds one has counted every held slot.
AutomaticWithinLimits ==
  /\ Cardinality(Automatic(Projects, Roles)) <= DeviceMax
  /\ \A p \in Projects :
       /\ Cardinality(Automatic({p}, Roles)) <= ProjectMax[p]
       /\ \A r \in Roles : Cardinality(Automatic({p}, {r})) <= RoleMax[r]

\* An activation never serves more often than executionLimit, although its
\* count lives in copies that are written back over whatever a config.write or
\* a file event left in the row in the meantime.
WithinExecutionLimit ==
  \A r \in Roles, a \in Activations : starts[r][a] <= ExecutionLimit[r]

\* A plan is good for one run.start: once taken nobody else finds it, and two
\* commands never start from the same plan.
PlanHasOneTaker ==
  \A i \in PlanIds :
    LET takers == {c \in Clients : cmd[c].plan = i} IN
    /\ Cardinality(takers) <= 1
    /\ plans[i] # None => takers = {}

\* Is a tick of this project allowed to assign?
Assigns(p) == MayAssign(p, configuration[p])

\* Scarce slots move between roles and projects: as long as a role repeats and
\* runs end, it gets a run again and again.  This is what re-sorting by
\* lastAssignedAt is for (agent_dispatch.py:1778); it needs the poll intervals to
\* elapse together.
RoleServed ==
  \A p \in Projects, r \in Roles :
    <>[](Assigns(p) /\ r \in configuration[p].continuous)
      => []<>(\E x \in Runs : runs[x] # None /\ runs[x].project = p /\ runs[x].role = r)

\* A role that was saved as once loses its intent for good, even when a tick
\* that began before writes its own copy back after the row was dropped.
RoleStops ==
  \A p \in Projects, r \in Roles :
    <>[](Assigns(p) /\ r \notin configuration[p].continuous)
      => <>[](intents[p][r] = None)

\* "automationEnabled on and the role saved as continuous: the runtime stores
\* one automatic intent for the role" (docs/agent-runtime-contract.md:198): once
\* every command and the tick are done, a continuous role has its intent, unless
\* a tick ended it for its limit or a rejected request.
RepeatingRoleHasIntent ==
  tick = TickIdle /\ (\A c \in Clients : cmd[c] = CommandIdle)
    => \A p \in Projects : \A r \in configuration[p].continuous :
         intents[p][r] # None \/ r \in spent[p]

\* "One project's broken configuration or provider never ends the sweep"
\* (tick_all_projects, agent_dispatch.py:1864): every project's tick comes again
\* and again.
EveryProjectIsTicked == \A p \in Projects : []<>(tick.project = p)

\* Between ticks the dispatcher sleeps, and a run takes far longer than a tick.
Asleep == tick.at = "idle"

\* The dispatcher keeps ticking and finishes what it began; time passes; runs
\* start or fail, and end, and not always just inside a tick.
Fairness ==
  /\ WF_vars(Dispatcher)
  /\ SF_vars(TimePasses(Projects \X Roles))
  /\ WF_vars(\E x \in Runs : RunServes(x) \/ RunGivesUp(x) \/ RunEnds(x))
  /\ SF_vars(Asleep /\ \E x \in Runs : RunServes(x))
  /\ SF_vars(Asleep /\ \E x \in Runs : RunEnds(x))

-----------------------------------------------------------------------------
(* The invariant the safety properties rest on                             *)

\* A tick works on a project, and has a copy of each intent it still looks at.
TickInv ==
  /\ tick.at \notin {"idle", "next"} => tick.project \in Projects
  /\ \A r \in ToSet(tick.todo) \cup ToSet(tick.due) : tick.copies[r] # None
  /\ tick.at \in {"room", "pass", "await", "rejected", "after"} => tick.todo = <<>>
  /\ tick.at \in {"await", "rejected", "after"} => tick.run \in Runs /\ tick.pass # <<>>
  /\ tick.at \notin {"pass", "await", "rejected", "after"} => tick.pass = <<>>
  /\ tick.at \in {"wake", "next", "recovered"} => tick.due = <<>>
  /\ tick.at = "idle" => tick = TickIdle

\* Each role has one turn.
TurnsInv == \A p \in Projects : IsInjective(turns[p])

\* A round serves each role once, and only roles that are still due.
RoundInv ==
  /\ IsInjective(tick.pass)
  /\ ToSet(tick.pass) \subseteq ToSet(tick.due)
  /\ tick.at \in {"room", "pass", "await", "rejected", "after"} => IsInjective(tick.due)

CommandInv ==
  \A c \in Clients :
    /\ cmd[c].at # "idle" => cmd[c].project \in Projects
    /\ cmd[c].at = "confirm" => cmd[c].taken # None
    /\ cmd[c].at \in {"start", "await"} =>
         /\ IsInjective(cmd[c].todo)
         /\ \A r \in ToSet(cmd[c].todo) : cmd[c].granted[r] > 0
    /\ cmd[c].at = "await" => cmd[c].todo # <<>>

\* A taken plan is gone and has one taker.
PlanInv ==
  \A c \in Clients :
    cmd[c].plan # None => /\ plans[cmd[c].plan] = None
                          /\ \A d \in Clients : cmd[d].plan = cmd[c].plan => d = c

Base ==
  /\ TypeOK /\ TickInv /\ TurnsInv /\ RoundInv /\ CommandInv /\ PlanInv
  /\ IsFiniteSet({x \in Runs : runs[x] # None})

\* The run a tick waits for is the one it queued.  Only a run that is dropped
\* meanwhile ends the wait and keeps its slot.
AwaitedWorks ==
  tick.at = "await" /\ runs[tick.run] # None =>
    /\ runs[tick.run].state \in Active
    /\ runs[tick.run].role = Served
    /\ runs[tick.run].intent = tick.copies[Served].id

\* Since the last count of a tick its project and the device have a free slot
\* besides the one of the run it waits for.
Awaits == IF tick.at = "await" THEN {tick.run} ELSE {}
RoomInv ==
  tick.at \in {"pass", "await", "rejected"} =>
    /\ Cardinality(Automatic(Projects, Roles) \ Awaits) < DeviceMax
    /\ Cardinality(Automatic({tick.project}, Roles) \ Awaits) < ProjectMax[tick.project]

\* The runs of an activation that have served or still may, and among them the
\* one the tick has not counted yet.
Pending(r, a) == {x \in Runs : /\ runs[x] # None /\ runs[x].state = "queued"
                               /\ runs[x].role = r /\ runs[x].intent = a}
Uncounted(r, a) ==
  IF /\ tick.at = "await" /\ runs[tick.run] # None
     /\ runs[tick.run].role = r /\ runs[tick.run].intent = a THEN 1 ELSE 0
Promised(r, a) == starts[r][a] + Cardinality(Pending(r, a))
CountsAll(r, i) ==
  ExecutionLimit[r] > 0 => Promised(r, i.id) <= i.started + Uncounted(r, i.id)

\* An activation is the intent of one role of one project, in every copy.
Named(a, p, r) ==
  \/ intents[p][r] # None /\ intents[p][r].id = a
  \/ p = tick.project /\ tick.copies[r] # None /\ tick.copies[r].id = a
OneSlotEach ==
  \A a \in Activations, p, q \in Projects, r, s \in Roles :
    Named(a, p, r) /\ Named(a, q, s) => p = q /\ r = s

\* Every row, and every copy that may be written back, has counted what its
\* activation has had.
Kept(r) ==
  {intents[p][r] : p \in Projects}
    \cup {tick.copies[s] : s \in {r} \cap (ToSet(tick.todo) \cup ToSet(tick.due))}
CountInv ==
  /\ \A r \in Roles, a \in Activations :
       IF ExecutionLimit[r] > 0 THEN Promised(r, a) <= ExecutionLimit[r]
                                ELSE starts[r][a] = 0
  /\ \A r \in Roles : \A i \in Kept(r) \ {None} : CountsAll(r, i)
  /\ \A r \in ToSet(tick.due) : ~AtLimit(tick.copies[r], r)

\* The tick counts slots again after every run but one that reached the limit of
\* its activation, or was dropped while the tick waited for it.
CountsEachTime ==
  /\ \A r \in Roles : ExecutionLimit[r] = 0
  /\ ~({"drops", "quick"} \subseteq Env)

\* No run is over before its starter has looked, and the dispatcher does not die
\* between starting a run and counting it.
SeesEachRun == "quick" \notin Env /\ "crash" \notin Env

IInv ==
  /\ Base
  /\ CountsEachTime => AwaitedWorks /\ RoomInv /\ AutomaticWithinLimits
  /\ SeesEachRun => AwaitedWorks /\ OneSlotEach /\ CountInv
=============================================================================
