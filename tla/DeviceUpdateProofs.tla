-------------------------- MODULE DeviceUpdateProofs --------------------------
(***************************************************************************)
(* Proofs about the update of a device, for any versions, updating         *)
(* processes and troubles.  The argument: only one update or migration is  *)
(* between its steps, so what it has read stays so until it writes, but    *)
(* for the daemons, which come and go by themselves; and a daemon that     *)
(* starts loads what is installed, so only one that went on running can be *)
(* of another version.                                                     *)
(***************************************************************************)
EXTENDS DeviceUpdate, TLAPS

ApplyPcs == {"planned", "switch", "service", "check", "prune"}
PullPcs == {"merge", "deps", "decide", "restart"}

\* What TypeOK rests on: an update has a version to go to.
Typed ==
  /\ TypeOK
  /\ \A u \in Updaters : update[u].pc \in ApplyPcs \cup PullPcs => update[u].target \in Versions
  /\ migration.own = "ours" => Platform = "launchd"

\* Who is between two steps: nobody who was not asked, and one at a time.
InProgress ==
  /\ \A u \in Updaters : /\ update[u].pc \in ApplyPcs => "apply" \in env
                         /\ update[u].pc \in PullPcs => "git" \in env
  /\ migration.pc # "idle" => "migrate" \in env
OneUpdate ==
  "two" \notin env =>
    \A u, w \in Updaters : update[u].pc # "idle" /\ update[w].pc # "idle" => u = w

\* The devices an env leaves out.
OwnDown == migration.pc = "idle" => (own = "none" => code["own"] = None)
Strangers ==
  /\ "manual" \notin env => code["manual"] = None
  /\ "service" \notin env => code["manual"] = None
  /\ "foreign" \notin env => /\ foreign = "none" /\ code["foreign"] = None
                            /\ migration.foreign = "none" /\ migration.pc # "disable"
Registered == "migrate" \notin env /\ "registered" \notin env => own = "none"

\* The launcher, and what an update in progress knows of it.
Switched(u) ==
  /\ update[u].pc = "switch" =>
       update[u].before = installed /\ update[u].plan.installed = installed
  /\ update[u].pc \in {"service", "check", "prune"} =>
       /\ installed = update[u].target
       /\ update[u].before \in Versions /\ dirs[update[u].before] = "intact"
  /\ update[u].pc \in {"check", "prune"} /\ Asked({"apply"}) =>
       update[u].failed \/ code["own"] \in {None, update[u].target}
  /\ update[u].pc = "prune" => ~update[u].failed

\* What heartbeat update knows: the version string a daemon announced is that of
\* the code it runs, and only dependencies that are being installed are old.
Announced ==
  Asked({"git"}) /\ announced.who # None =>
    code[announced.who] # None /\ VersionString[code[announced.who]] = announced.version
SeenIsOwn(u) ==
  /\ Asked({"git"}) /\ update[u].pc = "restart" /\ "registered" \in env
  /\ {"manual", "foreign"} \cap env = {}
  => update[u].seen \in {None, "own"}
DepsKept ==
  Asked({"git"}) /\ {"two", "fails", "dies"} \cap env = {} =>
    deps = installed \/ \E u \in Updaters : update[u].pc = "deps"

\* What a migration has found, and what of it is still there at each step.
WayBack == migration.own # "ours" /\ ~(migration.own = "none" /\ migration.foreign = "none")
FoundUp == "service" \notin env => migration.up \subseteq {d \in Daemons : Up(d)}
AsFound == own = migration.own /\ foreign = migration.foreign
InMigration ==
  Asked({"migrate"}) =>
    /\ migration.pc \in {"idle", "disable", "unload", "stop", "write", "load", "verify", "restore"}
         => migration.clean
    /\ migration.pc = "disable" => Platform = "launchd"
    /\ migration.pc = "unload" => Platform = "launchd"
    /\ migration.pc = "stop" => Platform = "systemd" /\ migration.own # "none"
    /\ migration.pc \in {"disable", "unload"} =>
         own = "none" /\ migration.own = "none" /\ migration.foreign # "none"
    /\ migration.pc \in {"disable", "stop"} => AsFound /\ FoundUp
    /\ migration.pc \in {"write", "load", "verify", "restore"} /\ WayBack =>
         /\ Platform # "launchd" => foreign = migration.foreign
         /\ Platform # "launchd" => migration.own # "none"
         /\ Platform = "launchd" => migration.own = "none" /\ migration.foreign # "none"
         /\ Platform = "tasks" => FoundUp
    /\ migration.pc \in {"disable", "unload", "write", "load", "verify", "restore"}
         /\ Platform = "launchd" /\ WayBack /\ "service" \notin env
         => migration.up \subseteq {"foreign"}
    /\ migration.pc # "idle" /\ Platform # "launchd" /\ "service" \notin env
         => migration.up \subseteq {"own"}
    /\ migration.pc \in {"refused", "failed"} /\ migration.clean /\ WayBack => AsFound /\ FoundUp

ServiceInv == OwnDown /\ Strangers /\ Registered
ApplyInv ==
  /\ LauncherRuns
  /\ Asked({"migrate"}) => dirs[installed] = "intact"
  /\ {"two", "git"} \cap env = {} => \A u \in Updaters : Switched(u)
PullInv == Announced /\ DepsKept /\ (\A u \in Updaters : SeenIsOwn(u)) /\ OkMeansCurrent

IInv == Typed /\ InProgress /\ OneUpdate /\ ServiceInv /\ ApplyInv /\ PullInv /\ InMigration

-----------------------------------------------------------------------------
(* Types.                                                                  *)

LEMMA LoadsTyped == ASSUME TypeOK PROVE Loads \in VersionOrNone
  BY DEF TypeOK, Loads, VersionOrNone

LEMMA FactsTyped == ASSUME TypeOK, NEW v \in Versions PROVE Facts(v) \in FactsRecords
  BY DEF TypeOK, Facts, FactsRecords, InstalledVersion, VersionOrNone, Up

LEMMA NoneTyped == NoUpdate \in UpdateRecords /\ NoMigration \in MigrationRecords
<1>1. NoFacts \in FactsRecords
  BY DEF NoFacts, FactsRecords, VersionOrNone
<1> QED
  BY <1>1 DEF NoUpdate, NoMigration, UpdateRecords, MigrationRecords, VersionOrNone

LEMMA TypeInit == Init => TypeOK
<1> SUFFICES ASSUME Init PROVE TypeOK
  OBVIOUS
<1>1. own \in {"none", "old", "new"} /\ foreign \in {"none", "enabled", "disabled"}
  BY DEF Init
<1>2. code \in [Daemons -> VersionOrNone]
  BY VersionsAssumption DEF Init, VersionOrNone
<1> QED
  BY <1>1, <1>2, NoneTyped, VersionsAssumption DEF Init, TypeOK, VersionOrNone, StringOrNone

LEMMA RestartsTyped ==
  ASSUME TypeOK, NEW failed \in BOOLEAN, Restarts(RestartStatus(failed))
  PROVE  code' \in [Daemons -> VersionOrNone]
  BY LoadsTyped DEF TypeOK, Restarts, RestartStatus, VersionOrNone

LEMMA FailsBoolean == \A failed \in Fails : failed \in BOOLEAN
<1>1. CASE "fails" \in env
  <2>1. ("fails" \in env) = TRUE
    BY <1>1
  <2> QED BY <2>1 DEF Fails
<1>2. CASE "fails" \notin env
  <2>1. ("fails" \in env) = FALSE
    BY <1>2
  <2> QED BY <2>1 DEF Fails
<1> QED BY <1>1, <1>2

-----------------------------------------------------------------------------
(* What a step of u makes of the updates.                                  *)

Moves(u, pc) ==
  /\ update' \in [Updaters -> UpdateRecords] /\ update'[u].pc = pc
  /\ \A w \in Updaters : w # u => update'[w] = update[w]

LEMMA DoesMoves ==
  ASSUME TypeOK, NEW u \in Updaters, NEW r \in UpdateRecords, Does(u, r)
  PROVE  Moves(u, r.pc) /\ update'[u] = r
  BY DEF TypeOK, Does, Moves

\* What an update keeps of its own as it goes on.
Remembers(u) ==
  /\ update'[u].target = update[u].target /\ update'[u].plan = update[u].plan
  /\ update'[u].before = update[u].before

Pcs == {"idle", "merge", "deps", "decide", "restart", "done"} \cup ApplyPcs
Results == {"success", "failure", "partial_success", "plan_stale", "ok", "partial", "failed"}

LEMMA BeginsPlan ==
  ASSUME TypeOK, NEW u \in Updaters, NEW v \in Versions,
         Does(u, [NoUpdate EXCEPT !.pc = "planned", !.target = v, !.plan = Facts(v)])
  PROVE  Moves(u, "planned") /\ update'[u].target = v
<1> DEFINE r == [NoUpdate EXCEPT !.pc = "planned", !.target = v, !.plan = Facts(v)]
<1>1. r \in UpdateRecords /\ r.pc = "planned" /\ r.target = v
  BY NoneTyped, FactsTyped DEF UpdateRecords, VersionOrNone
<1> QED BY <1>1, DoesMoves

LEMMA BeginsMerge ==
  ASSUME TypeOK, NEW u \in Updaters,
         Does(u, [NoUpdate EXCEPT !.pc = "merge", !.target = upstream])
  PROVE  Moves(u, "merge") /\ update'[u].target = upstream
<1> DEFINE r == [NoUpdate EXCEPT !.pc = "merge", !.target = upstream]
<1>1. r \in UpdateRecords /\ r.pc = "merge" /\ r.target = upstream
  BY NoneTyped DEF UpdateRecords, VersionOrNone, TypeOK
<1> QED BY <1>1, DoesMoves

LEMMA FailsAtOnce ==
  ASSUME TypeOK, NEW u \in Updaters,
         Does(u, [NoUpdate EXCEPT !.pc = "done", !.result = "failed"])
  PROVE  Moves(u, "done") /\ update'[u].result = "failed"
<1> DEFINE r == [NoUpdate EXCEPT !.pc = "done", !.result = "failed"]
<1>1. r \in UpdateRecords /\ r.pc = "done" /\ r.result = "failed"
  BY NoneTyped DEF UpdateRecords, VersionOrNone, TypeOK
<1> QED BY <1>1, DoesMoves

LEMMA EndsUpdate ==
  ASSUME TypeOK, NEW u \in Updaters, Does(u, NoUpdate)
  PROVE  Moves(u, "idle")
  BY NoneTyped, DoesMoves DEF NoUpdate

LEMMA GoesOn ==
  ASSUME TypeOK, NEW u \in Updaters, NEW pc \in Pcs, Does(u, [update[u] EXCEPT !.pc = pc])
  PROVE  Moves(u, pc) /\ Remembers(u) /\ update'[u].failed = update[u].failed
<1> DEFINE r == [update[u] EXCEPT !.pc = pc]
<1>1. update[u] \in UpdateRecords
  BY DEF TypeOK
<1>2. r \in UpdateRecords
  BY <1>1 DEF UpdateRecords, Pcs, ApplyPcs
<1>3. /\ r.pc = pc /\ r.target = update[u].target /\ r.plan = update[u].plan
      /\ r.before = update[u].before /\ r.failed = update[u].failed
  BY <1>1 DEF UpdateRecords
<1>4. Moves(u, r.pc) /\ update'[u] = r
  BY <1>2, DoesMoves
<1> HIDE DEF r
<1> QED BY <1>3, <1>4 DEF Remembers

LEMMA AnswersMoves ==
  ASSUME TypeOK, NEW u \in Updaters, NEW result \in Results, Answers(u, result)
  PROVE  /\ Moves(u, "done") /\ Remembers(u) /\ update'[u].result = result
         /\ update'[u].seen = update[u].seen
<1> DEFINE r == [update[u] EXCEPT !.pc = "done", !.result = result]
<1>1. update[u] \in UpdateRecords
  BY DEF TypeOK
<1>2. r \in UpdateRecords
  BY <1>1 DEF UpdateRecords, Results
<1>3. /\ r.pc = "done" /\ r.target = update[u].target /\ r.plan = update[u].plan
      /\ r.before = update[u].before /\ r.result = result /\ r.seen = update[u].seen
  BY <1>1 DEF UpdateRecords
<1>4. Moves(u, r.pc) /\ update'[u] = r
  BY <1>2, DoesMoves DEF Answers
<1> HIDE DEF r
<1> QED BY <1>3, <1>4 DEF Remembers

LEMMA SwitchMoves ==
  ASSUME TypeOK, NEW u \in Updaters, NEW v \in VersionOrNone,
         Does(u, [update[u] EXCEPT !.pc = "switch", !.before = v])
  PROVE  /\ Moves(u, "switch") /\ update'[u].target = update[u].target
         /\ update'[u].plan = update[u].plan /\ update'[u].before = v
<1> DEFINE r == [update[u] EXCEPT !.pc = "switch", !.before = v]
<1>1. update[u] \in UpdateRecords
  BY DEF TypeOK
<1>2. r \in UpdateRecords
  BY <1>1 DEF UpdateRecords
<1>3. /\ r.pc = "switch" /\ r.target = update[u].target /\ r.plan = update[u].plan
      /\ r.before = v
  BY <1>1 DEF UpdateRecords
<1>4. Moves(u, r.pc) /\ update'[u] = r
  BY <1>2, DoesMoves
<1> HIDE DEF r
<1> QED BY <1>3, <1>4 DEF Remembers

LEMMA CheckMoves ==
  ASSUME TypeOK, NEW u \in Updaters, NEW failed \in BOOLEAN,
         Does(u, [update[u] EXCEPT !.pc = "check", !.failed = failed])
  PROVE  Moves(u, "check") /\ Remembers(u) /\ update'[u].failed = failed
<1> DEFINE r == [update[u] EXCEPT !.pc = "check", !.failed = failed]
<1>1. update[u] \in UpdateRecords
  BY DEF TypeOK
<1>2. r \in UpdateRecords
  BY <1>1 DEF UpdateRecords
<1>3. /\ r.pc = "check" /\ r.target = update[u].target /\ r.plan = update[u].plan
      /\ r.before = update[u].before /\ r.failed = failed
  BY <1>1 DEF UpdateRecords
<1>4. Moves(u, r.pc) /\ update'[u] = r
  BY <1>2, DoesMoves
<1> HIDE DEF r
<1> QED BY <1>3, <1>4 DEF Remembers

LEMMA MergeMoves ==
  ASSUME TypeOK, NEW u \in Updaters, Does(u, [update[u] EXCEPT !.pc = "deps", !.moved = TRUE])
  PROVE  Moves(u, "deps") /\ Remembers(u)
<1> DEFINE r == [update[u] EXCEPT !.pc = "deps", !.moved = TRUE]
<1>1. update[u] \in UpdateRecords
  BY DEF TypeOK
<1>2. r \in UpdateRecords
  BY <1>1 DEF UpdateRecords
<1>3. /\ r.pc = "deps" /\ r.target = update[u].target /\ r.plan = update[u].plan
      /\ r.before = update[u].before
  BY <1>1 DEF UpdateRecords
<1>4. Moves(u, r.pc) /\ update'[u] = r
  BY <1>2, DoesMoves
<1> HIDE DEF r
<1> QED BY <1>3, <1>4 DEF Remembers

LEMMA DecideRestarts ==
  ASSUME TypeOK, NEW u \in Updaters,
         Does(u, [update[u] EXCEPT !.pc = "restart", !.seen = announced.who])
  PROVE  Moves(u, "restart") /\ Remembers(u) /\ update'[u].seen = announced.who
<1> DEFINE r == [update[u] EXCEPT !.pc = "restart", !.seen = announced.who]
<1>1. update[u] \in UpdateRecords /\ announced.who \in Daemons \cup {None}
  BY DEF TypeOK
<1>2. r \in UpdateRecords
  BY <1>1 DEF UpdateRecords
<1>3. /\ r.pc = "restart" /\ r.target = update[u].target /\ r.plan = update[u].plan
      /\ r.before = update[u].before /\ r.seen = announced.who
  BY <1>1 DEF UpdateRecords
<1>4. Moves(u, r.pc) /\ update'[u] = r
  BY <1>2, DoesMoves
<1> HIDE DEF r
<1> QED BY <1>3, <1>4 DEF Remembers

LEMMA DecideEnds ==
  ASSUME TypeOK, NEW u \in Updaters,
         Does(u, [update[u] EXCEPT !.pc = "done", !.result = "ok", !.seen = announced.who])
  PROVE  /\ Moves(u, "done") /\ Remembers(u) /\ update'[u].seen = announced.who
         /\ update'[u].result = "ok" /\ update'[u].moved = update[u].moved
<1> DEFINE r == [update[u] EXCEPT !.pc = "done", !.result = "ok", !.seen = announced.who]
<1>1. update[u] \in UpdateRecords /\ announced.who \in Daemons \cup {None}
  BY DEF TypeOK
<1>2. r \in UpdateRecords
  BY <1>1 DEF UpdateRecords
<1>3. /\ r.pc = "done" /\ r.target = update[u].target /\ r.plan = update[u].plan
      /\ r.before = update[u].before /\ r.seen = announced.who /\ r.result = "ok"
      /\ r.moved = update[u].moved
  BY <1>1 DEF UpdateRecords
<1>4. Moves(u, r.pc) /\ update'[u] = r
  BY <1>2, DoesMoves
<1> HIDE DEF r
<1> QED BY <1>3, <1>4 DEF Remembers

-----------------------------------------------------------------------------
(* The steps of update.apply keep the types.                               *)

\* Everything but the updates is as it must be, and u has its version.
LEMMA MovesTyped ==
  ASSUME Typed, NEW u \in Updaters, NEW pc, Moves(u, pc),
         pc \in ApplyPcs \cup PullPcs => update'[u].target \in Versions,
         UNCHANGED <<env, dirs, upstream, own, foreign, workers, migration>>,
         installed' \in Versions, deps' \in Versions, code' \in [Daemons -> VersionOrNone],
         announced' \in [who : Daemons \cup {None}, version : StringOrNone]
  PROVE  Typed'
  BY DEF Typed, TypeOK, Moves, Platform

LEMMA ApplyTyped == ASSUME Typed, NEW u \in Updaters, Apply(u) PROVE Typed'
<1> USE DEF OutsideUpdates
<1> TypeOK
  BY DEF Typed
<1>1. CASE PlanUpdate(u)
  <2>1. PICK v \in Versions :
          Does(u, [NoUpdate EXCEPT !.pc = "planned", !.target = v, !.plan = Facts(v)])
    BY <1>1 DEF PlanUpdate
  <2> QED BY <1>1, <2>1, BeginsPlan, MovesTyped DEF PlanUpdate, TypeOK
<1>2. CASE ReadAgain(u)
  <2>1. update[u].target \in Versions
    BY <1>2 DEF Typed, ReadAgain, ApplyPcs
  <2>2. Facts(update[u].target).installed \in VersionOrNone
    BY <2>1, FactsTyped DEF FactsRecords
  <2>3. Moves(u, "done") \/ (Moves(u, "switch") /\ update'[u].target = update[u].target)
    BY <1>2, <2>2, AnswersMoves, SwitchMoves DEF ReadAgain, Results
  <2> QED BY <1>2, <2>1, <2>3, MovesTyped DEF ReadAgain, TypeOK, ApplyPcs, PullPcs
<1>3. CASE SwitchLauncher(u)
  <2>1. update[u].target \in Versions
    BY <1>3 DEF Typed, SwitchLauncher, ApplyPcs
  <2>2. \/ installed' = update[u].target /\ Does(u, [update[u] EXCEPT !.pc = "service"])
        \/ installed' = installed /\ Answers(u, "failure")
    BY <1>3 DEF SwitchLauncher
  <2>3. Moves(u, "done") \/ (Moves(u, "service") /\ update'[u].target = update[u].target)
    BY <2>2, AnswersMoves, GoesOn DEF Results, Pcs, ApplyPcs, Remembers
  <2> QED BY <1>3, <2>1, <2>2, <2>3, MovesTyped DEF SwitchLauncher, TypeOK, ApplyPcs, PullPcs
<1>4. CASE RestartService(u)
  <2>1. PICK failed \in Fails :
          /\ Restarts(RestartStatus(failed))
          /\ Does(u, [update[u] EXCEPT !.pc = "check", !.failed = RestartStatus(failed) = "failed"])
    BY <1>4 DEF RestartService
  <2>2. Moves(u, "check") /\ Remembers(u)
    BY <2>1, CheckMoves
  <2> QED BY <1>4, <2>1, <2>2, FailsBoolean, RestartsTyped, MovesTyped
         DEF RestartService, Typed, TypeOK, ApplyPcs, Remembers
<1>5. CASE CheckVersion(u)
  <2>1. Moves(u, "done") \/ (Moves(u, "prune") /\ Remembers(u))
    BY <1>5, AnswersMoves, GoesOn DEF CheckVersion, Results, Pcs, ApplyPcs
  <2> QED BY <1>5, <2>1, MovesTyped
         DEF CheckVersion, Typed, TypeOK, ApplyPcs, PullPcs, Remembers
<1>6. CASE Prune(u)
  BY <1>6 DEF Prune, Typed, TypeOK, Platform
<1>7. CASE Succeeds(u)
  <2>1. Moves(u, "done")
    BY <1>7, AnswersMoves DEF Succeeds, Results
  <2> QED BY <1>7, <2>1, MovesTyped DEF Succeeds, TypeOK, ApplyPcs, PullPcs
<1>8. CASE Finished(u)
  <2>1. Moves(u, "idle")
    BY <1>8, EndsUpdate DEF Finished
  <2> QED BY <1>8, <2>1, MovesTyped DEF Finished, TypeOK, ApplyPcs, PullPcs
<1> QED BY <1>1, <1>2, <1>3, <1>4, <1>5, <1>6, <1>7, <1>8 DEF Apply

LEMMA PullTyped == ASSUME Typed, NEW u \in Updaters, Pull(u) PROVE Typed'
<1> USE DEF OutsideUpdates
<1> TypeOK
  BY DEF Typed
<1>1. CASE Fetch(u)
  <2>1. Moves(u, "done") \/ (Moves(u, "merge") /\ update'[u].target = upstream)
    BY <1>1, BeginsMerge, FailsAtOnce DEF Fetch
  <2> QED BY <1>1, <2>1, MovesTyped DEF Fetch, TypeOK, ApplyPcs, PullPcs
<1>2. CASE Merge(u)
  <2>1. update[u].target \in Versions
    BY <1>2 DEF Typed, Merge, PullPcs
  <2>2. /\ \E pc \in Pcs : Moves(u, pc) /\ Remembers(u)
        /\ installed' \in {installed, update[u].target}
    BY <1>2, AnswersMoves, GoesOn, MergeMoves DEF Merge, Results, Pcs
  <2> QED BY <1>2, <2>1, <2>2, MovesTyped DEF Merge, TypeOK, Remembers
<1>3. CASE InstallDeps(u)
  <2>1. \E pc \in Pcs : Moves(u, pc) /\ Remembers(u)
    BY <1>3, AnswersMoves, GoesOn DEF InstallDeps, Results, Pcs
  <2> QED BY <1>3, <2>1, MovesTyped DEF InstallDeps, service, Typed, TypeOK, Remembers, PullPcs
<1>4. CASE Decide(u)
  <2>1. \E pc \in Pcs : Moves(u, pc) /\ Remembers(u)
    BY <1>4, AnswersMoves, DecideRestarts, DecideEnds DEF Decide, Results, Pcs
  <2> QED BY <1>4, <2>1, MovesTyped DEF Decide, Typed, TypeOK, Remembers, PullPcs
<1>5. CASE RestartDaemon(u)
  <2>1. PICK failed \in Fails :
          LET status == RestartStatus(failed) IN
            /\ Restarts(status)
            /\ announced' = IF status # "skipped" /\ announced.who = "own"
                            THEN [announced EXCEPT !.who = None] ELSE announced
            /\ Answers(u, IF status = "failed" \/ (status = "skipped" /\ update[u].seen # None)
                          THEN "partial" ELSE "ok")
    BY <1>5 DEF RestartDaemon
  <2>2. code' \in [Daemons -> VersionOrNone]
    BY <2>1, FailsBoolean, RestartsTyped
  <2>3. announced' \in [who : Daemons \cup {None}, version : StringOrNone]
    BY <2>1 DEF TypeOK
  <2>4. Moves(u, "done")
    BY <2>1, AnswersMoves DEF Results
  <2> QED BY <1>5, <2>2, <2>3, <2>4, MovesTyped DEF RestartDaemon, store, TypeOK, ApplyPcs, PullPcs
<1> QED BY <1>1, <1>2, <1>3, <1>4, <1>5 DEF Pull

LEMMA MigrationTyped == ASSUME Typed, MigrateService PROVE Typed'
<1> USE DEF OutsideMigration, store, MigratesTo, Finds, Down, Typed, TypeOK, VersionOrNone,
            Platform, MigrationRecords
<1>0. {d \in Daemons : Up(d)} \in SUBSET Daemons
  OBVIOUS
<1>1. CASE BeginMigration
  BY <1>0, <1>1 DEF BeginMigration
<1>2. CASE BeginOwn
  <2>1. code' \in [Daemons -> VersionOrNone]
    BY <1>2 DEF BeginOwn
  <2>2. migration' \in MigrationRecords /\ Platform = "launchd"
    BY <1>0, <1>2 DEF BeginOwn
  <2> QED BY <1>2, <2>1, <2>2 DEF BeginOwn
<1>3. CASE Disable \/ Unload \/ StopUnit
  BY <1>3 DEF Disable, Unload, StopUnit
<1>4. CASE WriteDefinition
  BY <1>4 DEF WriteDefinition
<1>5. CASE LoadDefinition
  BY <1>5, LoadsTyped DEF LoadDefinition
<1>6. CASE VerifyService
  BY <1>6 DEF VerifyService
<1>7. CASE Restore
  <2>1. PICK failed \in SUBSET {"unload", "enable", "start"} :
          /\ own' \in {own, "none", migration.own}
          /\ Platform # "launchd" \/ own' \in {own, "none"}
          /\ foreign' \in {foreign, migration.foreign}
          /\ \/ UNCHANGED code
             \/ \E a, b \in {TRUE, FALSE} :
                  code' = [code EXCEPT !["own"] = IF a THEN @ ELSE None,
                                       !["foreign"] = IF b THEN Loads ELSE @]
             \/ code' = [code EXCEPT !["own"] = Loads]
          /\ migration' = [migration EXCEPT !.pc = "failed", !.clean = failed = {}]
    BY <1>7 DEF Restore
  <2>2. code' \in [Daemons -> VersionOrNone]
    BY <2>1, LoadsTyped
  <2>3. own' \in {"none", "old", "new"} /\ foreign' \in {"none", "enabled", "disabled"}
    BY <2>1
  <2>4. migration' \in MigrationRecords /\ migration'.own = migration.own
    BY <2>1
  <2>5. UNCHANGED <<env, dirs, installed, upstream, deps, announced, workers, update>>
    BY <1>7 DEF Restore
  <2> HIDE DEF MigrationRecords, VersionOrNone
  <2> QED BY <2>2, <2>3, <2>4, <2>5
<1>8. CASE MigratorDies
  BY <1>8 DEF MigratorDies
<1> QED BY <1>1, <1>2, <1>3, <1>4, <1>5, <1>6, <1>7, <1>8 DEF MigrateService

LEMMA AroundTyped ==
  ASSUME Typed,
         \/ \E d \in Daemons : Starts(d) \/ Announces(d) \/ Ends(d)
         \/ \E v \in Versions : Downloads(v)
         \/ RunStarts \/ RunEnds \/ Commit
  PROVE  Typed'
<1> USE DEF store, service, TypeOK, Typed, Platform
<1>1. ASSUME NEW d \in Daemons, Starts(d) PROVE Typed'
  BY <1>1, LoadsTyped DEF Starts
<1>2. ASSUME NEW d \in Daemons, Announces(d) PROVE Typed'
  <2>1. VersionString[code[d]] \in StringOrNone
    BY <1>2 DEF Announces, Up, VersionOrNone, StringOrNone
  <2> QED BY <1>2, <2>1 DEF Announces
<1>3. ASSUME NEW d \in Daemons, Ends(d) PROVE Typed'
  BY <1>3 DEF Ends, VersionOrNone, StringOrNone
<1>4. ASSUME NEW v \in Versions, Downloads(v) PROVE Typed'
  BY <1>4 DEF Downloads
<1>5. CASE RunStarts
  BY <1>5 DEF RunStarts, Loads
<1>6. CASE RunEnds
  BY <1>6 DEF RunEnds
<1>7. CASE Commit
  BY <1>7 DEF Commit
<1> QED BY <1>1, <1>2, <1>3, <1>4, <1>5, <1>6, <1>7

-----------------------------------------------------------------------------
(* The invariant.                                                          *)

LEMMA AskedMeans ==
  /\ Asked({"apply"}) => "git" \notin env /\ "migrate" \notin env
  /\ Asked({"git"}) => "apply" \notin env /\ "migrate" \notin env
  /\ Asked({"migrate"}) => "apply" \notin env /\ "git" \notin env
  BY DEF Asked

LEMMA InvInit == Init => IInv
<1> SUFFICES ASSUME Init PROVE IInv
  OBVIOUS
<1>1. /\ \A u \in Updaters : update[u] = NoUpdate /\ update[u].pc = "idle"
      /\ migration = NoMigration /\ migration.pc = "idle" /\ migration.own = "none"
      /\ migration.foreign = "none" /\ announced.who = None /\ NoMigration.clean
  BY DEF Init, NoUpdate, NoMigration
<1>2. Typed
  BY <1>1, TypeInit DEF Typed, ApplyPcs, PullPcs
<1>3. InProgress /\ OneUpdate
  BY <1>1 DEF InProgress, OneUpdate, ApplyPcs, PullPcs
<1>4. /\ "registered" \notin env => own = "none"
      /\ "foreign" \notin env => foreign = "none"
      /\ own = "none" => code["own"] = None
      /\ code["manual"] = None /\ (foreign = "none" => code["foreign"] = None)
  BY DEF Init, Daemons
<1>5. ServiceInv
  BY <1>1, <1>4 DEF ServiceInv, OwnDown, Strangers, Registered
<1>6. dirs[installed] = "intact" /\ deps = installed
  BY VersionsAssumption DEF Init
<1>7. ApplyInv
  BY <1>1, <1>6 DEF ApplyInv, LauncherRuns, Switched
<1>8. PullInv
  BY <1>1, <1>6 DEF PullInv, Announced, DepsKept, SeenIsOwn, OkMeansCurrent
<1>9. InMigration
  BY <1>1 DEF InMigration
<1> QED BY <1>2, <1>3, <1>5, <1>7, <1>8, <1>9 DEF IInv

\* Only u has a step to do when there is one update at a time.
LEMMA OneMoves ==
  ASSUME IInv, NEW u \in Updaters, NEW pc, Moves(u, pc), update[u].pc # "idle" \/ MayBegin(u),
         env' = env
  PROVE  OneUpdate' /\ ("two" \notin env => \A w \in Updaters : w # u => update'[w].pc = "idle")
  BY DEF IInv, OneUpdate, Moves, MayBegin

LEMMA SameService ==
  ASSUME ServiceInv, UNCHANGED <<env, own, foreign, code, migration>>
  PROVE  ServiceInv'
  BY DEF ServiceInv, OwnDown, Strangers, Registered

\* A restart concerns a service that is registered.
LEMMA RestartKeeps ==
  ASSUME ServiceInv, TypeOK, UNCHANGED <<env, own, foreign, migration>>, NEW failed \in BOOLEAN,
         Restarts(RestartStatus(failed))
  PROVE  ServiceInv' /\ (own = "none" => code' = code)
         /\ \A d \in Daemons : d # "own" => code'[d] = code[d]
  BY DEF ServiceInv, OwnDown, Strangers, Registered, Restarts, RestartStatus, TypeOK, Daemons

\* A managed installation is none of the others' concern.
LEMMA OthersApart ==
  ASSUME "apply" \in env, env' = env
  PROVE  PullInv' /\ InMigration' /\ (Asked({"migrate"})' => FALSE)
  BY AskedMeans DEF PullInv, Announced, DepsKept, SeenIsOwn, OkMeansCurrent, InMigration, Asked

LEMMA ApplyKeeps == ASSUME IInv, NEW u \in Updaters, Apply(u) PROVE IInv'
<1> TypeOK /\ update[u] \in UpdateRecords
  BY DEF IInv, Typed, TypeOK
<1>0. Typed'
  BY ApplyTyped DEF IInv
<1>1. CASE Finished(u)
  <2>1. Moves(u, "idle") /\ UNCHANGED <<env, dirs, installed, deps, own, foreign, code, announced, migration>>
    BY <1>1, EndsUpdate DEF Finished, OutsideUpdates
  <2>2. InProgress'
    BY <2>1 DEF IInv, InProgress, Moves, ApplyPcs, PullPcs
  <2>3. OneUpdate'
    BY <2>1 DEF IInv, OneUpdate, Moves
  <2>4. ServiceInv'
    BY <2>1, SameService DEF IInv
  <2>5. ApplyInv'
    BY <2>1 DEF IInv, ApplyInv, LauncherRuns, Switched, Moves, Asked
  <2>6. PullInv'
    <3>1. Announced' /\ \A w \in Updaters : SeenIsOwn(w)'
      BY <2>1 DEF IInv, PullInv, Announced, SeenIsOwn, Moves, Asked
    <3>2. OkMeansCurrent'
      BY <2>1 DEF IInv, PullInv, OkMeansCurrent, Moves, Asked, Up
    <3>3. DepsKept'
      <4>1. update[u].pc = "done" \/ "dies" \in env
        BY <1>1 DEF Finished
      <4> QED BY <2>1, <4>1 DEF IInv, PullInv, DepsKept, Moves, Asked
    <3> QED BY <3>1, <3>2, <3>3 DEF PullInv
  <2>7. InMigration'
    BY <2>1 DEF IInv, InMigration, Asked, WayBack, AsFound, FoundUp, Up, Platform
  <2> QED BY <1>0, <2>2, <2>3, <2>4, <2>5, <2>6, <2>7 DEF IInv
<1>2. ASSUME NEW pc \in ApplyPcs \cup {"done"}, Moves(u, pc), "apply" \in env,
             UNCHANGED <<env, own, foreign, announced, migration>>,
             update[u].pc # "idle" \/ MayBegin(u), ServiceInv',
             {"two", "git"} \cap env = {} => dirs'[installed'] = "intact" /\ Switched(u)'
      PROVE  IInv'
  <2>1. InProgress'
    BY <1>2 DEF IInv, InProgress, Moves, ApplyPcs, PullPcs
  <2>2. OneUpdate' /\ ("two" \notin env => \A w \in Updaters : w # u => update'[w].pc = "idle")
    BY <1>2, OneMoves
  <2>3. PullInv' /\ InMigration' /\ (Asked({"migrate"})' => FALSE)
    BY <1>2, OthersApart
  <2>4. ApplyInv'
    BY <1>2, <2>2, <2>3 DEF ApplyInv, LauncherRuns, Switched
  <2> QED BY <1>0, <1>2, <2>1, <2>2, <2>3, <2>4 DEF IInv
<1>3. {"two", "git"} \cap env = {} => dirs[installed] = "intact" /\ Switched(u)
  BY DEF IInv, ApplyInv, LauncherRuns
<1>4. ServiceInv /\ OneUpdate
  BY DEF IInv
<1>5. CASE PlanUpdate(u)
  <2>1. PICK v \in Versions :
          Does(u, [NoUpdate EXCEPT !.pc = "planned", !.target = v, !.plan = Facts(v)])
    BY <1>5 DEF PlanUpdate
  <2>2. Moves(u, "planned")
    BY <2>1, BeginsPlan
  <2> QED BY <1>2, <1>3, <1>4, <1>5, <2>2, SameService
         DEF PlanUpdate, OutsideUpdates, ApplyPcs, Switched, Moves
<1>6. CASE ReadAgain(u)
  <2>1. update[u].target \in Versions
    BY <1>6 DEF IInv, Typed, ReadAgain, ApplyPcs
  <2>2. Facts(update[u].target).installed \in VersionOrNone
    BY <2>1, FactsTyped DEF FactsRecords
  <2>3. \/ Moves(u, "done")
        \/ /\ Moves(u, "switch") /\ update'[u].plan = update[u].plan
           /\ update[u].plan = Facts(update[u].target)
           /\ update'[u].before = Facts(update[u].target).installed
    BY <1>6, <2>2, AnswersMoves, SwitchMoves DEF ReadAgain, Results
  <2>4. dirs[installed] = "intact" => Facts(update[u].target).installed = installed
    BY DEF Facts, InstalledVersion
  <2>5. {"two", "git"} \cap env = {} => Switched(u)'
    BY <1>3, <1>6, <2>3, <2>4 DEF ReadAgain, Switched, Moves
  <2> QED BY <1>2, <1>3, <1>4, <1>6, <2>3, <2>5, SameService
         DEF ReadAgain, OutsideUpdates, ApplyPcs
<1>7. CASE SwitchLauncher(u)
  <2>1. \/ /\ installed' = update[u].target /\ dirs[update[u].target] = "intact"
           /\ Does(u, [update[u] EXCEPT !.pc = "service"])
        \/ installed' = installed /\ Answers(u, "failure")
    BY <1>7 DEF SwitchLauncher
  <2>2. \/ /\ Moves(u, "service") /\ Remembers(u) /\ dirs[update[u].target] = "intact"
           /\ installed' = update[u].target
        \/ Moves(u, "done") /\ installed' = installed
    BY <2>1, AnswersMoves, GoesOn DEF Results, Pcs, ApplyPcs
  <2>3. UNCHANGED <<env, dirs, own, foreign, code, announced, migration>> /\ "apply" \in env
        /\ update[u].pc = "switch"
    BY <1>7 DEF SwitchLauncher, OutsideUpdates, IInv, InProgress, ApplyPcs
  <2>4. {"two", "git"} \cap env = {} => Switched(u)'
    BY <1>3, <2>2, <2>3 DEF Switched, Moves, Remembers, Typed, TypeOK, IInv
  <2> QED BY <1>2, <1>3, <1>4, <2>2, <2>3, <2>4, SameService DEF ApplyPcs
<1>8. CASE RestartService(u)
  <2>1. PICK failed \in Fails :
          /\ Restarts(RestartStatus(failed))
          /\ Does(u, [update[u] EXCEPT !.pc = "check", !.failed = RestartStatus(failed) = "failed"])
    BY <1>8 DEF RestartService
  <2>2. Moves(u, "check") /\ Remembers(u) /\ update'[u].failed = (RestartStatus(failed) = "failed")
    BY <2>1, CheckMoves
  <2>3. UNCHANGED <<env, dirs, installed, own, foreign, announced, migration>> /\ "apply" \in env
        /\ update[u].pc = "service"
    BY <1>8 DEF RestartService, OutsideUpdates, IInv, InProgress, ApplyPcs
  <2>4. ServiceInv' /\ (own = "none" => code' = code)
    BY <1>4, <2>1, <2>3, FailsBoolean, RestartKeeps
  <2>5. ASSUME {"two", "git"} \cap env = {} PROVE Switched(u)'
    <3>1. /\ installed = update[u].target /\ dirs[installed] = "intact" /\ Loads = installed
          /\ update[u].before \in Versions /\ dirs[update[u].before] = "intact"
      BY <1>3, <2>3, <2>5 DEF Switched, Loads
    <3>2. ASSUME Asked({"apply"}), RestartStatus(failed) # "failed"
          PROVE  code'["own"] \in {None, installed}
      <4>1. CASE RestartStatus(failed) = "ok"
        BY <2>1, <3>1, <4>1 DEF Restarts, TypeOK, Daemons
      <4>2. CASE RestartStatus(failed) = "skipped"
        <5>1. own = "none" => code["own"] = None
          BY <1>4, <3>2, AskedMeans DEF ServiceInv, OwnDown, IInv, InProgress
        <5>2. code' = code /\ code["own"] = None
          BY <2>1, <4>2, <5>1 DEF Restarts, RestartStatus, Up
        <5> QED BY <5>2
      <4> QED BY <3>2, <4>1, <4>2 DEF RestartStatus
    <3> QED BY <2>2, <2>3, <3>1, <3>2 DEF Switched, Moves, Remembers, Asked
  <2> QED BY <1>2, <1>3, <2>2, <2>3, <2>4, <2>5 DEF ApplyPcs
<1>9. CASE CheckVersion(u)
  <2>1. \/ Moves(u, "done")
        \/ Moves(u, "prune") /\ Remembers(u) /\ update'[u].failed = update[u].failed /\ ~update[u].failed
    BY <1>9, AnswersMoves, GoesOn DEF CheckVersion, Results, Pcs, ApplyPcs
  <2>2. UNCHANGED <<env, dirs, installed, code, own, foreign, announced, migration>> /\ "apply" \in env
        /\ update[u].pc = "check"
    BY <1>9 DEF CheckVersion, OutsideUpdates, IInv, InProgress, ApplyPcs
  <2>3. {"two", "git"} \cap env = {} => Switched(u)'
    BY <1>3, <2>1, <2>2 DEF Switched, Moves, Remembers, Asked
  <2> QED BY <1>2, <1>3, <1>4, <2>1, <2>2, <2>3, SameService DEF ApplyPcs
<1>10. CASE Prune(u)
  <2>1. PICK v \in Versions \ {update[u].target, update[u].before}, state \in {"corrupt", "absent"} :
          dirs' = [dirs EXCEPT ![v] = state]
    BY <1>10 DEF Prune, Keeps
  <2>2. /\ UNCHANGED <<env, installed, code, own, foreign, announced, migration, update>>
        /\ "apply" \in env /\ update[u].pc = "prune"
    BY <1>10 DEF Prune, OutsideUpdates, IInv, InProgress, ApplyPcs
  <2>3. Moves(u, "prune")
    BY <2>2 DEF Moves, TypeOK
  <2>4. {"two", "git"} \cap env = {} => dirs'[installed] = "intact" /\ Switched(u)'
    BY <1>3, <2>1, <2>2 DEF Switched, Asked, TypeOK
  <2> QED BY <1>2, <1>4, <2>2, <2>3, <2>4, SameService DEF ApplyPcs
<1>11. CASE Succeeds(u)
  <2>1. Moves(u, "done")
    BY <1>11, AnswersMoves DEF Succeeds, Results
  <2>2. UNCHANGED <<env, dirs, installed, code, own, foreign, announced, migration>> /\ "apply" \in env
        /\ update[u].pc = "prune"
    BY <1>11 DEF Succeeds, OutsideUpdates, IInv, InProgress, ApplyPcs
  <2> QED BY <1>2, <1>3, <1>4, <2>1, <2>2, SameService DEF ApplyPcs, Switched, Moves
<1> QED BY <1>1, <1>5, <1>6, <1>7, <1>8, <1>9, <1>10, <1>11 DEF Apply

\* A checkout is none of the others' concern.
LEMMA PullApart ==
  ASSUME "git" \in env, env' = env, \/ ~Asked({"git"}) \/ PullInv'
  PROVE  ApplyInv' /\ PullInv' /\ InMigration'
  BY AskedMeans DEF ApplyInv, LauncherRuns, PullInv, Announced, DepsKept, SeenIsOwn,
                    OkMeansCurrent, InMigration, Asked

\* Only one daemon can have been there before a restart of the service.
LEMMA OwnAnnounced ==
  ASSUME IInv, Asked({"git"}), "registered" \in env, {"manual", "foreign"} \cap env = {}
  PROVE  announced.who \in {None, "own"}
  BY DEF IInv, PullInv, Announced, ServiceInv, Strangers, Typed, TypeOK, Daemons

LEMMA PullKeeps == ASSUME IInv, NEW u \in Updaters, Pull(u) PROVE IInv'
<1> TypeOK /\ update[u] \in UpdateRecords
  BY DEF IInv, Typed, TypeOK
<1>0. Typed'
  BY PullTyped DEF IInv
<1>1. "git" \in env /\ env' = env
  BY DEF IInv, InProgress, PullPcs, Pull, Fetch, Merge, InstallDeps, Decide, RestartDaemon,
         OutsideUpdates
<1>2. ASSUME NEW pc \in PullPcs \cup {"done"}, Moves(u, pc), update[u].pc # "idle" \/ MayBegin(u),
             UNCHANGED <<env, migration>>, ServiceInv',
             Asked({"git"}) => PullInv'
      PROVE  IInv'
  <2>1. InProgress'
    BY <1>1, <1>2 DEF IInv, InProgress, Moves, ApplyPcs, PullPcs
  <2>2. OneUpdate'
    BY <1>2, OneMoves
  <2>3. ApplyInv' /\ PullInv' /\ InMigration'
    BY <1>1, <1>2, PullApart
  <2> QED BY <1>0, <1>2, <2>1, <2>2, <2>3 DEF IInv
<1>3. ServiceInv /\ PullInv
  BY DEF IInv
<1>4. CASE Fetch(u)
  <2>1. \/ Moves(u, "done") /\ update'[u].result = "failed"
        \/ Moves(u, "merge")
    BY <1>4, BeginsMerge, FailsAtOnce DEF Fetch
  <2>2. UNCHANGED <<env, dirs, installed, deps, own, foreign, code, announced, migration>> /\ MayBegin(u)
    BY <1>4 DEF Fetch, OutsideUpdates
  <2>3. Announced' /\ DepsKept' /\ \A w \in Updaters : SeenIsOwn(w)'
    BY <1>3, <2>1, <2>2 DEF PullInv, Announced, DepsKept, SeenIsOwn, Moves, Asked, MayBegin
  <2>4. OkMeansCurrent'
    BY <1>3, <2>1, <2>2 DEF PullInv, OkMeansCurrent, Moves, Asked, Up
  <2> QED BY <1>2, <1>3, <2>1, <2>2, <2>3, <2>4, SameService DEF PullPcs, PullInv
<1>5. ASSUME "two" \notin env, update[u].pc # "idle", NEW pc, Moves(u, pc)
      PROVE  \A w \in Updaters : w # u => update'[w].pc = "idle" /\ update[w].pc = "idle"
  BY <1>5 DEF IInv, OneUpdate, Moves
<1>6. CASE Merge(u)
  <2>1. \/ installed' = installed /\ Moves(u, "decide") /\ Remembers(u)
        \/ installed' = installed /\ Moves(u, "done") /\ update'[u].result = "failed"
        \/ Moves(u, "deps")
    BY <1>6, AnswersMoves, GoesOn, MergeMoves DEF Merge, Results, Pcs
  <2>2. UNCHANGED <<env, dirs, deps, own, foreign, code, announced, migration>>
        /\ update[u].pc = "merge"
    BY <1>6 DEF Merge, OutsideUpdates
  <2>3. Announced' /\ \A w \in Updaters : SeenIsOwn(w)'
    BY <1>3, <2>1, <2>2 DEF PullInv, Announced, SeenIsOwn, Moves, Asked
  <2>4. DepsKept'
    BY <1>3, <1>5, <2>1, <2>2 DEF PullInv, DepsKept, Moves, Asked
  <2>5. OkMeansCurrent'
    BY <1>3, <1>5, <2>1, <2>2 DEF PullInv, OkMeansCurrent, Moves, Asked, Up
  <2> QED BY <1>2, <1>3, <2>1, <2>2, <2>3, <2>4, <2>5, SameService DEF PullPcs, PullInv
<1>7. CASE InstallDeps(u)
  <2>1. \/ "fails" \in env /\ Moves(u, "done") /\ update'[u].result = "partial" /\ deps' = deps
        \/ deps' = installed /\ Moves(u, "decide")
    BY <1>7, AnswersMoves, GoesOn DEF InstallDeps, Results, Pcs, Fails
  <2>2. UNCHANGED <<env, dirs, installed, own, foreign, code, announced, migration>>
        /\ update[u].pc = "deps"
    BY <1>7 DEF InstallDeps, service
  <2>3. Announced' /\ \A w \in Updaters : SeenIsOwn(w)'
    BY <1>3, <2>1, <2>2 DEF PullInv, Announced, SeenIsOwn, Moves, Asked
  <2>4. DepsKept'
    BY <1>3, <1>5, <2>1, <2>2 DEF PullInv, DepsKept, Moves, Asked
  <2>5. OkMeansCurrent'
    BY <1>3, <1>5, <2>1, <2>2 DEF PullInv, OkMeansCurrent, Moves, Asked, Up
  <2> QED BY <1>2, <1>3, <2>1, <2>2, <2>3, <2>4, <2>5, SameService DEF PullPcs, PullInv
<1>8. CASE Decide(u)
  <2>1. \/ /\ announced.who = None \/ announced.version = VersionString[installed]
           /\ Moves(u, "done") /\ update'[u].seen = announced.who /\ ~update'[u].moved
        \/ Moves(u, "done") /\ update'[u].result = "partial"
        \/ Moves(u, "restart") /\ update'[u].seen = announced.who
    BY <1>8, AnswersMoves, DecideRestarts, DecideEnds DEF Decide, Results
  <2>2. UNCHANGED <<env, dirs, installed, deps, own, foreign, code, announced, migration>>
        /\ update[u].pc = "decide"
    BY <1>8 DEF Decide, OutsideUpdates
  <2>3. Announced' /\ DepsKept'
    BY <1>3, <2>1, <2>2 DEF PullInv, Announced, DepsKept, Moves, Asked
  <2>4. \A w \in Updaters : SeenIsOwn(w)'
    BY <1>3, <2>1, <2>2, OwnAnnounced DEF PullInv, SeenIsOwn, Moves, Asked
  <2>5. ASSUME Asked({"git"}), "two" \notin env PROVE OkMeansCurrent'
    <3>1. \A w \in Updaters : w # u => update'[w].pc = "idle" /\ update[w].pc = "idle"
      BY <1>5, <2>1, <2>2, <2>5
    <3>2. {"fails", "dies"} \cap env = {} => deps = installed
      BY <1>3, <2>2, <2>5, <3>1 DEF PullInv, DepsKept
    <3>3. announced.who # None /\ announced.version = VersionString[installed]
          => VersionString[code[announced.who]] = VersionString[installed]
      BY <1>3, <2>5 DEF PullInv, Announced
    <3> QED BY <2>1, <2>2, <3>1, <3>2, <3>3 DEF OkMeansCurrent, Moves, Up
  <2>6. OkMeansCurrent'
    BY <2>2, <2>5 DEF OkMeansCurrent, Asked
  <2> QED BY <1>2, <1>3, <2>1, <2>2, <2>3, <2>4, <2>6, SameService DEF PullPcs, PullInv
<1>9. CASE RestartDaemon(u)
  <2> DEFINE Status(failed) == RestartStatus(failed)
  <2>1. PICK failed \in Fails :
          /\ Restarts(Status(failed))
          /\ announced' = IF Status(failed) # "skipped" /\ announced.who = "own"
                          THEN [announced EXCEPT !.who = None] ELSE announced
          /\ Answers(u, IF Status(failed) = "failed" \/ (Status(failed) = "skipped" /\ update[u].seen # None)
                        THEN "partial" ELSE "ok")
    BY <1>9 DEF RestartDaemon
  <2>2. /\ Moves(u, "done") /\ update'[u].seen = update[u].seen
        /\ update'[u].result = IF Status(failed) = "failed" \/ (Status(failed) = "skipped" /\ update[u].seen # None)
                               THEN "partial" ELSE "ok"
    BY <2>1, AnswersMoves DEF Results
  <2>3. UNCHANGED <<env, dirs, installed, deps, own, foreign, migration>>
        /\ update[u].pc = "restart"
    BY <1>9 DEF RestartDaemon, store
  <2>4. /\ ServiceInv' /\ (own = "none" => code' = code)
        /\ \A d \in Daemons : d # "own" => code'[d] = code[d]
    BY <1>3, <2>1, <2>3, FailsBoolean, RestartKeeps
  <2>5. Announced'
    <3>1. announced' = announced \/ announced'.who = None
      BY <2>1 DEF TypeOK
    <3>2. announced.who = "own" => announced'.who = None \/ code' = code
      BY <2>1 DEF TypeOK, Restarts
    <3> QED BY <1>3, <2>3, <2>4, <3>1, <3>2 DEF PullInv, Announced, Asked, TypeOK
  <2>6. DepsKept' /\ \A w \in Updaters : SeenIsOwn(w)'
    BY <1>3, <2>2, <2>3 DEF PullInv, DepsKept, SeenIsOwn, Moves, Asked
  <2>7. ASSUME Asked({"git"}), "two" \notin env, "registered" \in env => {"manual", "foreign"} \cap env = {}
        PROVE OkMeansCurrent'
    <3>1. \A w \in Updaters : w # u => update'[w].pc = "idle" /\ update[w].pc = "idle"
      BY <1>5, <2>2, <2>3, <2>7
    <3>2. {"fails", "dies"} \cap env = {} => deps = installed
      BY <1>3, <2>3, <2>7, <3>1 DEF PullInv, DepsKept
    <3>3. ASSUME update'[u].result = "ok", update[u].seen # None, code'[update[u].seen] # None
          PROVE  code'[update[u].seen] = installed
      <4>1. Status(failed) = "ok"
        BY <2>2, <3>3 DEF RestartStatus
      <4>2. own # "none"
        BY <4>1 DEF RestartStatus
      <4>3. "registered" \in env
        BY <1>3, <2>7, <4>2, AskedMeans DEF ServiceInv, Registered
      <4>4. update[u].seen = "own"
        BY <1>3, <2>3, <2>7, <3>3, <4>3 DEF PullInv, SeenIsOwn
      <4> QED BY <1>1, <2>1, <4>1, <4>4 DEF Restarts, Loads, TypeOK, Daemons
    <3> QED BY <2>2, <2>3, <3>1, <3>2, <3>3 DEF OkMeansCurrent, Moves, Up
  <2>8. OkMeansCurrent'
    BY <2>3, <2>7 DEF OkMeansCurrent, Asked
  <2> QED BY <1>2, <2>2, <2>3, <2>4, <2>5, <2>6, <2>8 DEF PullInv
<1> QED BY <1>4, <1>6, <1>7, <1>8, <1>9 DEF Pull

\* Updates are none of a migration's concern, and it none of theirs.
LEMMA MigrationApart ==
  ASSUME IInv, "migrate" \in env, UNCHANGED <<env, dirs, installed, update>>
  PROVE  InProgress' /\ OneUpdate' /\ ApplyInv' /\ PullInv'
<1>1. migration'.pc # "idle" => "migrate" \in env
  OBVIOUS
<1>2. InProgress' /\ OneUpdate'
  BY <1>1 DEF IInv, InProgress, OneUpdate
<1>3. ApplyInv'
  BY AskedMeans DEF IInv, ApplyInv, LauncherRuns, Switched, Asked
<1>4. PullInv'
  BY AskedMeans DEF PullInv, Announced, DepsKept, SeenIsOwn, OkMeansCurrent, Asked
<1> QED BY <1>2, <1>3, <1>4

LEMMA MigratesFields ==
  ASSUME TypeOK, NEW pc, MigratesTo(pc)
  PROVE  /\ migration'.pc = pc /\ migration'.own = migration.own
         /\ migration'.foreign = migration.foreign
         /\ migration'.up = migration.up /\ migration'.clean = migration.clean
  BY DEF TypeOK, MigratesTo, MigrationRecords

LEMMA FindsFields ==
  ASSUME TypeOK, NEW pc, Finds(pc)
  PROVE  /\ migration'.pc = pc /\ migration'.own = own /\ migration'.foreign = foreign
         /\ migration'.up = {d \in Daemons : Up(d)} /\ migration'.clean = migration.clean
  BY DEF TypeOK, Finds, MigrationRecords

\* The daemons of the devices an env leaves out stay away.
LEMMA MigrationService ==
  ASSUME IInv, "migrate" \in env, UNCHANGED <<env, dirs, installed, update>>, migration'.pc # "idle",
         code'["manual"] = code["manual"],
         "foreign" \in env \/ foreign' = foreign,
         "foreign" \in env \/ (migration'.foreign \in {"none", foreign} /\ migration'.pc # "disable"),
         code'["foreign"] \in {code["foreign"], None} \/ "foreign" \in env
  PROVE  ServiceInv'
  BY DEF IInv, ServiceInv, OwnDown, Strangers, Registered

LEMMA MigrationKeeps == ASSUME IInv, MigrateService PROVE IInv'
<1> TypeOK /\ Typed
  BY DEF IInv, Typed
<1> USE DEF OutsideMigration, store
<1>0. Typed'
  BY MigrationTyped
<1>1. UNCHANGED <<env, dirs, installed, update>>
  BY DEF MigrateService, BeginMigration, BeginOwn, Disable, Unload, StopUnit, WriteDefinition,
         LoadDefinition, VerifyService, Restore, MigratorDies
<1>2. "migrate" \in env
  BY DEF IInv, InProgress, MigrateService, BeginMigration, BeginOwn, Disable, Unload, StopUnit,
         WriteDefinition, LoadDefinition, VerifyService, Restore, MigratorDies
<1>3. InProgress' /\ OneUpdate' /\ ApplyInv' /\ PullInv'
  BY <1>1, <1>2, MigrationApart
<1>4. ASSUME ServiceInv', InMigration' PROVE IInv'
  BY <1>0, <1>3, <1>4 DEF IInv
<1>5. /\ Platform \in Platforms /\ Platform' = Platform
      /\ "foreign" \in env => Platform = "launchd"
  <2>1. env \in Envs
    BY DEF TypeOK
  <2>2. \E p \in Platforms : env \cap Platforms = {p} /\ ("foreign" \in env => p = "launchd")
    BY <2>1, PlatformAssumption
  <2> QED BY <1>1, <2>2 DEF Platform, Platforms
<1>6. ServiceInv /\ InMigration
  BY DEF IInv
<1>7. \A d \in Daemons : d \in {"own", "foreign", "manual"}
  BY DEF Daemons
<1>8. CASE BeginMigration
  <2>1. UNCHANGED <<own, foreign, code>> /\ migration.pc = "idle" /\ (Platform = "launchd" => own = "none")
    BY <1>8 DEF BeginMigration
  <2>2. /\ migration'.pc = IF Platform = "launchd" /\ foreign # "none" THEN "disable"
                           ELSE IF Platform = "systemd" /\ own # "none" THEN "stop"
                           ELSE "write"
        /\ migration'.own = own /\ migration'.foreign = foreign
        /\ migration'.up = {d \in Daemons : Up(d)} /\ migration'.clean = migration.clean
    BY <1>8, FindsFields DEF BeginMigration
  <2>3. ServiceInv'
    BY <1>1, <1>2, <1>6, <2>1, <2>2, MigrationService DEF ServiceInv, Strangers
  <2>4. "service" \notin env => code["manual"] = None
    BY <1>6 DEF ServiceInv, Strangers
  <2>5. Platform # "launchd" => foreign = "none" /\ code["foreign"] = None
    BY <1>5, <1>6 DEF ServiceInv, Strangers
  <2>6. own = "none" => code["own"] = None
    BY <1>6, <2>1 DEF ServiceInv, OwnDown
  <2>7. InMigration'
    BY <1>1, <1>5, <1>6, <1>7, <2>1, <2>2, <2>4, <2>5, <2>6
       DEF InMigration, Asked, WayBack, FoundUp, AsFound, Up
  <2> QED BY <1>4, <2>3, <2>7
<1>9. CASE BeginOwn
  <2>1. /\ UNCHANGED <<own, foreign>> /\ migration.pc = "idle" /\ Platform = "launchd" /\ own # "none"
        /\ code' \in {code, [code EXCEPT !["own"] = None]}
    BY <1>9 DEF BeginOwn, Down
  <2>2. /\ migration'.clean = migration.clean /\ migration'.foreign \in {foreign, migration.foreign}
        /\ \/ /\ migration'.pc = "refused" /\ migration'.own = own /\ migration'.foreign = foreign
              /\ migration'.up = {d \in Daemons : Up(d)} /\ code' = code
           \/ migration'.pc = "moved"
           \/ migration'.pc = "write" /\ migration'.own = "ours"
    BY <1>9, FindsFields, MigratesFields DEF BeginOwn, TypeOK, MigrationRecords
  <2>3. ServiceInv'
    BY <1>1, <1>2, <1>6, <2>1, <2>2, MigrationService DEF ServiceInv, Strangers, TypeOK, Daemons
  <2>4. InMigration'
    BY <1>1, <1>5, <1>6, <2>1, <2>2 DEF InMigration, Asked, WayBack, FoundUp, AsFound, Up
  <2> QED BY <1>4, <2>3, <2>4
<1>10. CASE Disable
  <2>1. /\ UNCHANGED <<own, code>> /\ migration.pc = "disable"
        /\ \/ migration'.pc = "failed" /\ foreign' = foreign
           \/ migration'.pc = "unload" /\ foreign' = "disabled"
    BY <1>10, MigratesFields DEF Disable
  <2>2. /\ migration'.own = migration.own /\ migration'.foreign = migration.foreign
        /\ migration'.up = migration.up /\ migration'.clean = migration.clean
    BY <1>10, MigratesFields DEF Disable
  <2>3. "foreign" \in env
    BY <1>6, <2>1 DEF ServiceInv, Strangers
  <2>4. ServiceInv'
    BY <1>1, <1>2, <2>1, <2>3, MigrationService
  <2>5. InMigration'
    BY <1>1, <1>5, <1>6, <2>1, <2>2 DEF InMigration, Asked, WayBack, FoundUp, AsFound, Up
  <2> QED BY <1>4, <2>4, <2>5
<1>11. CASE Unload
  <2>1. /\ UNCHANGED <<own, foreign>> /\ migration.pc = "unload" /\ migration'.pc = "write"
        /\ code' \in {code, [code EXCEPT !["foreign"] = None]}
    BY <1>11, MigratesFields DEF Unload, Down
  <2>2. /\ migration'.own = migration.own /\ migration'.foreign = migration.foreign
        /\ migration'.up = migration.up /\ migration'.clean = migration.clean
    BY <1>11, MigratesFields DEF Unload
  <2>3. ServiceInv'
    BY <1>1, <1>2, <1>6, <2>1, <2>2, MigrationService DEF ServiceInv, Strangers, TypeOK, Daemons
  <2>4. InMigration'
    BY <1>1, <1>5, <1>6, <2>1, <2>2 DEF InMigration, Asked, WayBack, FoundUp, AsFound, Up
  <2> QED BY <1>4, <2>3, <2>4
<1>12. CASE StopUnit
  <2>1. /\ UNCHANGED <<own, foreign>> /\ migration.pc = "stop"
        /\ \/ migration'.pc = "failed" /\ code' = code
           \/ migration'.pc = "write" /\ code' = [code EXCEPT !["own"] = None]
    BY <1>12, MigratesFields DEF StopUnit, Down
  <2>2. /\ migration'.own = migration.own /\ migration'.foreign = migration.foreign
        /\ migration'.up = migration.up /\ migration'.clean = migration.clean
    BY <1>12, MigratesFields DEF StopUnit
  <2>3. ServiceInv'
    BY <1>1, <1>2, <1>6, <2>1, <2>2, MigrationService DEF ServiceInv, Strangers, TypeOK, Daemons
  <2>4. InMigration'
    BY <1>1, <1>5, <1>6, <2>1, <2>2 DEF InMigration, Asked, WayBack, FoundUp, AsFound, Up
  <2> QED BY <1>4, <2>3, <2>4
<1>13. CASE WriteDefinition
  <2>1. /\ UNCHANGED <<foreign, code>> /\ migration.pc = "write" /\ migration'.pc \in {"restore", "load"}
    BY <1>13, MigratesFields DEF WriteDefinition
  <2>2. /\ migration'.own = migration.own /\ migration'.foreign = migration.foreign
        /\ migration'.up = migration.up /\ migration'.clean = migration.clean
    BY <1>13, MigratesFields DEF WriteDefinition
  <2>3. ServiceInv'
    BY <1>1, <1>2, <1>6, <2>1, <2>2, MigrationService DEF ServiceInv, Strangers
  <2>4. InMigration'
    BY <1>1, <1>5, <1>6, <2>1, <2>2 DEF InMigration, Asked, WayBack, FoundUp, AsFound, Up
  <2> QED BY <1>4, <2>3, <2>4
<1>14. CASE LoadDefinition
  <2>1. /\ UNCHANGED foreign /\ migration.pc = "load" /\ migration'.pc \in {"restore", "verify"}
        /\ \/ code' = code
           \/ code["own"] = None /\ code' = [code EXCEPT !["own"] = Loads]
    BY <1>14, MigratesFields DEF LoadDefinition, Up
  <2>2. /\ migration'.own = migration.own /\ migration'.foreign = migration.foreign
        /\ migration'.up = migration.up /\ migration'.clean = migration.clean
    BY <1>14, MigratesFields DEF LoadDefinition
  <2>3. ServiceInv'
    BY <1>1, <1>2, <1>6, <2>1, <2>2, MigrationService DEF ServiceInv, Strangers, TypeOK, Daemons
  <2>4. {d \in Daemons : Up(d)} \subseteq {d \in Daemons : Up(d)}'
    BY <2>1 DEF Up, TypeOK
  <2>5. InMigration'
    BY <1>1, <1>5, <1>6, <2>1, <2>2, <2>4 DEF InMigration, Asked, WayBack, FoundUp, AsFound
  <2> QED BY <1>4, <2>3, <2>5
<1>15. CASE VerifyService
  <2>1. /\ UNCHANGED <<own, foreign, code>> /\ migration.pc = "verify" /\ migration'.pc \in {"restore", "moved"}
    BY <1>15, MigratesFields DEF VerifyService
  <2>2. /\ migration'.own = migration.own /\ migration'.foreign = migration.foreign
        /\ migration'.up = migration.up /\ migration'.clean = migration.clean
    BY <1>15, MigratesFields DEF VerifyService
  <2>3. ServiceInv'
    BY <1>1, <1>2, <1>6, <2>1, <2>2, MigrationService DEF ServiceInv, Strangers
  <2>4. InMigration'
    BY <1>1, <1>5, <1>6, <2>1, <2>2 DEF InMigration, Asked, WayBack, FoundUp, AsFound, Up
  <2> QED BY <1>4, <2>3, <2>4
<1>16. CASE Restore
  <2>1. PICK failed \in SUBSET {"unload", "enable", "start"} :
          /\ \/ /\ Platform = "launchd" /\ migration.foreign # "none" /\ migration.own = "none"
                /\ own' = "none"
                /\ foreign' = IF "enable" \in failed THEN foreign ELSE migration.foreign
                /\ code' = [code EXCEPT
                     !["own"] = IF "unload" \in failed THEN @ ELSE None,
                     !["foreign"] = IF "foreign" \in migration.up /\ failed = {} THEN Loads ELSE @]
             \/ /\ Platform = "systemd" /\ migration.own # "none"
                /\ own' = migration.own
                /\ code' = IF Up("own") \/ failed # {} THEN code ELSE [code EXCEPT !["own"] = Loads]
                /\ UNCHANGED foreign
             \/ /\ Platform = "tasks" /\ migration.own # "none"
                /\ own' = IF "start" \in failed THEN own ELSE migration.own
                /\ UNCHANGED <<foreign, code>>
             \/ /\ \/ migration.own = "ours"
                   \/ migration.own = "none" /\ (Platform # "launchd" \/ migration.foreign = "none")
                /\ UNCHANGED <<own, foreign, code>>
          /\ migration' = [migration EXCEPT !.pc = "failed", !.clean = failed = {}]
    BY <1>16 DEF Restore
  <2>2. /\ migration'.pc = "failed" /\ migration'.own = migration.own /\ migration.pc = "restore"
        /\ migration'.foreign = migration.foreign /\ migration'.up = migration.up
        /\ migration'.clean = (failed = {})
    BY <1>16, <2>1 DEF Restore, TypeOK, MigrationRecords
  <2>3. code'["manual"] = code["manual"]
    BY <2>1 DEF TypeOK, Daemons
  <2>4. "foreign" \in env \/ (foreign' = foreign /\ code'["foreign"] = code["foreign"])
    BY <1>6, <2>1 DEF ServiceInv, Strangers, TypeOK, Daemons
  <2>5. ServiceInv'
    BY <1>1, <1>2, <1>6, <2>2, <2>3, <2>4, MigrationService DEF ServiceInv, Strangers
  <2>6. ASSUME Asked({"migrate"}), failed = {}, WayBack PROVE AsFound' /\ FoundUp'
    <3>1. Loads # None
      BY <2>6, AskedMeans, EnvAssumption DEF IInv, ApplyInv, Loads, TypeOK
    <3>2. CASE Platform = "launchd"
      <4>1. migration.own = "none" /\ migration.foreign # "none"
        BY <1>6, <2>2, <2>6, <3>2 DEF InMigration
      <4>2. /\ own' = "none" /\ foreign' = migration.foreign
            /\ "foreign" \in migration.up => code'["foreign"] = Loads
        BY <2>1, <2>6, <3>2, <4>1 DEF TypeOK, Daemons
      <4>3. "service" \notin env => migration.up \subseteq {"foreign"}
        BY <1>6, <2>2, <2>6, <3>2 DEF InMigration
      <4> QED BY <1>1, <2>2, <3>1, <4>1, <4>2, <4>3 DEF AsFound, FoundUp, Up, Daemons
    <3>3. CASE Platform = "systemd"
      <4>1. migration.own # "none" /\ foreign = migration.foreign
            /\ ("service" \notin env => migration.up \subseteq {"own"})
        BY <1>6, <2>2, <2>6, <3>3 DEF InMigration
      <4>2. own' = migration.own /\ foreign' = foreign /\ code'["own"] # None
        BY <2>1, <2>6, <3>1, <3>3, <4>1 DEF TypeOK, Daemons, WayBack, Up
      <4> QED BY <1>1, <2>2, <4>1, <4>2 DEF AsFound, FoundUp, Up, Daemons
    <3>4. CASE Platform = "tasks"
      <4>1. migration.own # "none" /\ foreign = migration.foreign /\ FoundUp
        BY <1>6, <2>2, <2>6, <3>4 DEF InMigration
      <4>2. own' = migration.own /\ foreign' = foreign /\ code' = code
        BY <2>1, <2>6, <3>4, <4>1 DEF WayBack
      <4> QED BY <1>1, <2>2, <4>1, <4>2 DEF AsFound, FoundUp, Up
    <3> QED BY <1>5, <3>2, <3>3, <3>4 DEF Platforms
  <2>7. InMigration'
    BY <1>1, <1>5, <1>6, <2>2, <2>6 DEF InMigration, Asked, WayBack
  <2> QED BY <1>4, <2>5, <2>7
<1>17. CASE MigratorDies
  <2>1. UNCHANGED <<own, foreign, code>> /\ migration'.pc = "dead"
    BY <1>17, MigratesFields DEF MigratorDies
  <2>2. /\ migration'.own = migration.own /\ migration'.foreign = migration.foreign
        /\ migration'.up = migration.up /\ migration.pc # "idle"
    BY <1>17, MigratesFields DEF MigratorDies
  <2>3. ServiceInv'
    BY <1>1, <1>2, <1>6, <2>1, <2>2, MigrationService DEF ServiceInv, Strangers
  <2>4. InMigration'
    BY <1>1, <1>5, <1>6, <2>1, <2>2 DEF InMigration, Asked, WayBack
  <2> QED BY <1>4, <2>3, <2>4
<1> QED BY <1>8, <1>9, <1>10, <1>11, <1>12, <1>13, <1>14, <1>15, <1>16, <1>17 DEF MigrateService

\* What happens around them: daemons come and go, with the code that is there.
LEMMA DaemonKeeps ==
  ASSUME IInv, NEW d \in Daemons, Starts(d) \/ Announces(d) \/ Ends(d)
  PROVE  IInv'
<1> TypeOK
  BY DEF IInv, Typed
<1>0. Typed'
  BY AroundTyped DEF IInv
<1>1. UNCHANGED <<env, dirs, installed, deps, own, foreign, update, migration>>
  BY DEF Starts, Announces, Ends, store
<1>2. InProgress' /\ OneUpdate'
  BY <1>1 DEF IInv, InProgress, OneUpdate
<1>3. \A c \in Daemons : c # d => code'[c] = code[c]
  BY DEF Starts, Announces, Ends, TypeOK
<1>4. code'[d] \in {code[d], None} \/ (code[d] = None /\ code'[d] = Loads)
  BY DEF Starts, Announces, Ends, TypeOK, Up
<1>5. code' = code \/ "service" \in env
  BY DEF Starts, Announces, Ends
<1>6. code'[d] = None \/ code' = code \/ (d = "own" /\ own # "none") \/ (d = "manual" /\ "manual" \in env)
  BY DEF Starts, Announces, Ends, TypeOK
<1>7. ServiceInv'
  BY <1>1, <1>3, <1>4, <1>5, <1>6
     DEF IInv, ServiceInv, OwnDown, Strangers, Registered, Daemons, TypeOK
<1>8. ApplyInv'
  <2>1. Asked({"apply"}) => Loads \in {None, installed}
    BY DEF Loads
  <2> QED BY <1>1, <1>3, <1>4, <2>1 DEF IInv, ApplyInv, LauncherRuns, Switched, Asked, Daemons
<1>9. PullInv'
  <2>1. Announced'
    BY <1>1 DEF IInv, PullInv, Announced, Asked, Starts, Announces, Ends, TypeOK, Up
  <2>2. DepsKept' /\ \A u \in Updaters : SeenIsOwn(u)'
    BY <1>1 DEF IInv, PullInv, DepsKept, SeenIsOwn, Asked
  <2>3. Loads \in {None, installed}
    BY DEF Loads
  <2>4. ASSUME NEW c \in Daemons, code[c] # None => code[c] = installed
        PROVE  code'[c] # None => code'[c] = installed
    BY <1>3, <1>4, <2>3, <2>4
  <2>7. ASSUME NEW c \in Daemons, code[c] # None => VersionString[code[c]] = VersionString[installed]
        PROVE  code'[c] # None => VersionString[code'[c]] = VersionString[installed]
    BY <1>3, <1>4, <2>3, <2>7
  <2>5. \A u \in Updaters : update[u].seen \in Daemons \cup {None}
    BY DEF TypeOK, UpdateRecords
  <2>6. OkMeansCurrent'
    BY <1>1, <2>4, <2>5, <2>7 DEF IInv, PullInv, OkMeansCurrent, Asked, Up
  <2> QED BY <2>1, <2>2, <2>6 DEF PullInv
<1>10. InMigration'
  BY <1>1, <1>5 DEF IInv, InMigration, Asked, WayBack, FoundUp, AsFound, Up, Platform
<1> QED BY <1>0, <1>2, <1>7, <1>8, <1>9, <1>10 DEF IInv

LEMMA DownloadsKeeps ==
  ASSUME IInv, NEW v \in Versions, Downloads(v)
  PROVE  IInv'
<1> TypeOK
  BY DEF IInv, Typed
<1>0. Typed'
  BY AroundTyped DEF IInv
<1>1. /\ UNCHANGED <<env, installed, deps, own, foreign, code, announced, update, migration>>
      /\ v # installed /\ \A u \in Updaters : update[u].pc \notin {"service", "check", "prune"}
      /\ \A w \in Versions : w # v => dirs'[w] = dirs[w]
  BY DEF Downloads, service, TypeOK
<1>2. dirs'[installed] = dirs[installed]
  BY <1>1 DEF TypeOK
<1>3. InProgress' /\ OneUpdate' /\ ServiceInv'
  BY <1>1, SameService DEF IInv, InProgress, OneUpdate
<1>4. ApplyInv'
  BY <1>1, <1>2 DEF IInv, ApplyInv, LauncherRuns, Switched, Asked
<1>5. PullInv'
  BY <1>1 DEF IInv, PullInv, Announced, DepsKept, SeenIsOwn, OkMeansCurrent, Asked, Up
<1>6. InMigration'
  BY <1>1 DEF IInv, InMigration, Asked, WayBack, FoundUp, AsFound, Up, Platform
<1> QED BY <1>0, <1>3, <1>4, <1>5, <1>6 DEF IInv

\* The rest changes nothing the invariant is about.
LEMMA SameKeeps ==
  ASSUME IInv, Typed',
         UNCHANGED <<env, dirs, installed, deps, own, foreign, code, announced, update, migration>>
  PROVE  IInv'
<1>1. InProgress' /\ OneUpdate' /\ ServiceInv'
  BY SameService DEF IInv, InProgress, OneUpdate
<1>2. ApplyInv'
  BY DEF IInv, ApplyInv, LauncherRuns, Switched, Asked
<1>3. PullInv'
  BY DEF IInv, PullInv, Announced, DepsKept, SeenIsOwn, OkMeansCurrent, Asked, Up
<1>4. InMigration'
  BY DEF IInv, InMigration, Asked, WayBack, FoundUp, AsFound, Up, Platform
<1> QED BY <1>1, <1>2, <1>3, <1>4 DEF IInv

LEMMA InvNext == IInv /\ [Next]_vars => IInv'
<1> SUFFICES ASSUME IInv, [Next]_vars PROVE IInv'
  OBVIOUS
<1>1. ASSUME NEW u \in Updaters, Apply(u) \/ Pull(u) PROVE IInv'
  BY <1>1, ApplyKeeps, PullKeeps
<1>2. CASE MigrateService
  BY <1>2, MigrationKeeps
<1>3. ASSUME NEW d \in Daemons, Starts(d) \/ Announces(d) \/ Ends(d) PROVE IInv'
  BY <1>3, DaemonKeeps
<1>4. ASSUME NEW v \in Versions, Downloads(v) PROVE IInv'
  BY <1>4, DownloadsKeeps
<1>5. CASE RunStarts \/ RunEnds \/ Commit
  <2>1. Typed'
    BY <1>5, AroundTyped DEF IInv
  <2> QED BY <1>5, <2>1, SameKeeps DEF RunStarts, RunEnds, Commit, store, service
<1>6. CASE UNCHANGED vars
  <2>1. Typed'
    BY <1>6 DEF IInv, Typed, TypeOK, vars, store, service, Platform
  <2> QED BY <1>6, <2>1, SameKeeps DEF vars, store, service
<1> QED BY <1>1, <1>2, <1>3, <1>4, <1>5, <1>6 DEF Next

-----------------------------------------------------------------------------
(* The theorems.                                                           *)

\* At every step of a device, whatever is asked for and whatever fails: only one
\* update is between its steps, and what it has read of the device is still so.
THEOREM InvCorrect == Spec => []IInv
<1>1. Init => IInv
  BY InvInit
<1>2. IInv /\ [Next]_vars => IInv'
  BY InvNext
<1> QED BY <1>1, <1>2, PTL DEF Spec

\* Every variable keeps its type: what the launcher names, what is registered and
\* what a daemon runs are versions and definitions the code can have written.
THEOREM TypeCorrect == Spec => []TypeOK
<1>1. IInv => TypeOK
  BY DEF IInv, Typed
<1> QED BY <1>1, InvCorrect, PTL

\* update.apply never leaves the launcher at a version that is absent or broken,
\* at no step of it and wherever it fails or dies.
THEOREM LauncherCorrect == Spec => []LauncherRuns
<1>1. IInv => LauncherRuns
  BY DEF IInv, ApplyInv
<1> QED BY <1>1, InvCorrect, PTL

\* heartbeat update answers ok only when the daemon it found runs code with the
\* version string that is checked out, the very commit if this update moved HEAD,
\* and its dependencies are those of that commit.  That the daemon runs the commit
\* without having been restarted for it does not follow from a version string.
THEOREM OkCorrect == Spec => []OkMeansCurrent
<1>1. IInv => OkMeansCurrent
  BY DEF IInv, PullInv
<1> QED BY <1>1, InvCorrect, PTL

\* migrate-service that fails or refuses has put back what was registered and
\* started what ran.
THEOREM MigrationCorrect == Spec => []MigrationRestores
<1>1. IInv => MigrationRestores
  BY DEF IInv, InMigration, MigrationRestores, WayBack, FoundUp, AsFound
<1> QED BY <1>1, InvCorrect, PTL

\* An answer is the last step of the update it is about.
LEMMA OwnAnswer ==
  ASSUME IInv, Next, Asked({"apply"}), NEW u \in Updaters,
         update[u].pc # "done", update'[u].pc = "done"
  PROVE  ReadAgain(u) \/ SwitchLauncher(u) \/ CheckVersion(u) \/ Succeeds(u)
<1> TypeOK
  BY DEF IInv, Typed
<1>1. "git" \notin env
  BY DEF Asked
<1>2. PICK w \in Updaters : Apply(w)
  BY <1>1 DEF Next, MigrateService, BeginMigration, BeginOwn, Disable, Unload, StopUnit,
      WriteDefinition, LoadDefinition, VerifyService, Restore, MigratorDies, OutsideMigration,
      Starts, Announces, Ends, Downloads, RunStarts, RunEnds, Commit,
      Pull, Fetch, Merge, InstallDeps, Decide, RestartDaemon, IInv, InProgress, PullPcs
<1>3. update' = update \/ \E r : Does(w, r)
  BY <1>2 DEF Apply, PlanUpdate, ReadAgain, SwitchLauncher, RestartService, CheckVersion, Prune,
      Succeeds, Finished, Answers
<1>4. w = u
  BY <1>3 DEF Does, TypeOK
<1>5. ~PlanUpdate(u)
  <2>1. ASSUME NEW v \in Versions,
               Does(u, [NoUpdate EXCEPT !.pc = "planned", !.target = v, !.plan = Facts(v)])
        PROVE  FALSE
    BY <2>1, BeginsPlan DEF Moves
  <2> QED BY <2>1 DEF PlanUpdate
<1>6. ~RestartService(u)
  <2>1. ASSUME NEW failed \in Fails,
               Does(u, [update[u] EXCEPT !.pc = "check", !.failed = RestartStatus(failed) = "failed"])
        PROVE  FALSE
    BY <2>1, CheckMoves DEF Moves
  <2> QED BY <2>1 DEF RestartService
<1>7. ~Finished(u) /\ ~Prune(u)
  BY EndsUpdate DEF Finished, Prune, Moves
<1> QED BY <1>2, <1>4, <1>5, <1>6, <1>7 DEF Apply

LEMMA AnswerTrue ==
  ASSUME IInv, Next, Asked({"apply"}), "two" \notin env, NEW u \in Updaters,
         update[u].pc # "done", update'[u].pc = "done"
  PROVE  /\ update'[u].result \in {"plan_stale", "failure"} =>
              /\ installed' = installed
              /\ update'[u].result = "failure" => installed = update'[u].plan.installed
         /\ update'[u].result = "success" =>
              /\ installed' = update'[u].target
              /\ update'[u].before \in Versions /\ dirs'[update'[u].before] = "intact"
              /\ Up("own") => code["own"] = update'[u].target
              /\ "fails" \notin env =>
                   {v \in Versions : dirs'[v] # "absent"} = {update'[u].target, update'[u].before}
<1> TypeOK
  BY DEF IInv, Typed
<1>0. ReadAgain(u) \/ SwitchLauncher(u) \/ CheckVersion(u) \/ Succeeds(u)
  BY OwnAnswer
<1>1. "git" \notin env /\ dirs[installed] = "intact" /\ Switched(u)
  BY AskedMeans DEF IInv, ApplyInv, LauncherRuns
<1>2. CASE ReadAgain(u)
  <2>1. update[u].target \in Versions /\ installed' = installed
    BY <1>2 DEF IInv, Typed, ReadAgain, ApplyPcs
  <2>2. Facts(update[u].target).installed = installed
    BY <1>1 DEF Facts, InstalledVersion
  <2>3. installed \in VersionOrNone
    BY DEF TypeOK, VersionOrNone
  <2>4. \/ Answers(u, "plan_stale")
        \/ Answers(u, "failure") /\ update[u].plan.installed = installed
        \/ Does(u, [update[u] EXCEPT !.pc = "switch", !.before = installed])
    BY <1>2, <2>2 DEF ReadAgain
  <2>5. \/ update'[u].result = "plan_stale"
        \/ update'[u].result = "failure" /\ update[u].plan.installed = installed /\ Remembers(u)
    BY <2>3, <2>4, AnswersMoves, SwitchMoves DEF Results, Moves
  <2> QED BY <2>1, <2>5 DEF Remembers
<1>3. CASE SwitchLauncher(u)
  <2>1. installed' = installed /\ Answers(u, "failure")
    BY <1>3, GoesOn DEF SwitchLauncher, Moves, Pcs, ApplyPcs
  <2>2. update'[u].result = "failure" /\ Remembers(u)
    BY <2>1, AnswersMoves DEF Results
  <2> QED BY <1>1, <1>3, <2>1, <2>2 DEF SwitchLauncher, Switched, Remembers
<1>4. CASE CheckVersion(u)
  <2>1. Answers(u, "partial_success")
    BY <1>4, GoesOn DEF CheckVersion, Moves, Pcs, ApplyPcs
  <2>2. update'[u].result = "partial_success"
    BY <2>1, AnswersMoves DEF Results
  <2> QED BY <2>2
<1>5. CASE Succeeds(u)
  <2>1. update'[u].result = "success" /\ Remembers(u)
    BY <1>5, AnswersMoves DEF Succeeds, Results
  <2>2. /\ update[u].pc = "prune" /\ dirs' = dirs /\ installed' = installed
        /\ "fails" \in env \/ \A v \in Versions \ {update[u].target, update[u].before} : dirs[v] = "absent"
    BY <1>5 DEF Succeeds, Keeps
  <2>3. /\ installed = update[u].target /\ update[u].before \in Versions
        /\ dirs[update[u].before] = "intact" /\ code["own"] \in {None, update[u].target}
    BY <1>1, <2>2 DEF Switched
  <2>4. update[u].target \in Versions
    BY <2>3 DEF TypeOK
  <2>5. "fails" \notin env =>
          {v \in Versions : dirs[v] # "absent"} = {update[u].target, update[u].before}
    BY <1>1, <2>2, <2>3, <2>4
  <2> QED BY <2>1, <2>2, <2>3, <2>5 DEF Remembers, Up
<1> QED BY <1>0, <1>2, <1>3, <1>4, <1>5

\* What update.apply answers is true: a failure has changed nothing, a success runs
\* the new version, can go back to the one before, and keeps no other.
THEOREM ReportCorrect == Spec => UpdateAsReported
<1>1. ASSUME IInv, [Next]_vars, NEW u \in Updaters,
             Asked({"apply"}), "two" \notin env, update[u].pc # "done", update'[u].pc = "done"
      PROVE  Next
  BY <1>1 DEF vars
<1> DEFINE Reported ==
      \A u \in Updaters :
        LET now == update'[u] IN
          /\ Asked({"apply"}) /\ "two" \notin env /\ update[u].pc # "done" /\ now.pc = "done"
          => /\ now.result \in {"plan_stale", "failure"} =>
                  /\ installed' = installed
                  /\ now.result = "failure" => installed = now.plan.installed
             /\ now.result = "success" =>
                  /\ installed' = now.target
                  /\ now.before \in Versions /\ dirs'[now.before] = "intact"
                  /\ Up("own") => code["own"] = now.target
                  /\ "fails" \notin env =>
                       {v \in Versions : dirs'[v] # "absent"} = {now.target, now.before}
<1>2. IInv /\ [Next]_vars => [Reported]_vars
  BY <1>1, AnswerTrue
<1> QED BY <1>2, InvCorrect, PTL DEF Spec, UpdateAsReported
=============================================================================
