---------------------------- MODULE DeviceUpdate ----------------------------
(***************************************************************************)
(* How the code of a device is replaced, and the service that runs it:     *)
(*                                                                         *)
(*   update.plan and update.apply, for a managed installation: version     *)
(*   directories, a manifest in each, and a stable launcher that names one *)
(*   of them;                                                              *)
(*   heartbeat update, for a git checkout that runs in place;              *)
(*   migrate-service, which replaces what the service is registered to run *)
(*   and restores it when the new service does not come up.                *)
(*                                                                         *)
(* All three end at the service of the platform: launchd, systemd or Task  *)
(* Scheduler.  Between two steps the service dies and is started again,    *)
(* runs start and end, the application downloads versions, commits arrive; *)
(* commands fail and the updating process may die.                         *)
(*                                                                         *)
(* A version is a number.  In a checkout it is a commit.  The version      *)
(* string of the code, __version__, is a line of it that is changed by     *)
(* hand: several commits have the same.                                    *)
(***************************************************************************)
EXTENDS Integers, FiniteSets

CONSTANTS
  Versions,  \* the versions there will be
  VersionString, \* __version__ of each, of which only equality matters
  Updaters,  \* processes that update
  Envs,      \* the devices to look at, sets of EnvKinds
  None

EnvKinds == {"apply", "git", "migrate",        \* what is asked for
             "launchd", "systemd", "tasks",    \* the platform
             "registered",  \* the service is registered from the start
             "foreign",     \* as is one of another name, under launchd
             "off",         \* what is registered does not run at first
             "manual",      \* the daemon is started by hand
             "fails",       \* commands may fail
             "dies",        \* the updating process may die
             "two",         \* two processes may update
             "service",     \* daemons die and start
             "runs",        \* agent runs start and end
             "downloads",   \* the application downloads versions
             "inside"}      \* heartbeat update may be called by a job

ASSUME VersionsAssumption == Versions \subseteq Nat /\ 1 \in Versions
ASSUME VersionStringAssumption == VersionString \in [Versions -> Nat]
ASSUME EnvAssumption == Envs \subseteq SUBSET EnvKinds /\ None \notin Versions

\* A device has one platform, and only a launchd service has a label to change.
Platforms == {"launchd", "systemd", "tasks"}
ASSUME PlatformAssumption ==
  \A e \in Envs : \E p \in Platforms :
    e \cap Platforms = {p} /\ ("foreign" \in e => p = "launchd")

VARIABLES
  env,
  dirs,      \* versions/<v>: "absent", "intact" or "corrupt"
  installed, \* what the launcher names; in a checkout, HEAD
  upstream,  \* the last commit of the upstream branch
  deps,      \* the commit whose dependencies are installed
  own,       \* the definition of our service: "none", the "old" or the "new"
  foreign,   \* that of the other: "none", "enabled" or "disabled"
  code,      \* the version each daemon that runs has loaded
  announced, \* the daemon that wrote its PID and version string last
  workers,   \* the versions agent runs execute
  update,    \* per updating process: step, candidate and what it has read
  migration  \* migrate-service: step, what it found, what it answers

service == <<own, foreign, code, announced>>
store == <<dirs, installed, upstream, deps>>
vars == <<env, store, service, workers, update, migration>>

Daemons == {"own", "foreign", "manual"}
Up(d) == code[d] # None
Platform == CHOOSE p \in Platforms : p \in env
NoFacts == [manifest |-> FALSE, installed |-> None, running |-> None, runs |-> FALSE,
            own |-> "none", up |-> FALSE]
NoUpdate == [pc |-> "idle", target |-> None, plan |-> NoFacts, before |-> None,
             failed |-> FALSE, moved |-> FALSE, seen |-> None, result |-> None]
NoMigration == [pc |-> "idle", own |-> "none", foreign |-> "none", up |-> {}, clean |-> TRUE]

Init ==
  /\ env \in Envs
  /\ dirs = [v \in Versions |-> IF v = 1 THEN "intact" ELSE "absent"]
  /\ installed = 1 /\ upstream = 1 /\ deps = 1
  /\ own \in IF "registered" \notin env THEN {"none"}
             ELSE IF "migrate" \in env THEN {"old", "new"} ELSE {"new"}
  /\ foreign \in IF "foreign" \notin env THEN {"none"}
                 ELSE IF own = "none" THEN {"enabled"} ELSE {"enabled", "disabled"}
  /\ code = [d \in Daemons |->
       IF /\ "off" \notin env
          /\ \/ d = "own" /\ own # "none"
             \/ d = "foreign" /\ foreign = "enabled"
       THEN 1 ELSE None]
  /\ announced = [who |-> None, version |-> None]
  /\ workers = {}
  /\ update = [u \in Updaters |-> NoUpdate]
  /\ migration = NoMigration

-----------------------------------------------------------------------------
(* What an executable runs, and the commands of the platform.              *)

\* The launcher runs the version it names; in a checkout everything runs HEAD.
Loads == IF "git" \in env \/ dirs[installed] = "intact" THEN installed ELSE None

Fails == {FALSE} \cup {"fails" \in env}

\* restart of the adapter: the registered service, if it runs.  The Task
\* Scheduler ends it without looking and starts it, so a failure ends it.
RestartStatus(failed) ==
  IF own = "none" \/ (Platform # "tasks" /\ ~Up("own")) THEN "skipped"
  ELSE IF failed THEN "failed" ELSE "ok"
Restarts(status) ==
  code' = CASE status = "ok" -> [code EXCEPT !["own"] = Loads]
            [] status = "failed" /\ Platform = "tasks" -> [code EXCEPT !["own"] = None]
            [] OTHER -> code

\* The system starts a registered service, a user a daemon.
Starts(d) ==
  /\ "service" \in env /\ ~Up(d)
  /\ \/ d = "own" /\ own # "none"
     \/ d = "manual" /\ "manual" \in env
  /\ code' = [code EXCEPT ![d] = Loads]
  /\ UNCHANGED <<env, store, own, foreign, announced, workers, update, migration>>

\* It has loaded its code before it writes its PID and its version string.
Announces(d) ==
  /\ Up(d) /\ announced.who # d
  /\ announced' = [who |-> d, version |-> VersionString[code[d]]]
  /\ UNCHANGED <<env, store, own, foreign, code, workers, update, migration>>

Ends(d) ==
  /\ "service" \in env /\ Up(d)
  /\ code' = [code EXCEPT ![d] = None]
  /\ announced' = IF announced.who = d THEN [announced EXCEPT !.who = None] ELSE announced
  /\ UNCHANGED <<env, store, own, foreign, workers, update, migration>>

RunStarts ==
  /\ "runs" \in env /\ Loads # None
  /\ workers' = workers \cup {Loads}
  /\ UNCHANGED <<env, store, service, update, migration>>

RunEnds ==
  /\ \E v \in workers : workers' = workers \ {v}
  /\ UNCHANGED <<env, store, service, update, migration>>

\* The application puts a version beside the others, completely or not; not
\* after the launcher has been switched.
Downloads(v) ==
  /\ "downloads" \in env /\ v # installed
  /\ \A u \in Updaters : update[u].pc \in {"idle", "planned", "switch", "done"}
  /\ \E state \in {"intact", "corrupt"} \ {dirs[v]} : dirs' = [dirs EXCEPT ![v] = state]
  /\ UNCHANGED <<env, installed, upstream, deps, service, workers, update, migration>>

Commit ==
  /\ "git" \in env /\ upstream + 1 \in Versions
  /\ upstream' = upstream + 1
  /\ UNCHANGED <<env, dirs, installed, deps, service, workers, update, migration>>

-----------------------------------------------------------------------------
(* update.plan and update.apply.                                           *)

InstalledVersion == IF dirs[installed] = "absent" THEN None ELSE installed

\* read_device_facts and the fingerprint of what it read.
Facts(v) ==
  [manifest |-> dirs[v] = "intact", installed |-> InstalledVersion,
   running |-> IF Up("own") THEN InstalledVersion ELSE None, runs |-> workers # {},
   own |-> own, up |-> Up("own")]

Does(u, record) == update' = [update EXCEPT ![u] = record]
Answers(u, result) == Does(u, [update[u] EXCEPT !.pc = "done", !.result = result])
OutsideUpdates == <<env, upstream, deps, own, foreign, announced, workers, migration>>

\* No lock keeps two processes from updating.
MayBegin(u) ==
  /\ update[u].pc = "idle"
  /\ "two" \in env \/ \A w \in Updaters : update[w].pc = "idle"

PlanUpdate(u) ==
  /\ "apply" \in env /\ MayBegin(u)
  /\ \E v \in Versions :
       Does(u, [NoUpdate EXCEPT !.pc = "planned", !.target = v, !.plan = Facts(v)])
  /\ UNCHANGED <<OutsideUpdates, dirs, installed, code>>

\* apply_update reads again; a device that changed needs a new plan.
ReadAgain(u) ==
  /\ update[u].pc = "planned" /\ "apply" \in env
  /\ LET facts == Facts(update[u].target) IN
       \/ facts # update[u].plan /\ Answers(u, "plan_stale")
       \/ facts = update[u].plan /\ ~facts.manifest /\ Answers(u, "failure")
       \/ /\ facts = update[u].plan /\ facts.manifest
          /\ Does(u, [update[u] EXCEPT !.pc = "switch", !.before = facts.installed])
  /\ UNCHANGED <<OutsideUpdates, dirs, installed, code>>

(* Seeded fault: the verification of the first stage is trusted.            *)
SwitchUnverified(u) ==
  /\ update[u].pc = "switch"
  /\ installed' = update[u].target
  /\ Does(u, [update[u] EXCEPT !.pc = "service"])
  /\ UNCHANGED <<OutsideUpdates, dirs, code>>

\* activate_stable_launcher verifies the candidate once more and replaces
\* the launcher atomically.
SwitchLauncher(u) ==
  /\ update[u].pc = "switch"
  /\ \E failed \in Fails :
       IF dirs[update[u].target] = "intact" /\ ~failed
       THEN /\ installed' = update[u].target
            /\ Does(u, [update[u] EXCEPT !.pc = "service"])
       ELSE Answers(u, "failure") /\ UNCHANGED installed
  /\ UNCHANGED <<OutsideUpdates, dirs, code>>

\* A service that is not registered or does not run is no failure.
RestartService(u) ==
  /\ update[u].pc = "service"
  /\ \E failed \in Fails :
       /\ Restarts(RestartStatus(failed))
       /\ Does(u, [update[u] EXCEPT !.pc = "check", !.failed = RestartStatus(failed) = "failed"])
  /\ UNCHANGED <<OutsideUpdates, dirs, installed>>

\* running_version_check reads the launcher again.
CheckVersion(u) ==
  /\ update[u].pc = "check"
  /\ IF InstalledVersion = update[u].target /\ ~update[u].failed
     THEN Does(u, [update[u] EXCEPT !.pc = "prune"])
     ELSE Answers(u, "partial_success")
  /\ UNCHANGED <<OutsideUpdates, dirs, installed, code>>

(* Seeded fault: only the new version is kept.                             *)
KeepsNew(u) == {update[u].target}

\* The new version and the one it replaced.
Keeps(u) == {update[u].target, update[u].before}

\* _prune_old_versions removes one directory after the other; a removal
\* that fails leaves all or part of it.
Prune(u) ==
  /\ update[u].pc = "prune"
  /\ \E v \in {w \in Versions : dirs[w] # "absent"} \ Keeps(u), failed \in Fails :
       dirs' = [dirs EXCEPT ![v] = IF failed THEN "corrupt" ELSE "absent"]
  /\ UNCHANGED <<OutsideUpdates, installed, code, update>>

Succeeds(u) ==
  /\ update[u].pc = "prune"
  /\ "fails" \in env \/ \A v \in Versions \ Keeps(u) : dirs[v] = "absent"
  /\ Answers(u, "success")
  /\ UNCHANGED <<OutsideUpdates, dirs, installed, code>>

\* The answer has been read, or the process dies before it has one.
Finished(u) ==
  /\ update[u].pc = "done" \/ ("dies" \in env /\ update[u].pc # "idle")
  /\ Does(u, NoUpdate)
  /\ UNCHANGED <<OutsideUpdates, dirs, installed, code>>

-----------------------------------------------------------------------------
(* heartbeat update: git, pip, service.                                    *)

\* git status, the upstream of the branch, git fetch: each may stop it.
Fetch(u) ==
  /\ "git" \in env /\ MayBegin(u)
  /\ \E failed \in Fails :
       IF failed THEN Does(u, [NoUpdate EXCEPT !.pc = "done", !.result = "failed"])
       ELSE Does(u, [NoUpdate EXCEPT !.pc = "merge", !.target = upstream])
  /\ UNCHANGED <<OutsideUpdates, dirs, installed, code>>

\* Fast-forward to what was fetched, if that is another commit and HEAD an
\* ancestor of it.
Merge(u) ==
  /\ update[u].pc = "merge"
  /\ \E failed \in Fails :
       IF installed = update[u].target
       THEN Does(u, [update[u] EXCEPT !.pc = "decide"]) /\ UNCHANGED installed
       ELSE IF failed THEN Answers(u, "failed") /\ UNCHANGED installed
       ELSE /\ installed' = update[u].target
            /\ Does(u, [update[u] EXCEPT !.pc = "deps", !.moved = TRUE])
  /\ UNCHANGED <<OutsideUpdates, dirs, code>>

\* pip install, only after HEAD has moved.
InstallDeps(u) ==
  /\ update[u].pc = "deps"
  /\ \E failed \in Fails :
       IF failed THEN Answers(u, "partial") /\ UNCHANGED deps
       ELSE deps' = installed /\ Does(u, [update[u] EXCEPT !.pc = "decide"])
  /\ UNCHANGED <<env, dirs, installed, upstream, service, workers, migration>>

(* Seeded fault: only a pull that moved HEAD leads to a restart.           *)
DecideOnHead(u) ==
  /\ update[u].pc = "decide"
  /\ \E inside \in {FALSE} \cup {"inside" \in env /\ announced.who # None} :
       IF ~update[u].moved
       THEN Does(u, [update[u] EXCEPT !.pc = "done", !.result = "ok", !.seen = announced.who])
       ELSE IF inside THEN Answers(u, "partial")
       ELSE Does(u, [update[u] EXCEPT !.pc = "restart", !.seen = announced.who])
  /\ UNCHANGED <<OutsideUpdates, dirs, installed, code>>

\* The daemon is restarted when HEAD has moved or the daemon that runs has
\* recorded another version string, but never from inside it.
Decide(u) ==
  /\ update[u].pc = "decide"
  /\ \E inside \in {FALSE} \cup {"inside" \in env /\ announced.who # None} :
       IF ~update[u].moved /\ (announced.who = None \/ announced.version = VersionString[installed])
       THEN Does(u, [update[u] EXCEPT !.pc = "done", !.result = "ok", !.seen = announced.who])
       ELSE IF inside THEN Answers(u, "partial")
       ELSE Does(u, [update[u] EXCEPT !.pc = "restart", !.seen = announced.who])
  /\ UNCHANGED <<OutsideUpdates, dirs, installed, code>>

RestartDaemon(u) ==
  /\ update[u].pc = "restart"
  /\ \E failed \in Fails :
       LET status == RestartStatus(failed) IN
         /\ Restarts(status)
         /\ announced' = IF status # "skipped" /\ announced.who = "own"
                         THEN [announced EXCEPT !.who = None] ELSE announced
         /\ Answers(u, IF status = "failed" \/ (status = "skipped" /\ update[u].seen # None)
                       THEN "partial" ELSE "ok")
  /\ UNCHANGED <<env, store, own, foreign, workers, migration>>

-----------------------------------------------------------------------------
(* migrate-service.                                                        *)

OutsideMigration == <<env, store, announced, workers, update>>
MigratesTo(pc) == migration' = [migration EXCEPT !.pc = pc]
Finds(pc) == migration' = [migration EXCEPT !.pc = pc, !.own = own, !.foreign = foreign,
                                            !.up = {d \in Daemons : Up(d)}]
Down(d) == code' = [code EXCEPT ![d] = None]

\* What is registered; with nothing to replace it only installs.  launchd
\* turns the other service off, systemd stops its unit, the Task Scheduler
\* replaces the definition while it runs.
BeginMigration ==
  /\ "migrate" \in env /\ migration.pc = "idle"
  /\ Platform = "launchd" => own = "none"
  /\ Finds(IF Platform = "launchd" /\ foreign # "none" THEN "disable"
           ELSE IF Platform = "systemd" /\ own # "none" THEN "stop"
           ELSE "write")
  /\ UNCHANGED <<OutsideMigration, own, foreign, code>>

\* launchd with a registration of ours: with another enabled one nothing is
\* done, otherwise ours is unloaded and installed again; no way back.
BeginOwn ==
  /\ "migrate" \in env /\ migration.pc = "idle"
  /\ Platform = "launchd" /\ own # "none"
  /\ \/ foreign = "enabled" /\ Finds("refused") /\ UNCHANGED code
     \/ foreign # "enabled" /\ own = "new" /\ Up("own") /\ MigratesTo("moved") /\ UNCHANGED code
     \/ /\ foreign # "enabled" /\ ~(own = "new" /\ Up("own"))
        /\ \E failed \in Fails : IF failed THEN UNCHANGED code ELSE Down("own")
        /\ migration' = [migration EXCEPT !.pc = "write", !.own = "ours"]
  /\ UNCHANGED <<OutsideMigration, own, foreign>>

\* launchctl disable, and unload, whose result nobody looks at.
Disable ==
  /\ migration.pc = "disable"
  /\ \E failed \in Fails :
       IF failed THEN MigratesTo("failed") /\ UNCHANGED foreign
       ELSE foreign' = "disabled" /\ MigratesTo("unload")
  /\ UNCHANGED <<OutsideMigration, own, code>>

Unload ==
  /\ migration.pc = "unload"
  /\ \E failed \in Fails : IF failed THEN UNCHANGED code ELSE Down("foreign")
  /\ MigratesTo("write")
  /\ UNCHANGED <<OutsideMigration, own, foreign>>

\* systemctl disable --now.
StopUnit ==
  /\ migration.pc = "stop"
  /\ \E failed \in Fails :
       IF failed THEN MigratesTo("failed") /\ UNCHANGED code
       ELSE Down("own") /\ MigratesTo("write")
  /\ UNCHANGED <<OutsideMigration, own, foreign>>

\* install: the definition is written or created ...
WriteDefinition ==
  /\ migration.pc = "write"
  /\ \E failed \in Fails :
       IF failed THEN MigratesTo("restore") /\ UNCHANGED own
       ELSE own' = "new" /\ MigratesTo("load")
  /\ UNCHANGED <<OutsideMigration, foreign, code>>

\* ... and loaded, enabled or run, which does nothing to a daemon that runs.
\* The Task Scheduler's is deleted when that fails.
LoadDefinition ==
  /\ migration.pc = "load"
  /\ \E failed \in Fails :
       IF failed
       THEN /\ own' = IF Platform = "tasks" THEN "none" ELSE own
            /\ MigratesTo("restore") /\ UNCHANGED code
       ELSE /\ code' = IF Up("own") THEN code ELSE [code EXCEPT !["own"] = Loads]
            /\ MigratesTo("verify") /\ UNCHANGED own
  /\ UNCHANGED <<OutsideMigration, foreign>>

\* inspect: registered and running; the Task Scheduler cannot tell running.
VerifyService ==
  /\ migration.pc = "verify"
  /\ MigratesTo(IF Platform = "tasks" \/ Up("own") THEN "moved" ELSE "restore")
  /\ UNCHANGED <<OutsideMigration, own, foreign, code>>

(* Seeded fault: what was registered is put back, but not started again.   *)
RestoreFiles ==
  /\ migration.pc = "restore"
  /\ own' = migration.own /\ foreign' = migration.foreign
  /\ MigratesTo("failed")
  /\ UNCHANGED <<OutsideMigration, code>>

\* The way back, of commands whose results do not stop it.  launchd: ours is
\* uninstalled, the other enabled again, and loaded if it was.  systemd: the
\* unit as it was, enabled and started.  Task Scheduler: the definition as it
\* was.  Where nothing was registered, and for ours under launchd, there is
\* no way back.
Restore ==
  /\ migration.pc = "restore"
  /\ \E failed \in SUBSET (IF "fails" \in env THEN {"unload", "enable", "start"} ELSE {}) :
       /\ \/ /\ Platform = "launchd" /\ migration.foreign # "none" /\ migration.own = "none"
             /\ own' = "none"
             /\ foreign' = IF "enable" \in failed THEN foreign ELSE migration.foreign
             /\ code' = [code EXCEPT
                  !["own"] = IF "unload" \in failed THEN @ ELSE None,
                  !["foreign"] = IF "foreign" \in migration.up /\ failed = {} THEN Loads ELSE @]
          \/ /\ Platform = "systemd" /\ migration.own # "none"
             /\ own' = migration.own
             /\ code' = IF Up("own") \/ failed # {} THEN code ELSE [code EXCEPT !["own"] = Loads]
             /\ UNCHANGED foreign
          \/ /\ Platform = "tasks" /\ migration.own # "none"
             /\ own' = IF "start" \in failed THEN own ELSE migration.own
             /\ UNCHANGED <<foreign, code>>
          \/ /\ \/ migration.own = "ours"
                \/ migration.own = "none" /\ (Platform # "launchd" \/ migration.foreign = "none")
             /\ UNCHANGED <<own, foreign, code>>
       /\ migration' = [migration EXCEPT !.pc = "failed", !.clean = failed = {}]
  /\ UNCHANGED OutsideMigration

MigratorDies ==
  /\ "dies" \in env /\ migration.pc \notin {"idle", "moved", "refused", "failed", "dead"}
  /\ MigratesTo("dead")
  /\ UNCHANGED <<OutsideMigration, own, foreign, code>>

-----------------------------------------------------------------------------
Apply(u) ==
  \/ PlanUpdate(u) \/ ReadAgain(u) \/ SwitchLauncher(u) \/ RestartService(u)
  \/ CheckVersion(u) \/ Prune(u) \/ Succeeds(u) \/ Finished(u)

Pull(u) == Fetch(u) \/ Merge(u) \/ InstallDeps(u) \/ Decide(u) \/ RestartDaemon(u)

MigrateService ==
  \/ BeginMigration \/ BeginOwn \/ Disable \/ Unload \/ StopUnit \/ WriteDefinition
  \/ LoadDefinition \/ VerifyService \/ Restore \/ MigratorDies

Next ==
  \/ \E u \in Updaters : Apply(u) \/ Pull(u)
  \/ MigrateService
  \/ \E d \in Daemons : Starts(d) \/ Announces(d) \/ Ends(d)
  \/ \E v \in Versions : Downloads(v)
  \/ RunStarts \/ RunEnds \/ Commit

Spec == Init /\ [][Next]_vars

-----------------------------------------------------------------------------
(* Properties.                                                             *)

VersionOrNone == Versions \cup {None}
StringOrNone == {VersionString[v] : v \in Versions} \cup {None}
FactsRecords == [manifest : BOOLEAN, installed : VersionOrNone, running : VersionOrNone,
                 runs : BOOLEAN, own : {"none", "old", "new"}, up : BOOLEAN]

UpdateRecords ==
  [pc : {"idle", "planned", "switch", "service", "check", "prune",
         "merge", "deps", "decide", "restart", "done"},
   target : VersionOrNone, plan : FactsRecords, before : VersionOrNone,
   failed : BOOLEAN, moved : BOOLEAN, seen : Daemons \cup {None},
   result : {None, "success", "failure", "partial_success", "plan_stale",
             "ok", "partial", "failed"}]
MigrationRecords ==
  [pc : {"idle", "disable", "unload", "stop", "write", "load", "verify", "restore",
         "moved", "refused", "failed", "dead"},
   own : {"none", "old", "new", "ours"}, foreign : {"none", "enabled", "disabled"},
   up : SUBSET Daemons, clean : BOOLEAN]

(* Type correctness: only what the code can write is ever stored, and a    *)
(* daemon runs from a version that is there.                               *)
TypeOK ==
  /\ env \in Envs
  /\ dirs \in [Versions -> {"absent", "intact", "corrupt"}]
  /\ installed \in Versions /\ upstream \in Versions /\ deps \in Versions
  /\ own \in {"none", "old", "new"} /\ foreign \in {"none", "enabled", "disabled"}
  /\ code \in [Daemons -> VersionOrNone]
  /\ announced \in [who : Daemons \cup {None}, version : StringOrNone]
  /\ workers \in SUBSET Versions
  /\ update \in [Updaters -> UpdateRecords]
  /\ migration \in MigrationRecords

\* Nothing keeps the three from running at the same time, and then none of them
\* can promise what it does alone.
Asked(requests) == env \cap {"apply", "git", "migrate"} \subseteq requests

(* The launcher names a version that is there and complete, whatever the   *)
(* application downloads, wherever an update fails or dies: a service that *)
(* is started again always finds something to run.  With two updates at    *)
(* once it does not hold: one prunes what the other has just switched to.  *)
LauncherRuns ==
  {"git", "two"} \cap env = {} => dirs[installed] = "intact"

(* What update.apply answers is true of the device: a stale plan and a     *)
(* failure have changed nothing; a success runs the version it names,      *)
(* keeps the one it replaced to go back to, and removed every other, as    *)
(* long as no other update and no migration comes between.                 *)
UpdateAsReported ==
  [][\A u \in Updaters :
       LET now == update'[u] IN
         /\ Asked({"apply"}) /\ "two" \notin env /\ update[u].pc # "done" /\ now.pc = "done"
         => /\ now.result \in {"plan_stale", "failure"} =>
                 /\ installed' = installed
                 /\ now.result = "failure" => installed = now.plan.installed
            /\ now.result = "success" =>
                 /\ installed' = now.target
                 /\ now.before \in Versions /\ dirs'[now.before] = "intact"
                 /\ Up("own") => code["own"] = now.target
                 /\ "fails" \notin env =>
                      {v \in Versions : dirs'[v] # "absent"} = {now.target, now.before}]_vars

(* When heartbeat update answers ok, the daemon it found runs code with    *)
(* the version string that is checked out, though it may have been started *)
(* before the checkout moved, and the very commit if this update moved it. *)
(* More is not promised: what an update that stopped before the restart    *)
(* left behind is told by the version string alone (OkRunsTheCheckout).    *)
(* Not with a daemon started by hand, or by another registration, beside   *)
(* the registered service: the service is restarted and the other is not   *)
(* looked at.                                                              *)
OkMeansCurrent ==
  \A u \in Updaters :
    /\ update[u].pc = "done" /\ update[u].result = "ok"
    /\ Asked({"git"}) /\ "two" \notin env
    /\ "registered" \in env => {"manual", "foreign"} \cap env = {}
    => /\ update[u].seen # None /\ Up(update[u].seen) =>
            /\ VersionString[code[update[u].seen]] = VersionString[installed]
            /\ update[u].moved => code[update[u].seen] = installed
       /\ "fails" \notin env /\ "dies" \notin env => deps = installed

(* What a reader of the answer takes it for: after ok the daemon it found  *)
(* runs the commit that is checked out.  It fails where commits share a    *)
(* version string: an update moves HEAD and stops before the restart, and  *)
(* the next one finds HEAD in place and the strings equal.                 *)
OkRunsTheCheckout ==
  \A u \in Updaters :
    update[u].pc = "done" /\ update[u].result = "ok" /\ Asked({"git"})
    /\ update[u].seen # None /\ Up(update[u].seen)
    => code[update[u].seen] = installed

(* migrate-service that fails gives back what it found: what was           *)
(* registered is registered as before and what ran runs, unless a command  *)
(* of the way back failed too.  Not for a registration of ours under       *)
(* launchd, which has no way back, and not while an update runs.           *)
MigrationRestores ==
  /\ Asked({"migrate"})
  /\ migration.pc \in {"refused", "failed"} /\ migration.clean
  /\ migration.own # "ours" /\ ~(migration.own = "none" /\ migration.foreign = "none")
  => /\ own = migration.own /\ foreign = migration.foreign
     /\ "service" \notin env => migration.up \subseteq {d \in Daemons : Up(d)}
=============================================================================
