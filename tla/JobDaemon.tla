----------------------------- MODULE JobDaemon -----------------------------
(***************************************************************************)
(* The job daemon: heartbeat_loop, its dispatch groups and the files it    *)
(* reads and writes.                                                       *)
(*                                                                         *)
(* Every cycle the daemon reads HEARTBEAT.md and the project's jobs.d      *)
(* file, submits the groups that are not in flight to a thread pool and    *)
(* sleeps.  A thread goes through the jobs of its group: is it due, is its *)
(* quota used up, does its condition hold; then it launches claude,        *)
(* records the launch, waits and records the result.  The state is shared  *)
(* in memory, keyed by job name, and saved whole with every change.        *)
(*                                                                         *)
(* Beside it `heartbeat once` runs jobs in a process of its own, `heartbeat*)
(* migrate` moves jobs from HEARTBEAT.md to jobs.d, `heartbeat install`    *)
(* adds one, users edit groups, and daemons are stopped, killed and        *)
(* started again, one while the threads of another still drain.            *)
(*                                                                         *)
(* One project.  Time is two choices: the interval of a job is over (in    *)
(* every copy of the state), or a launch leaves the window of its quota.   *)
(***************************************************************************)
EXTENDS Integers, FiniteSets, Sequences, SequencesExt

CONSTANTS
  Procs,      \* heartbeat processes
  Threads,    \* the threads of a pool
  JobOrder,   \* the job names, in the order of the files
  InBase,     \* those HEARTBEAT.md holds at first
  InJobsD,    \* those the jobs.d file holds at first, if it is there
  Extra,      \* those a skill installation may add
  Groups,     \* the groups a job may declare
  FirstGroup, \* the group each job declares at first
  Quota,      \* max_per of each job, 0 where there is none
  Long,       \* jobs whose claude nobody waits for in the properties
  Launches,   \* bound: launches remembered at one time
  Envs,       \* the environments to look at, sets of EnvKinds
  None

Names == ToSet(JobOrder)
EnvKinds == {"file",       \* the jobs.d file is there from the start
             "edit",       \* the group of a job is edited
             "migrate",    \* heartbeat migrate, which may die
             "install",    \* heartbeat install of a skill
             "conditions", \* conditions may fail
             "missing",    \* working directory or claude may be missing
             "time",       \* the intervals of jobs pass
             "window",     \* the windows of quotas slide
             "crash",      \* a daemon may die
             "stop",       \* heartbeat stop
             "unreadable", \* state.json may be broken, or not be readable
             "overlap",    \* a daemon may start while another starts or drains
             "once"}       \* heartbeat once

ASSUME ProcsAssumption == {"nobody", "dead"} \cap Procs = {}
ASSUME NamesAssumption == InBase \cup InJobsD \cup Extra \cup Long \subseteq Names
ASSUME OrderAssumption == JobOrder \in Seq(Names)
ASSUME GroupsAssumption ==
  IsFiniteSet(Groups) /\ FirstGroup \in [Names -> Groups] /\ None \notin Groups
ASSUME QuotaAssumption == Quota \in [Names -> Nat]
ASSUME EnvAssumption == Envs \subseteq SUBSET EnvKinds
ASSUME LaunchesAssumption == IsFiniteSet(Launches) /\ None \notin Launches

VARIABLES
  env,       \* the environment, one of Envs
  base,      \* jobs in HEARTBEAT.md
  jobsd,     \* jobs in jobs.d/<slug>.md
  exists,    \* whether that file exists
  rewriting, \* the files that have been truncated to be written
  group,     \* the group each job declares
  migration, \* heartbeat migrate: step, the jobs it has read, was the file there
  addition,  \* heartbeat install: step, its job and the jobs it has read
  pidfile,   \* what the PID file names: "nobody", a process, "dead"
  main,      \* per process, its main thread: step and parsed jobs with group
  mem,       \* per process, the state: per job, is it fresh, its recent_runs
  disk,      \* state.json
  inflight,  \* per process, _inflight: groups a task was submitted for
  queue,     \* per process, submitted tasks no thread has taken
  thread,    \* per process, the task of each thread
  window,    \* launches of each job within its window
  lost       \* of these, those a dying process had not recorded

files == <<base, jobsd, exists, rewriting, group>>
tools == <<migration, addition>>
pool == <<inflight, queue, thread>>
claude == <<window, lost>>
vars == <<env, files, tools, pidfile, main, mem, disk, pool, claude>>

NoJobs == [n \in Names |-> None]
Gone == [pc |-> "off", list |-> NoJobs]
Idle == [pc |-> "idle", group |-> None, jobs |-> {}, launch |-> None]
NewState == [n \in Names |-> [fresh |-> FALSE, recent |-> {}]]
Quotaed == {n \in Names : Quota[n] > 0}

Init ==
  /\ env \in Envs
  /\ exists = ("file" \in env) /\ jobsd = IF exists THEN InJobsD ELSE {}
  /\ base = InBase /\ rewriting = {} /\ group = FirstGroup
  /\ migration = [pc |-> "idle", content |-> {}, found |-> FALSE]
  /\ addition = [pc |-> "idle", job |-> None, content |-> {}]
  /\ pidfile = "nobody"
  /\ main = [p \in Procs |-> Gone]
  /\ disk = NewState /\ mem = [p \in Procs |-> NewState]
  /\ inflight = [p \in Procs |-> {}] /\ queue = [p \in Procs |-> <<>>]
  /\ thread = [p \in Procs |-> [t \in Threads |-> Idle]]
  /\ window = [n \in Names |-> {}] /\ lost = window

-----------------------------------------------------------------------------
(* heartbeat start and stop, and the main loop.                            *)

OncePcs == {"once_base", "once_jobsd", "once", "once_runs"}

\* Processes and threads that do nothing are alike: any one is taken.
Off(p) == main[p].pc = "off"
IsNew(p) == Off(p) /\ p = CHOOSE q \in Procs : Off(q)
TakesNext(p, t) == thread[p][t].pc = "idle" /\ t = CHOOSE u \in Threads : thread[p][u].pc = "idle"
MayStart(p) ==
  /\ IsNew(p)
  /\ \A q \in Procs : \/ main[q].pc \in {"off"} \cup OncePcs
                      \/ "overlap" \in env /\ main[q].pc \in {"starting", "draining"}

\* _is_running: a PID file that names a dead process is removed.
CheckPid(p) ==
  /\ MayStart(p) /\ pidfile \notin Procs
  /\ pidfile' = "nobody"
  /\ main' = [main EXCEPT ![p].pc = "starting"]
  /\ UNCHANGED <<env, files, tools, mem, disk, pool, claude>>

(* Seeded fault: the daemon starts with an empty state.                    *)
StartEmpty(p) ==
  /\ main[p].pc = "starting"
  /\ pidfile' = p
  /\ mem' = [mem EXCEPT ![p] = NewState]
  /\ main' = [main EXCEPT ![p].pc = "base"]
  /\ UNCHANGED <<env, files, tools, disk, pool, claude>>

\* _load_state: a state.json that cannot be read is an empty one.
Loads(p) ==
  \E state \in {disk} \cup IF "unreadable" \in env THEN {NewState} ELSE {} :
    mem' = [mem EXCEPT ![p] = state]

\* The PID is written, the state loaded, and saved with the daemon's identity.
StartDaemon(p) ==
  /\ main[p].pc = "starting"
  /\ pidfile' = p
  /\ Loads(p) /\ disk' = mem'[p]
  /\ main' = [main EXCEPT ![p].pc = "base"]
  /\ UNCHANGED <<env, files, tools, pool, claude>>

\* A file that has been truncated to be written reads empty.
Reads(file, jobs) == IF file \in rewriting THEN {} ELSE jobs

\* parse_heartbeat_md reads HEARTBEAT.md ...
ReadBase(p) ==
  /\ main[p].pc \in {"base", "once_base"}
  /\ main' = [main EXCEPT ![p] =
       [pc |-> IF @.pc = "base" THEN "jobsd" ELSE "once_jobsd",
        list |-> [n \in Names |-> IF n \in Reads("base", base) THEN group[n] ELSE None]]]
  /\ UNCHANGED <<env, files, tools, pidfile, mem, disk, pool, claude>>

(* Seeded fault: a jobs.d file hides HEARTBEAT.md instead of adding to it. *)
ReadJobsDAlone(p) ==
  /\ main[p].pc \in {"jobsd", "once_jobsd"}
  /\ main' = [main EXCEPT ![p] =
       [pc |-> IF @.pc = "jobsd" THEN "dispatch" ELSE "once",
        list |-> [n \in Names |-> IF n \in Reads("jobsd", jobsd) THEN group[n]
                                  ELSE IF exists THEN None ELSE @.list[n]]]]
  /\ UNCHANGED <<env, files, tools, pidfile, mem, disk, pool, claude>>

\* ... and then the jobs.d file, whose definitions win.
ReadJobsD(p) ==
  /\ main[p].pc \in {"jobsd", "once_jobsd"}
  /\ main' = [main EXCEPT ![p] =
       [pc |-> IF @.pc = "jobsd" THEN "dispatch" ELSE "once",
        list |-> [n \in Names |-> IF n \in Reads("jobsd", jobsd) THEN group[n]
                                  ELSE @.list[n]]]]
  /\ UNCHANGED <<env, files, tools, pidfile, mem, disk, pool, claude>>

Listed(p) == {n \in Names : main[p].list[n] # None}
Task(g, jobs) == [pc |-> "next", group |-> g, jobs |-> jobs, launch |-> None]
OfGroup(p, g) == {n \in Names : main[p].list[n] = g}

(* Seeded fault: a group in flight is submitted again.                     *)
DispatchAll(p) ==
  /\ main[p].pc = "dispatch" /\ Len(queue[p]) < 3
  /\ LET due == {g \in Groups : OfGroup(p, g) # {}} IN
       /\ inflight' = [inflight EXCEPT ![p] = @ \cup due]
       /\ queue' = [queue EXCEPT ![p] =
            @ \o [i \in 1..Cardinality(due) |->
                    LET g == SetToSeq(due)[i] IN Task(g, OfGroup(p, g))]]
  /\ main' = [main EXCEPT ![p] = [pc |-> "base", list |-> NoJobs]]
  /\ UNCHANGED <<env, files, tools, pidfile, mem, disk, thread, claude>>

\* _dispatch_due_groups: every group of the list that is not in flight.
Dispatch(p) ==
  /\ main[p].pc = "dispatch"
  /\ LET due == {g \in Groups : OfGroup(p, g) # {}} \ inflight[p] IN
       /\ inflight' = [inflight EXCEPT ![p] = @ \cup due]
       /\ queue' = [queue EXCEPT ![p] =
            @ \o [i \in 1..Cardinality(due) |->
                    LET g == SetToSeq(due)[i] IN Task(g, OfGroup(p, g))]]
  /\ main' = [main EXCEPT ![p] = [pc |-> "base", list |-> NoJobs]]
  /\ UNCHANGED <<env, files, tools, pidfile, mem, disk, thread, claude>>

\* SIGTERM: the PID file is removed at once, the threads go on to the end.
Stop(p) ==
  /\ "stop" \in env /\ pidfile = p
  /\ pidfile' = "nobody"
  /\ main' = [main EXCEPT ![p] = [pc |-> "draining", list |-> NoJobs]]
  /\ UNCHANGED <<env, files, tools, mem, disk, pool, claude>>

Exits(p) == main' = [main EXCEPT ![p] = Gone] /\ mem' = [mem EXCEPT ![p] = NewState]
AllIdle(p) == queue[p] = <<>> /\ \A t \in Threads : thread[p][t].pc = "idle"

Drained(p) ==
  /\ main[p].pc = "draining" /\ AllIdle(p)
  /\ Exits(p)
  /\ UNCHANGED <<env, files, tools, pidfile, disk, pool, claude>>

\* What was launched and not yet recorded is known to nobody any more.
Crash(p) ==
  /\ "crash" \in env /\ ~Off(p)
  /\ pidfile' = IF pidfile = p THEN "dead" ELSE pidfile
  /\ Exits(p)
  /\ inflight' = [inflight EXCEPT ![p] = {}]
  /\ queue' = [queue EXCEPT ![p] = <<>>]
  /\ thread' = [thread EXCEPT ![p] = [t \in Threads |-> Idle]]
  /\ lost' = [n \in Names |-> lost[n] \cup (window[n] \cap
       {thread[p][t].launch : t \in {u \in Threads : thread[p][u].pc = "record"}})]
  /\ UNCHANGED <<env, files, tools, disk, window>>

\* heartbeat once, beside whatever runs: a copy of the state of its own.
\* Bound: one at a time.
Once(p) ==
  /\ "once" \in env /\ IsNew(p) /\ \A q \in Procs : main[q].pc \notin OncePcs
  /\ main' = [main EXCEPT ![p].pc = "once_base"]
  /\ Loads(p)
  /\ UNCHANGED <<env, files, tools, pidfile, disk, pool, claude>>

\* All jobs or the named one, one after the other.
OnceRuns(p, t) ==
  /\ main[p].pc = "once" /\ Listed(p) # {} /\ TakesNext(p, t)
  /\ \E chosen \in {Listed(p)} \cup {{n} : n \in Listed(p)} :
       thread' = [thread EXCEPT ![p][t] = Task(None, chosen)]
  /\ main' = [main EXCEPT ![p] = [pc |-> "once_runs", list |-> NoJobs]]
  /\ UNCHANGED <<env, files, tools, pidfile, mem, disk, inflight, queue, claude>>

OnceEnds(p) ==
  /\ \/ main[p].pc = "once_runs" /\ AllIdle(p)
     \/ main[p].pc = "once" /\ Listed(p) = {}
  /\ Exits(p)
  /\ UNCHANGED <<env, files, tools, pidfile, disk, pool, claude>>

-----------------------------------------------------------------------------
(* A thread of the pool: _run_slug_group and, per job, run_job.            *)

\* The jobs of a task have their turn in the order of the files.
First(jobs) == JobOrder[Min({i \in DOMAIN JobOrder : JobOrder[i] \in jobs})]
Job(p, t) == First(thread[p][t].jobs)
At(p, t, pc) == thread[p][t].pc = pc /\ thread[p][t].jobs # {}
Goes(p, t, pc) == thread' = [thread EXCEPT ![p][t].pc = pc]
GoesWith(p, t, pc, launch) ==
  thread' = [thread EXCEPT ![p][t] = [@ EXCEPT !.pc = pc, !.launch = launch]]
NextJob(p, t) ==
  LET rest == thread[p][t].jobs \ {Job(p, t)} IN
    thread' = [thread EXCEPT ![p][t] = [@ EXCEPT !.pc = "next", !.jobs = rest, !.launch = None]]
OutsideThreads == <<env, files, tools, pidfile, main, inflight, queue>>

\* The state of a process with job n changed, and state.json replaced by it.
Stores(p, n, state) ==
  /\ mem' = [mem EXCEPT ![p][n] = state]
  /\ disk' = mem'[p]

Take(p, t) ==
  /\ queue[p] # <<>> /\ TakesNext(p, t)
  /\ thread' = [thread EXCEPT ![p][t] = Head(queue[p])]
  /\ queue' = [queue EXCEPT ![p] = Tail(@)]
  /\ UNCHANGED <<env, files, tools, pidfile, main, mem, disk, inflight, claude>>

(* Seeded fault: the group stays in flight when its jobs are through.      *)
FinishInFlight(p, t) ==
  /\ thread[p][t].pc = "next" /\ thread[p][t].jobs = {}
  /\ thread' = [thread EXCEPT ![p][t] = Idle]
  /\ UNCHANGED <<env, files, tools, pidfile, main, mem, disk, inflight, queue, claude>>

\* The end of the group: it leaves _inflight whatever happened to its jobs.
Finish(p, t) ==
  /\ thread[p][t].pc = "next" /\ thread[p][t].jobs = {}
  /\ inflight' = [inflight EXCEPT ![p] = @ \ {thread[p][t].group}]
  /\ thread' = [thread EXCEPT ![p][t] = Idle]
  /\ UNCHANGED <<env, files, tools, pidfile, main, mem, disk, queue, claude>>

\* Is the job due?  Judged when its turn comes; `once` does not ask.
NotDue(p, t) ==
  /\ At(p, t, "next") /\ main[p].pc # "once_runs" /\ mem[p][Job(p, t)].fresh
  /\ NextJob(p, t)
  /\ UNCHANGED <<OutsideThreads, mem, disk, claude>>

Due(p, t) ==
  /\ At(p, t, "next") /\ (main[p].pc = "once_runs" \/ ~mem[p][Job(p, t)].fresh)
  /\ Goes(p, t, "quota")
  /\ UNCHANGED <<OutsideThreads, mem, disk, claude>>

\* last_run and last_result are saved, and the next job has its turn.
Saves(p, t) == Stores(p, Job(p, t), [mem[p][Job(p, t)] EXCEPT !.fresh = TRUE]) /\ NextJob(p, t)
UsedUp(p, n) == n \in Quotaed /\ Cardinality(mem[p][n].recent) >= Quota[n]

\* _quota_exceeded, before anything is started: a job skipped for it counts
\* as run.
OverQuota(p, t) ==
  /\ At(p, t, "quota") /\ UsedUp(p, Job(p, t))
  /\ Saves(p, t)
  /\ UNCHANGED <<OutsideThreads, claude>>

WithinQuota(p, t) ==
  /\ At(p, t, "quota") /\ ~UsedUp(p, Job(p, t))
  /\ Goes(p, t, "condition")
  /\ UNCHANGED <<OutsideThreads, mem, disk, claude>>

\* No working directory, or no claude to launch: the job stays due.
Missing(p, t) ==
  /\ "missing" \in env /\ At(p, t, "condition")
  /\ NextJob(p, t)
  /\ UNCHANGED <<OutsideThreads, mem, disk, claude>>

\* The condition fails closed, and a job skipped for it counts as run.
ConditionFails(p, t) ==
  /\ "conditions" \in env /\ At(p, t, "condition")
  /\ Saves(p, t)
  /\ UNCHANGED <<OutsideThreads, claude>>

Unused == Launches \ (UNION {window[m] : m \in Names}
                      \cup {thread[p][t].launch : p \in Procs, t \in Threads})

\* The condition holds: Popen.  Only the launches of jobs with a quota count.
Launch(p, t) ==
  /\ At(p, t, "condition")
  /\ LET n == Job(p, t)
         l == CHOOSE l \in Unused : TRUE IN
       IF n \in Quotaed
       THEN /\ Unused # {}
            /\ GoesWith(p, t, "record", l)
            /\ window' = [window EXCEPT ![n] = @ \cup {l}]
       ELSE Goes(p, t, "record") /\ UNCHANGED window
  /\ UNCHANGED <<OutsideThreads, mem, disk, lost>>

(* Seeded fault: every launch is recorded, with a quota or not.            *)
RecordAlways(p, t) ==
  /\ At(p, t, "record")
  /\ LET n == Job(p, t) IN
       Stores(p, n, [mem[p][n] EXCEPT !.recent = @ \cup {thread[p][t].launch}])
  /\ GoesWith(p, t, "running", None)
  /\ UNCHANGED <<OutsideThreads, claude>>

\* _record_quota_run and the save, once claude runs.
Record(p, t) ==
  /\ At(p, t, "record")
  /\ LET n == Job(p, t) IN
       Stores(p, n, [mem[p][n] EXCEPT !.recent =
                       IF n \in Quotaed THEN @ \cup ({thread[p][t].launch} \cap window[n])
                       ELSE @])
  /\ GoesWith(p, t, "running", None)
  /\ UNCHANGED <<OutsideThreads, claude>>

\* claude ends, or its timeout does and its process group is killed.
Ends(p, t) ==
  /\ At(p, t, "running")
  /\ Saves(p, t)
  /\ UNCHANGED <<OutsideThreads, claude>>

-----------------------------------------------------------------------------
(* Time.                                                                   *)

Stale(state, n) == [state EXCEPT ![n].fresh = FALSE]
Forgets(state, n, l) == [state EXCEPT ![n].recent = @ \ {l}]

IntervalPasses(n) ==
  /\ "time" \in env /\ \E p \in Procs : mem[p][n].fresh
  /\ mem' = [p \in Procs |-> Stale(mem[p], n)] /\ disk' = Stale(disk, n)
  /\ UNCHANGED <<OutsideThreads, thread, claude>>

LeavesWindow(n) ==
  /\ "window" \in env
  /\ \E l \in window[n] :
       /\ mem' = [p \in Procs |-> Forgets(mem[p], n, l)] /\ disk' = Forgets(disk, n, l)
       /\ window' = [window EXCEPT ![n] = @ \ {l}]
       /\ lost' = [lost EXCEPT ![n] = @ \ {l}]
  /\ UNCHANGED <<OutsideThreads, thread>>

-----------------------------------------------------------------------------
(* The tools that write the job files, with write_text: a file is          *)
(* truncated first and filled afterwards.                                  *)

OutsideFiles == <<env, pidfile, main, mem, disk, pool, claude>>

\* cmd_migrate: nothing to move, or the jobs of HEARTBEAT.md; then the file
\* of the project, unless it is there, is opened for writing ...
Migrate ==
  /\ "migrate" \in env /\ migration.pc = "idle" /\ Reads("base", base) # {}
  /\ migration' = [pc |-> IF exists THEN "keep" ELSE "move",
                   content |-> Reads("base", base), found |-> migration.found \/ exists]
  /\ UNCHANGED <<OutsideFiles, files, addition>>

MigrateOpens ==
  /\ migration.pc = "move"
  /\ exists' = TRUE /\ jobsd' = {} /\ rewriting' = rewriting \cup {"jobsd"}
  /\ migration' = [migration EXCEPT !.pc = "fill"]
  /\ UNCHANGED <<OutsideFiles, base, group, addition>>

\* ... and filled.
MigrateFills ==
  /\ migration.pc = "fill"
  /\ jobsd' = migration.content /\ rewriting' = rewriting \ {"jobsd"}
  /\ migration' = [migration EXCEPT !.pc = "moved", !.content = {}]
  /\ UNCHANGED <<OutsideFiles, base, exists, group, addition>>

\* HEARTBEAT.md is rewritten with the jobs that were not moved.
MigrateTruncates ==
  /\ migration.pc \in {"moved", "keep"}
  /\ rewriting' = rewriting \cup {"base"}
  /\ migration' = [migration EXCEPT !.pc = "last"]
  /\ UNCHANGED <<OutsideFiles, base, jobsd, exists, group, addition>>

MigrateEnds ==
  /\ migration.pc = "last"
  /\ base' = migration.content /\ rewriting' = rewriting \ {"base"}
  /\ migration' = [migration EXCEPT !.pc = "idle", !.content = {}]
  /\ UNCHANGED <<OutsideFiles, jobsd, exists, group, addition>>

\* A file that was truncated stays empty.
MigrateDies ==
  /\ migration.pc # "idle"
  /\ base' = IF migration.pc = "last" THEN {} ELSE base
  /\ rewriting' = CASE migration.pc = "fill" -> rewriting \ {"jobsd"}
                    [] migration.pc = "last" -> rewriting \ {"base"}
                    [] OTHER -> rewriting
  /\ migration' = [migration EXCEPT !.pc = "idle", !.content = {}]
  /\ UNCHANGED <<OutsideFiles, jobsd, exists, group, addition>>

\* cmd_install: both files are read, a job that is in neither is added.
Install ==
  /\ "install" \in env /\ addition.pc = "idle"
  /\ \E n \in Extra \ (Reads("base", base) \cup Reads("jobsd", jobsd)) :
       addition' = [pc |-> "write", job |-> n, content |-> Reads("jobsd", jobsd)]
  /\ UNCHANGED <<OutsideFiles, files, migration>>

InstallOpens ==
  /\ addition.pc = "write"
  /\ exists' = TRUE /\ jobsd' = {} /\ rewriting' = rewriting \cup {"jobsd"}
  /\ addition' = [addition EXCEPT !.pc = "fill"]
  /\ UNCHANGED <<OutsideFiles, base, group, migration>>

InstallFills ==
  /\ addition.pc = "fill"
  /\ jobsd' = addition.content \cup {addition.job} /\ rewriting' = rewriting \ {"jobsd"}
  /\ addition' = [pc |-> "idle", job |-> None, content |-> {}]
  /\ UNCHANGED <<OutsideFiles, base, exists, group, migration>>

\* A user edits the group a job declares; bound: once per job.
Edit ==
  /\ "edit" \in env
  /\ \E n \in Names, g \in Groups :
       group[n] = FirstGroup[n] /\ g # group[n] /\ group' = [group EXCEPT ![n] = g]
  /\ UNCHANGED <<OutsideFiles, base, jobsd, exists, rewriting, tools>>

-----------------------------------------------------------------------------
ThreadStep(p, t) ==
  \/ Take(p, t) \/ Finish(p, t) \/ NotDue(p, t) \/ Due(p, t) \/ OverQuota(p, t)
  \/ WithinQuota(p, t) \/ Missing(p, t) \/ ConditionFails(p, t) \/ Launch(p, t)
  \/ Record(p, t) \/ Ends(p, t)
MainStep(p) == ReadBase(p) \/ ReadJobsD(p) \/ Dispatch(p)
ToolStep ==
  \/ Migrate \/ MigrateOpens \/ MigrateFills \/ MigrateTruncates \/ MigrateEnds \/ MigrateDies
  \/ Install \/ InstallOpens \/ InstallFills \/ Edit

Next ==
  \/ \E p \in Procs :
       \/ CheckPid(p) \/ StartDaemon(p) \/ MainStep(p) \/ Stop(p) \/ Drained(p) \/ Crash(p)
       \/ Once(p) \/ OnceEnds(p)
       \/ \E t \in Threads : OnceRuns(p, t) \/ ThreadStep(p, t)
  \/ \E n \in Names : IntervalPasses(n) \/ LeavesWindow(n)
  \/ ToolStep

Spec == Init /\ [][Next]_vars

\* The cycle goes on, every thread of the pool works on, and every claude
\* ends, by itself or by its timeout; nobody waits for the long ones.
Fairness ==
  \A p \in Procs :
    /\ WF_vars(MainStep(p))
    /\ \A t \in Threads :
         WF_vars(ThreadStep(p, t) /\ ~(At(p, t, "running") /\ Job(p, t) \in Long))

FairSpec == Spec /\ Fairness

-----------------------------------------------------------------------------
(* Properties.                                                             *)

MainPcs == {"off", "starting", "base", "jobsd", "dispatch", "draining"} \cup OncePcs
ThreadPcs == {"idle", "next", "quota", "condition", "record", "running"}
Tasks == [pc : ThreadPcs, group : Groups \cup {None}, jobs : SUBSET Names,
          launch : Launches \cup {None}]
States == [Names -> [fresh : BOOLEAN, recent : SUBSET Launches]]

\* Type invariant: what is stored of a job are launches with a time, tasks
\* and the groups in flight are those of the job files.
TypeOK ==
  /\ env \in Envs
  /\ base \subseteq Names /\ jobsd \subseteq Names /\ exists \in BOOLEAN
  /\ rewriting \subseteq {"base", "jobsd"} /\ group \in [Names -> Groups]
  /\ migration \in [pc : {"idle", "move", "keep", "fill", "moved", "last"},
                    content : SUBSET Names, found : BOOLEAN]
  /\ addition \in [pc : {"idle", "write", "fill"}, job : Names \cup {None},
                   content : SUBSET Names]
  /\ pidfile \in Procs \cup {"nobody", "dead"}
  /\ main \in [Procs -> [pc : MainPcs, list : [Names -> Groups \cup {None}]]]
  /\ mem \in [Procs -> States] /\ disk \in States
  /\ inflight \in [Procs -> SUBSET Groups]
  /\ queue \in [Procs -> Seq(Tasks)]
  /\ thread \in [Procs -> [Threads -> Tasks]]
  /\ window \in [Names -> SUBSET Launches] /\ lost \in [Names -> SUBSET Launches]

Busy(p) == {t \in Threads : thread[p][t].pc # "idle" /\ thread[p][t].group # None}
Waiting(p) == {i \in DOMAIN queue[p] : TRUE}

\* Within one daemon a group never runs twice at the same time, whatever is
\* edited, stopped or killed around it, and _inflight holds exactly the
\* groups that wait or run: none is blocked for ever, none unguarded.
GroupSerial ==
  \A p \in Procs :
    /\ \A t, u \in Busy(p) : t # u => thread[p][t].group # thread[p][u].group
    /\ \A i, j \in Waiting(p) : i # j => queue[p][i].group # queue[p][j].group
    /\ \A i \in Waiting(p), t \in Busy(p) : queue[p][i].group # thread[p][t].group
    /\ inflight[p] = {queue[p][i].group : i \in Waiting(p)}
                     \cup {thread[p][t].group : t \in Busy(p)}

\* max_per: a job is launched at most so often within its window, restarts
\* of the daemon included, except for the launches a crash came in before
\* the save of.  It needs one daemon at a time, no `heartbeat once` and no
\* job that changes its group: none of them shares the guard.  And it needs
\* state.json to be readable: a daemon that cannot read it forgets them all.
QuotaHolds ==
  env \cap {"edit", "overlap", "once", "unreadable"} = {} =>
    \A n \in Quotaed : Cardinality(window[n] \ lost[n]) <= Quota[n]

\* While `heartbeat migrate` moves the jobs of HEARTBEAT.md to a jobs.d file
\* that was not there, every cycle sees every job, at whatever points of the
\* migration its two reads fall and wherever the migration dies.
NoJobVanishes ==
  "install" \notin env /\ ~migration.found =>
    \A p \in Procs : main[p].pc \in {"dispatch", "once"} => InBase \subseteq Listed(p)

\* Nobody stops or kills the daemon, moves or edits its jobs, or takes away
\* what they need.
Undisturbed == env \subseteq {"file", "conditions", "time", "window"}
IsDue(n) ==
  /\ Undisturbed
  /\ \E p \in Procs : main[p].pc \in {"base", "jobsd", "dispatch"} /\ ~mem[p][n].fresh

\* A due job is judged (run, skipped or failed) although another group holds
\* a thread for as long as its claude takes: cycles do not wait for groups.
DueJobIsJudged ==
  \A n \in InBase :
    (\A m \in Long : FirstGroup[m] # FirstGroup[n]) => (IsDue(n) ~> ~IsDue(n))
=============================================================================
