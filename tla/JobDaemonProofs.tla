--------------------------- MODULE JobDaemonProofs ---------------------------
(***************************************************************************)
(* Proofs about the job daemon, for any jobs, groups, processes, threads   *)
(* and troubles.  The argument: a group is in _inflight from its submission*)
(* to its end, so within one daemon a job is with one thread at most; with *)
(* one daemon, what that thread has seen of the job's launches stays true  *)
(* until it launches, and what was launched is either recorded, or with a  *)
(* thread that is about to, or lost in a crash.                            *)
(***************************************************************************)
EXTENDS JobDaemon, FiniteSetTheorems, SequenceTheorems, WellFoundedInduction, TLAPS

\* What TypeOK rests on.
Typed == TypeOK /\ (addition.pc # "idle" => addition.job \in Names)

\* A daemon's pool: what is queued has not begun, and nothing is in it but
\* between the first dispatch and the end.
Before == {"off", "starting", "once_base", "once_jobsd", "once"}
AtWork == {"quota", "condition", "record", "running"}
Pooled ==
  \A p \in Procs :
    /\ \A i \in DOMAIN queue[p] : queue[p][i].pc = "next" /\ queue[p][i].group \in Groups
    /\ \A t \in Threads : thread[p][t].pc \in AtWork => thread[p][t].jobs # {}
    /\ main[p].pc \in Before => AllIdle(p)

\* What a migration in progress has seen, and that one of the two files has
\* each job at every moment.
BothFiles == Reads("base", base) \cup Reads("jobsd", jobsd)
FilesKept ==
  "install" \notin env /\ ~migration.found =>
    /\ addition.pc = "idle" /\ (~exists => jobsd = {})
    /\ migration.pc \in {"idle", "move", "fill", "moved", "last"}
    /\ migration.pc = "move" => ~exists
    /\ migration.pc = "fill" => exists
    /\ migration.pc \in {"move", "fill"} => InBase \subseteq migration.content
    /\ migration.pc \in {"moved", "last"} => InBase \subseteq jobsd
    /\ "base" \in rewriting => migration.pc = "last"
    /\ "jobsd" \in rewriting <=> migration.pc = "fill"
    /\ InBase \subseteq BothFiles
    /\ \A p \in Procs : main[p].pc \in {"jobsd", "once_jobsd"} =>
         InBase \subseteq Listed(p) \cup Reads("jobsd", jobsd)

\* With one daemon, groups that stay and a state that is found again: a job is
\* with the thread of its group.
Alone == env \cap {"edit", "overlap", "once", "unreadable"} = {}
GroupJobs(g) == {n \in Names : FirstGroup[n] = g}
Lone == \A p, q \in Procs : ~Off(p) /\ ~Off(q) => p = q
Served(p) ==
  /\ main[p].pc \notin OncePcs
  /\ main[p].pc \notin Before => mem[p] = disk
  /\ pidfile = p => main[p].pc \in {"base", "jobsd", "dispatch"}
Grouped(p) ==
  /\ \A n \in Names : main[p].list[n] \in {None, FirstGroup[n]}
  /\ \A i \in DOMAIN queue[p] : queue[p][i].jobs \subseteq GroupJobs(queue[p][i].group)
  /\ \A t \in Threads : thread[p][t].pc # "idle" =>
       thread[p][t].group \in Groups /\ thread[p][t].jobs \subseteq GroupJobs(thread[p][t].group)
OneDaemon ==
  Alone => Lone /\ group = FirstGroup /\ \A p \in Procs : Served(p) /\ Grouped(p)

\* What was launched within the window and not lost: recorded, or about to be.
Recording(p, t, n, l) ==
  thread[p][t].pc = "record" /\ Job(p, t) = n /\ thread[p][t].launch = l
Recorded ==
  \A n \in Quotaed : \A l \in window[n] \ lost[n] :
    l \in disk[n].recent \/ \E p \in Procs, t \in Threads : Recording(p, t, n, l)
HasRoom(p, t) ==
  thread[p][t].pc = "condition" /\ Job(p, t) \in Quotaed =>
    Cardinality(disk[Job(p, t)].recent) < Quota[Job(p, t)]
LaunchesKept == Alone => Recorded /\ \A p \in Procs, t \in Threads : HasRoom(p, t)

IInv == Typed /\ Pooled /\ GroupSerial /\ FilesKept /\ NoJobVanishes
        /\ OneDaemon /\ LaunchesKept /\ QuotaHolds

-----------------------------------------------------------------------------
(* What the operators of the model do.                                     *)

\* The smallest of a set of positions.
LEMMA LeastExists ==
  ASSUME NEW S \in SUBSET Nat, S # {}
  PROVE  Min(S) \in S
<1>1. PICK x \in S : \A y \in S : ~(<<y, x>> \in OpToRel(<, Nat))
  BY NatLessThanWellFounded, WFMin
<1>2. \A y \in S : ~(y < x)
  BY <1>1 DEF OpToRel
<1>3. \A y \in S : x <= y
  BY <1>2
<1> QED BY <1>3 DEF Min

\* The job whose turn it is is one of the task's.
LEMMA FirstIsOne ==
  ASSUME NEW jobs \in SUBSET Names, jobs # {}
  PROVE  First(jobs) \in jobs
<1> DEFINE S == {i \in DOMAIN JobOrder : JobOrder[i] \in jobs}
<1>1. S \in SUBSET Nat
  BY OrderAssumption, LenProperties
<1>2. S # {}
  BY DEF Names, ToSet
<1>3. Min(S) \in S
  BY <1>1, <1>2, LeastExists
<1> QED BY <1>3 DEF First

\* A finite set as a sequence: every element once.
LEMMA SetToSeqOnce ==
  ASSUME NEW S, IsFiniteSet(S)
  PROVE  /\ Cardinality(S) \in Nat /\ SetToSeq(S) \in [1 .. Cardinality(S) -> S]
         /\ \A i, j \in 1 .. Cardinality(S) : SetToSeq(S)[i] = SetToSeq(S)[j] => i = j
         /\ \A s \in S : \E i \in 1 .. Cardinality(S) : SetToSeq(S)[i] = s
<1>1. Cardinality(S) \in Nat /\ ExistsBijection(1 .. Cardinality(S), S)
  BY FS_CardinalityType
<1>2. PICK f \in [1 .. Cardinality(S) -> S] : IsInjective(f)
  BY <1>1 DEF ExistsBijection, Bijection, Injection
<1>3. SetToSeq(S) \in [1 .. Cardinality(S) -> S] /\ IsInjective(SetToSeq(S))
  BY <1>2 DEF SetToSeq
<1>4. SetToSeq(S) \in Injection(1 .. Cardinality(S), S)
  BY <1>3 DEF Injection
<1>5. Cardinality(1 .. Cardinality(S)) = Cardinality(S)
  BY <1>1, FS_Interval
<1>6. SetToSeq(S) \in Surjection(1 .. Cardinality(S), S)
  BY <1>4, <1>5, FS_Injection
<1> QED BY <1>1, <1>3, <1>6 DEF Surjection, IsInjective

-----------------------------------------------------------------------------
(* What a step does to the threads and to the state.                       *)

\* Only thread t of p changes.
Changes(p, t) ==
  /\ thread' \in [Procs -> [Threads -> Tasks]]
  /\ \A q \in Procs, u \in Threads : q # p \/ u # t => thread'[q][u] = thread[q][u]

LEMMA ChangesTo ==
  ASSUME TypeOK, NEW p \in Procs, NEW t \in Threads, NEW r \in Tasks,
         thread' = [thread EXCEPT ![p][t] = r]
  PROVE  Changes(p, t) /\ thread'[p][t] = r
<1>1. thread \in [Procs -> [Threads -> Tasks]]
  BY DEF TypeOK
<1> HIDE DEF Tasks
<1> QED BY <1>1 DEF Changes

LEMMA GoesThread ==
  ASSUME TypeOK, NEW p \in Procs, NEW t \in Threads, NEW pc \in ThreadPcs, Goes(p, t, pc)
  PROVE  /\ Changes(p, t) /\ thread'[p][t].pc = pc
         /\ thread'[p][t].jobs = thread[p][t].jobs /\ thread'[p][t].group = thread[p][t].group
         /\ thread'[p][t].launch = thread[p][t].launch
<1> DEFINE r == [thread[p][t] EXCEPT !.pc = pc]
<1>1. thread[p][t] \in Tasks /\ thread \in [Procs -> [Threads -> Tasks]]
  BY DEF TypeOK
<1>2. r \in Tasks
  BY <1>1 DEF Tasks
<1>3. /\ r.pc = pc /\ r.jobs = thread[p][t].jobs /\ r.group = thread[p][t].group
      /\ r.launch = thread[p][t].launch
  BY <1>1 DEF Tasks
<1>4. thread' = [thread EXCEPT ![p][t] = r]
  BY DEF Goes
<1> HIDE DEF r
<1> QED BY <1>2, <1>3, <1>4, ChangesTo

LEMMA NextJobThread ==
  ASSUME TypeOK, NEW p \in Procs, NEW t \in Threads, NextJob(p, t)
  PROVE  /\ Changes(p, t) /\ thread'[p][t].pc = "next"
         /\ thread'[p][t].jobs = thread[p][t].jobs \ {Job(p, t)}
         /\ thread'[p][t].group = thread[p][t].group
<1> DEFINE r == [thread[p][t] EXCEPT !.pc = "next", !.jobs = thread[p][t].jobs \ {Job(p, t)}, !.launch = None]
<1>1. thread[p][t] \in Tasks /\ thread \in [Procs -> [Threads -> Tasks]]
  BY DEF TypeOK
<1>2. r \in Tasks
  BY <1>1 DEF Tasks, ThreadPcs
<1>3. /\ r.pc = "next" /\ r.jobs = thread[p][t].jobs \ {Job(p, t)}
      /\ r.group = thread[p][t].group
  BY <1>1 DEF Tasks
<1>4. thread' = [thread EXCEPT ![p][t] = r]
  BY <1>1 DEF NextJob
<1> HIDE DEF r
<1> QED BY <1>2, <1>3, <1>4, ChangesTo

LEMMA LaunchThread ==
  ASSUME TypeOK, NEW p \in Procs, NEW t \in Threads, NEW pc \in ThreadPcs,
         NEW l \in Launches \cup {None},
         GoesWith(p, t, pc, l)
  PROVE  /\ Changes(p, t) /\ thread'[p][t].pc = pc
         /\ thread'[p][t].jobs = thread[p][t].jobs
         /\ thread'[p][t].group = thread[p][t].group /\ thread'[p][t].launch = l
<1> DEFINE r == [thread[p][t] EXCEPT !.pc = pc, !.launch = l]
<1>1. thread[p][t] \in Tasks /\ thread \in [Procs -> [Threads -> Tasks]]
  BY DEF TypeOK
<1>2. r \in Tasks
  BY <1>1 DEF Tasks
<1>3. /\ r.pc = pc /\ r.jobs = thread[p][t].jobs /\ r.group = thread[p][t].group
      /\ r.launch = l
  BY <1>1 DEF Tasks
<1>4. thread' = [thread EXCEPT ![p][t] = r]
  BY DEF GoesWith
<1> HIDE DEF r
<1> QED BY <1>2, <1>3, <1>4, ChangesTo

\* The state of p is saved whole, with what changed of one job.
LEMMA StoresState ==
  ASSUME TypeOK, NEW p \in Procs, NEW n \in Names,
         NEW state \in [fresh : BOOLEAN, recent : SUBSET Launches], Stores(p, n, state)
  PROVE  /\ mem' \in [Procs -> States] /\ disk' \in States /\ disk' = mem'[p]
         /\ disk'[n] = state /\ \A m \in Names : m # n => disk'[m] = mem[p][m]
         /\ \A q \in Procs : q # p => mem'[q] = mem[q]
<1>1. mem \in [Procs -> States] /\ mem[p] \in States
  BY DEF TypeOK
<1>2. [mem[p] EXCEPT ![n] = state] \in States
  BY <1>1 DEF States
<1>3. mem' = [mem EXCEPT ![p] = [mem[p] EXCEPT ![n] = state]]
  BY <1>1 DEF Stores
<1>4. mem'[p] = [mem[p] EXCEPT ![n] = state] /\ mem' \in [Procs -> States]
  BY <1>1, <1>2, <1>3
<1>5. disk' = [mem[p] EXCEPT ![n] = state]
  BY <1>4 DEF Stores
<1> QED BY <1>1, <1>2, <1>3, <1>4, <1>5 DEF States

LEMMA SavesState ==
  ASSUME TypeOK, NEW p \in Procs, NEW t \in Threads, thread[p][t].jobs # {}, Saves(p, t)
  PROVE  /\ mem' \in [Procs -> States] /\ disk' \in States /\ disk' = mem'[p]
         /\ \A m \in Names : disk'[m].recent = mem[p][m].recent
         /\ \A q \in Procs : q # p => mem'[q] = mem[q]
<1> DEFINE n == Job(p, t)
<1> DEFINE state == [mem[p][n] EXCEPT !.fresh = TRUE]
<1>0. thread[p][t].jobs \in SUBSET Names
  BY DEF TypeOK, Tasks
<1>1. n \in Names
  BY <1>0, FirstIsOne DEF Job
<1>2. mem[p][n] \in [fresh : BOOLEAN, recent : SUBSET Launches]
  BY <1>1 DEF TypeOK, States
<1>3. state \in [fresh : BOOLEAN, recent : SUBSET Launches] /\ state.recent = mem[p][n].recent
  BY <1>2
<1>4. Stores(p, n, state)
  BY DEF Saves
<1> HIDE DEF n, state
<1> QED BY <1>1, <1>3, <1>4, StoresState

\* A thread at one of its jobs: no step but the first and the last of its task.
AtJob(p, t) ==
  \/ NotDue(p, t) \/ Due(p, t) \/ OverQuota(p, t) \/ WithinQuota(p, t) \/ Missing(p, t)
  \/ ConditionFails(p, t) \/ Launch(p, t) \/ Record(p, t) \/ Ends(p, t)

LEMMA RecordState ==
  ASSUME TypeOK, NEW p \in Procs, NEW t \in Threads, Record(p, t)
  PROVE  /\ Job(p, t) \in Names
         /\ mem' \in [Procs -> States] /\ disk' \in States /\ disk' = mem'[p]
         /\ disk'[Job(p, t)].recent = IF Job(p, t) \in Quotaed
              THEN mem[p][Job(p, t)].recent \cup ({thread[p][t].launch} \cap window[Job(p, t)])
              ELSE mem[p][Job(p, t)].recent
         /\ \A m \in Names : m # Job(p, t) => disk'[m] = mem[p][m]
         /\ \A q \in Procs : q # p => mem'[q] = mem[q]
<1> DEFINE n == Job(p, t)
<1> DEFINE recent == IF n \in Quotaed THEN mem[p][n].recent \cup ({thread[p][t].launch} \cap window[n])
                     ELSE mem[p][n].recent
<1> DEFINE state == [mem[p][n] EXCEPT !.recent = recent]
<1>0. thread[p][t].jobs \in SUBSET Names /\ thread[p][t].jobs # {}
  BY DEF TypeOK, Tasks, Record, At
<1>1. n \in Names
  BY <1>0, FirstIsOne DEF Job
<1>2. mem[p][n] \in [fresh : BOOLEAN, recent : SUBSET Launches] /\ window[n] \in SUBSET Launches
  BY <1>1 DEF TypeOK, States
<1>3. state \in [fresh : BOOLEAN, recent : SUBSET Launches] /\ state.recent = recent
  BY <1>2
<1>4. Stores(p, n, state)
  BY <1>2 DEF Record
<1> HIDE DEF n, state
<1> QED BY <1>1, <1>3, <1>4, StoresState DEF n

LEMMA AtJobShape ==
  ASSUME TypeOK, NEW p \in Procs, NEW t \in Threads, AtJob(p, t)
  PROVE  /\ UNCHANGED <<env, files, tools, pidfile, main, inflight, queue, lost>>
         /\ Changes(p, t)
         /\ thread[p][t].pc \in {"next"} \cup AtWork /\ thread[p][t].jobs # {}
         /\ thread'[p][t].group = thread[p][t].group
         /\ \/ thread'[p][t].pc = "next" /\ thread'[p][t].jobs = thread[p][t].jobs \ {Job(p, t)}
            \/ thread'[p][t].pc \in AtWork /\ thread'[p][t].jobs = thread[p][t].jobs
         /\ mem' \in [Procs -> States] /\ disk' \in States
         /\ \/ mem' = mem /\ disk' = disk
            \/ mem'[p] = disk' /\ \A q \in Procs : q # p => mem'[q] = mem[q]
         /\ window' \in [Names -> SUBSET Launches]
<1> USE DEF OutsideThreads, claude, At
<1>0. /\ mem \in [Procs -> States] /\ disk \in States /\ window \in [Names -> SUBSET Launches]
      /\ thread[p][t].jobs \in SUBSET Names
  BY DEF TypeOK, Tasks
<1>1. CASE NotDue(p, t) \/ Missing(p, t)
  BY <1>0, <1>1, NextJobThread DEF NotDue, Missing, AtWork
<1>2. CASE Due(p, t) \/ WithinQuota(p, t)
  BY <1>0, <1>2, GoesThread DEF Due, WithinQuota, AtWork, ThreadPcs
<1>3. CASE OverQuota(p, t) \/ ConditionFails(p, t) \/ Ends(p, t)
  <2>1. thread[p][t].pc \in AtWork /\ thread[p][t].jobs # {} /\ Saves(p, t)
    BY <1>3 DEF OverQuota, ConditionFails, Ends, AtWork
  <2>2. NextJob(p, t)
    BY <2>1 DEF Saves
  <2>3. UNCHANGED <<OutsideThreads, claude>>
    BY <1>3 DEF OverQuota, ConditionFails, Ends
  <2> QED BY <1>0, <2>1, <2>2, <2>3, SavesState, NextJobThread
<1>4. CASE Launch(p, t)
  <2> DEFINE n == Job(p, t)
             l == CHOOSE l \in Unused : TRUE
  <2>1. /\ thread[p][t].pc = "condition" /\ thread[p][t].jobs # {}
        /\ UNCHANGED <<OutsideThreads, mem, disk, lost>>
        /\ \/ Unused # {} /\ GoesWith(p, t, "record", l) /\ window' = [window EXCEPT ![n] = @ \cup {l}]
           \/ Goes(p, t, "record") /\ UNCHANGED window
    BY <1>4 DEF Launch
  <2>2. Unused # {} => l \in Launches
    BY DEF Unused
  <2> HIDE DEF n, l
  <2>3. window' \in [Names -> SUBSET Launches]
    BY <1>0, <2>1, <2>2
  <2>4. Changes(p, t) /\ thread'[p][t].pc = "record" /\ thread'[p][t].jobs = thread[p][t].jobs
        /\ thread'[p][t].group = thread[p][t].group
    BY <2>1, <2>2, GoesThread, LaunchThread DEF ThreadPcs
  <2> QED BY <1>0, <2>1, <2>3, <2>4 DEF AtWork
<1>5. CASE Record(p, t)
  <2>1. /\ thread[p][t].pc = "record" /\ thread[p][t].jobs # {}
        /\ UNCHANGED <<OutsideThreads, claude>> /\ GoesWith(p, t, "running", None)
    BY <1>5 DEF Record
  <2>2. Changes(p, t) /\ thread'[p][t].pc = "running" /\ thread'[p][t].jobs = thread[p][t].jobs
        /\ thread'[p][t].group = thread[p][t].group
    BY <2>1, LaunchThread DEF ThreadPcs
  <2> QED BY <1>0, <1>5, <2>1, <2>2, RecordState DEF AtWork
<1> QED BY <1>1, <1>2, <1>3, <1>4, <1>5 DEF AtJob

-----------------------------------------------------------------------------
(* Types.                                                                  *)

LEMMA TypeInit == Init => TypeOK
<1> SUFFICES ASSUME Init PROVE TypeOK
  OBVIOUS
<1>1. NewState \in States
  BY DEF NewState, States
<1>2. Idle \in Tasks
  BY DEF Idle, Tasks, ThreadPcs
<1>3. Gone \in [pc : MainPcs, list : [Names -> Groups \cup {None}]]
  BY DEF Gone, NoJobs, MainPcs
<1>4. InBase \subseteq Names /\ InJobsD \subseteq Names
  BY NamesAssumption
<1>5. <<>> \in Seq(Tasks)
  BY EmptySeq
<1>6. exists \in BOOLEAN
  <2>1. ("file" \in env) \in BOOLEAN
    OBVIOUS
  <2> QED BY <2>1 DEF Init
<1> HIDE DEF NewState, Idle, Gone, States, Tasks
<1> QED BY <1>1, <1>2, <1>3, <1>4, <1>5, <1>6, GroupsAssumption DEF Init, TypeOK

\* A task that is submitted.
LEMMA TaskTyped ==
  ASSUME NEW g \in Groups \cup {None}, NEW jobs \in SUBSET Names
  PROVE  Task(g, jobs) \in Tasks
  BY DEF Task, Tasks, ThreadPcs

\* What Dispatch appends: a task for each group that is due and not in flight.
Submitted(p) == {g \in Groups : OfGroup(p, g) # {}} \ inflight[p]
Appended(p) ==
  [i \in 1 .. Cardinality(Submitted(p)) |->
     Task(SetToSeq(Submitted(p))[i], OfGroup(p, SetToSeq(Submitted(p))[i]))]

LEMMA AppendedTasks ==
  ASSUME TypeOK, NEW p \in Procs
  PROVE  /\ Cardinality(Submitted(p)) \in Nat
         /\ Appended(p) \in Seq(Tasks) /\ Len(Appended(p)) = Cardinality(Submitted(p))
         /\ \A i \in 1 .. Len(Appended(p)) :
              /\ Appended(p)[i].group \in Submitted(p) /\ Appended(p)[i].pc = "next"
              /\ Appended(p)[i].jobs = OfGroup(p, Appended(p)[i].group)
         /\ \A i, j \in 1 .. Len(Appended(p)) :
              Appended(p)[i].group = Appended(p)[j].group => i = j
         /\ \A g \in Submitted(p) : \E i \in 1 .. Len(Appended(p)) : Appended(p)[i].group = g
<1> DEFINE S == Submitted(p)
           k == Cardinality(S)
<1>1. IsFiniteSet(S)
  BY GroupsAssumption, FS_Subset DEF Submitted
<1>2. /\ k \in Nat /\ SetToSeq(S) \in [1 .. k -> S]
      /\ \A i, j \in 1 .. k : SetToSeq(S)[i] = SetToSeq(S)[j] => i = j
      /\ \A s \in S : \E i \in 1 .. k : SetToSeq(S)[i] = s
  BY <1>1, SetToSeqOnce
<1>3. \A i \in 1 .. k : /\ Appended(p)[i] = Task(SetToSeq(S)[i], OfGroup(p, SetToSeq(S)[i]))
                        /\ SetToSeq(S)[i] \in S /\ S \subseteq Groups
                        /\ OfGroup(p, SetToSeq(S)[i]) \in SUBSET Names
  BY <1>2 DEF Appended, OfGroup, Submitted
<1>4. \A i \in 1 .. k : Appended(p)[i] \in Tasks
  BY <1>3, TaskTyped
<1>5. Appended(p) \in [1 .. k -> Tasks]
  BY <1>4 DEF Appended
<1>6. Appended(p) \in Seq(Tasks) /\ Len(Appended(p)) = k
  BY <1>2, <1>5, SeqDef
<1> HIDE DEF S, k
<1>7. \A i \in 1 .. k : /\ Appended(p)[i].group = SetToSeq(S)[i] /\ Appended(p)[i].pc = "next"
                        /\ Appended(p)[i].jobs = OfGroup(p, SetToSeq(S)[i])
  <2> TAKE i \in 1 .. k
  <2>1. Appended(p)[i] = [pc |-> "next", group |-> SetToSeq(S)[i],
                          jobs |-> OfGroup(p, SetToSeq(S)[i]), launch |-> None]
    BY <1>3 DEF Task
  <2> QED BY <2>1
<1> QED BY <1>2, <1>3, <1>6, <1>7 DEF S, k

LEMMA DispatchShape ==
  ASSUME TypeOK, NEW p \in Procs, Dispatch(p)
  PROVE  /\ inflight' = [inflight EXCEPT ![p] = @ \cup Submitted(p)]
         /\ queue' = [queue EXCEPT ![p] = @ \o Appended(p)]
         /\ main' = [main EXCEPT ![p] = [pc |-> "base", list |-> NoJobs]]
         /\ main[p].pc = "dispatch"
         /\ UNCHANGED <<env, files, tools, pidfile, mem, disk, thread, claude>>
  BY DEF Dispatch, Submitted, Appended

MainRecords == [pc : MainPcs, list : [Names -> Groups \cup {None}]]

\* Only the main thread of p changes.
MainChanges(p) ==
  main' \in [Procs -> MainRecords] /\ \A q \in Procs : q # p => main'[q] = main[q]

LEMMA MainTo ==
  ASSUME TypeOK, NEW p \in Procs, NEW r \in MainRecords, main' = [main EXCEPT ![p] = r]
  PROVE  MainChanges(p) /\ main'[p] = r
<1>1. main \in [Procs -> MainRecords]
  BY DEF TypeOK, MainRecords
<1> HIDE DEF MainRecords
<1> QED BY <1>1 DEF MainChanges

LEMMA MainGoes ==
  ASSUME TypeOK, NEW p \in Procs, NEW pc \in MainPcs, main' = [main EXCEPT ![p].pc = pc]
  PROVE  MainChanges(p) /\ main'[p].pc = pc /\ main'[p].list = main[p].list
<1> DEFINE r == [main[p] EXCEPT !.pc = pc]
<1>1. main[p] \in MainRecords /\ main \in [Procs -> MainRecords]
  BY DEF TypeOK, MainRecords
<1>2. r \in MainRecords /\ r.pc = pc /\ r.list = main[p].list
  BY <1>1 DEF MainRecords
<1>3. main' = [main EXCEPT ![p] = r]
  OBVIOUS
<1> HIDE DEF r
<1> QED BY <1>2, <1>3, MainTo

LEMMA NoJobsTyped == [pc |-> "base", list |-> NoJobs] \in MainRecords
                     /\ [pc |-> "draining", list |-> NoJobs] \in MainRecords
                     /\ [pc |-> "once_runs", list |-> NoJobs] \in MainRecords
                     /\ Gone \in MainRecords
  BY DEF MainRecords, NoJobs, Gone, MainPcs, OncePcs

LEMMA ReadBaseMain ==
  ASSUME TypeOK, NEW p \in Procs, ReadBase(p)
  PROVE  /\ MainChanges(p) /\ UNCHANGED <<env, files, tools, pidfile, mem, disk, pool, claude>>
         /\ \/ main[p].pc = "base" /\ main'[p].pc = "jobsd"
            \/ main[p].pc = "once_base" /\ main'[p].pc = "once_jobsd"
         /\ \A n \in Names : main'[p].list[n] = IF n \in Reads("base", base) THEN group[n] ELSE None
<1> DEFINE pc == IF main[p].pc = "base" THEN "jobsd" ELSE "once_jobsd"
           list == [n \in Names |-> IF n \in Reads("base", base) THEN group[n] ELSE None]
           r == [pc |-> pc, list |-> list]
<1>1. list \in [Names -> Groups \cup {None}] /\ pc \in MainPcs
  BY DEF TypeOK, MainPcs, OncePcs
<1>2. r \in MainRecords /\ r.pc = pc /\ r.list = list
  BY <1>1 DEF MainRecords
<1>3. main' = [main EXCEPT ![p] = r]
  BY DEF ReadBase
<1> HIDE DEF r
<1>4. MainChanges(p) /\ main'[p] = r
  BY <1>2, <1>3, MainTo
<1> QED BY <1>2, <1>4 DEF ReadBase

LEMMA ReadJobsDMain ==
  ASSUME TypeOK, NEW p \in Procs, ReadJobsD(p)
  PROVE  /\ MainChanges(p) /\ UNCHANGED <<env, files, tools, pidfile, mem, disk, pool, claude>>
         /\ \/ main[p].pc = "jobsd" /\ main'[p].pc = "dispatch"
            \/ main[p].pc = "once_jobsd" /\ main'[p].pc = "once"
         /\ \A n \in Names : main'[p].list[n] = IF n \in Reads("jobsd", jobsd) THEN group[n]
                                                ELSE main[p].list[n]
<1> DEFINE pc == IF main[p].pc = "jobsd" THEN "dispatch" ELSE "once"
           list == [n \in Names |-> IF n \in Reads("jobsd", jobsd) THEN group[n] ELSE main[p].list[n]]
           r == [pc |-> pc, list |-> list]
<1>1. list \in [Names -> Groups \cup {None}] /\ pc \in MainPcs
  BY DEF TypeOK, MainPcs, OncePcs
<1>2. r \in MainRecords /\ r.pc = pc /\ r.list = list
  BY <1>1 DEF MainRecords
<1>3. main' = [main EXCEPT ![p] = r]
  BY DEF ReadJobsD
<1> HIDE DEF r
<1>4. MainChanges(p) /\ main'[p] = r
  BY <1>2, <1>3, MainTo
<1> QED BY <1>2, <1>4 DEF ReadJobsD

\* A process that is gone.
LEMMA ExitsMain ==
  ASSUME TypeOK, NEW p \in Procs, Exits(p)
  PROVE  /\ MainChanges(p) /\ main'[p] = Gone
         /\ mem' \in [Procs -> States] /\ \A q \in Procs : q # p => mem'[q] = mem[q]
<1>1. NewState \in States /\ mem \in [Procs -> States]
  BY DEF NewState, States, TypeOK
<1> HIDE DEF NewState, States
<1> QED BY <1>1, MainTo, NoJobsTyped DEF Exits

\* What a process loads is the state, or none if it cannot be read.
LEMMA LoadsState ==
  ASSUME TypeOK, NEW p \in Procs, Loads(p)
  PROVE  /\ mem' \in [Procs -> States] /\ mem'[p] \in States
         /\ "unreadable" \notin env => mem' = [mem EXCEPT ![p] = disk] /\ mem'[p] = disk
<1>1. mem \in [Procs -> States] /\ disk \in States /\ NewState \in States
  BY DEF TypeOK, NewState, States
<1>2. PICK state \in {disk, NewState} :
        mem' = [mem EXCEPT ![p] = state] /\ ("unreadable" \notin env => state = disk)
  BY DEF Loads
<1> HIDE DEF NewState, States
<1> QED BY <1>1, <1>2

LEMMA MainTyped ==
  ASSUME TypeOK, NEW p \in Procs,
         \/ CheckPid(p) \/ StartDaemon(p) \/ MainStep(p) \/ Stop(p) \/ Drained(p) \/ Crash(p)
         \/ Once(p) \/ OnceEnds(p)
  PROVE  TypeOK'
<1> USE DEF files, tools, pool, claude
<1> DEFINE Rest == /\ env \in Envs
                   /\ base \subseteq Names /\ jobsd \subseteq Names /\ exists \in BOOLEAN
                   /\ rewriting \subseteq {"base", "jobsd"} /\ group \in [Names -> Groups]
                   /\ migration \in [pc : {"idle", "move", "keep", "fill", "moved", "last"},
                                     content : SUBSET Names, found : BOOLEAN]
                   /\ addition \in [pc : {"idle", "write", "fill"}, job : Names \cup {None},
                                    content : SUBSET Names]
                   /\ disk \in States /\ window \in [Names -> SUBSET Launches]
<1>1. Rest
  BY DEF TypeOK
<1>2. /\ pidfile \in Procs \cup {"nobody", "dead"} /\ mem \in [Procs -> States]
      /\ inflight \in [Procs -> SUBSET Groups] /\ queue \in [Procs -> Seq(Tasks)]
      /\ thread \in [Procs -> [Threads -> Tasks]] /\ lost \in [Names -> SUBSET Launches]
  BY DEF TypeOK
<1>3. Rest'
  <2>1. UNCHANGED <<env, files, tools, window>> /\ (disk' = disk \/ StartDaemon(p))
    BY DEF CheckPid, StartDaemon, MainStep, ReadBase, ReadJobsD, Dispatch, Stop, Drained, Crash,
           Once, OnceEnds
  <2>2. disk' \in States
    BY <1>1, <2>1, LoadsState DEF StartDaemon
  <2> QED BY <1>1, <2>1, <2>2
<1>4. ASSUME main' \in [Procs -> MainRecords], pidfile' \in Procs \cup {"nobody", "dead"},
             mem' \in [Procs -> States], inflight' \in [Procs -> SUBSET Groups],
             queue' \in [Procs -> Seq(Tasks)], thread' \in [Procs -> [Threads -> Tasks]],
             lost' \in [Names -> SUBSET Launches]
      PROVE  TypeOK'
  BY <1>3, <1>4 DEF TypeOK, MainRecords
<1> HIDE DEF Rest
<1>5. CASE CheckPid(p) \/ StartDaemon(p) \/ Stop(p) \/ Once(p)
  <2>1. main' \in [Procs -> MainRecords]
    BY <1>5, MainGoes, MainTo, NoJobsTyped
       DEF CheckPid, StartDaemon, Stop, Once, MainChanges, MainPcs, OncePcs
  <2>2. mem' \in [Procs -> States]
    <3>1. mem' = mem \/ Loads(p)
      BY <1>5 DEF CheckPid, StartDaemon, Stop, Once
    <3> QED BY <1>2, <3>1, LoadsState
  <2>3. UNCHANGED <<pool, lost>> /\ pidfile' \in Procs \cup {"nobody", "dead"}
    BY <1>2, <1>5 DEF CheckPid, StartDaemon, Stop, Once
  <2> QED BY <1>2, <1>4, <2>1, <2>2, <2>3
<1>6. CASE ReadBase(p) \/ ReadJobsD(p)
  <2>1. MainChanges(p) /\ UNCHANGED <<pidfile, mem, pool, lost>>
    BY <1>6, ReadBaseMain, ReadJobsDMain
  <2> QED BY <1>2, <1>4, <2>1 DEF MainChanges
<1>7. CASE Dispatch(p)
  <2>1. /\ inflight' = [inflight EXCEPT ![p] = @ \cup Submitted(p)]
        /\ queue' = [queue EXCEPT ![p] = @ \o Appended(p)]
        /\ UNCHANGED <<pidfile, mem, thread, lost>>
    BY <1>7, DispatchShape
  <2>2. main' \in [Procs -> MainRecords]
    BY <1>7, DispatchShape, MainTo, NoJobsTyped DEF MainChanges
  <2>3. Submitted(p) \subseteq Groups
    BY DEF Submitted
  <2>4. queue[p] \o Appended(p) \in Seq(Tasks)
    BY <1>2, AppendedTasks, ConcatProperties
  <2>5. inflight' \in [Procs -> SUBSET Groups]
    BY <1>2, <2>1, <2>3
  <2>6. queue' \in [Procs -> Seq(Tasks)]
    BY <1>2, <2>1, <2>4
  <2> QED BY <1>2, <1>4, <2>1, <2>2, <2>5, <2>6
<1>8. CASE Drained(p) \/ OnceEnds(p)
  <2>1. Exits(p) /\ UNCHANGED <<pidfile, pool, lost>>
    BY <1>8 DEF Drained, OnceEnds
  <2> QED BY <1>2, <1>4, <2>1, ExitsMain DEF MainChanges
<1>9. CASE Crash(p)
  <2>1. Exits(p) /\ pidfile' \in {pidfile, "dead"}
        /\ inflight' = [inflight EXCEPT ![p] = {}] /\ queue' = [queue EXCEPT ![p] = <<>>]
        /\ thread' = [thread EXCEPT ![p] = [t \in Threads |-> Idle]]
    BY <1>9 DEF Crash
  <2>2. lost' \in [Names -> SUBSET Launches]
    <3>1. \E L : lost' = [n \in Names |-> lost[n] \cup (window[n] \cap L)]
      BY <1>9 DEF Crash
    <3> QED BY <1>1, <1>2, <3>1 DEF Rest
  <2>3. [t \in Threads |-> Idle] \in [Threads -> Tasks]
    BY DEF Idle, Tasks, ThreadPcs
  <2>4. thread' \in [Procs -> [Threads -> Tasks]]
    BY <1>2, <2>1, <2>3
  <2>5. inflight' \in [Procs -> SUBSET Groups]
    BY <1>2, <2>1
  <2>6. queue' \in [Procs -> Seq(Tasks)]
    BY <1>2, <2>1, EmptySeq
  <2>7. pidfile' \in Procs \cup {"nobody", "dead"}
    BY <1>2, <2>1
  <2> QED BY <1>4, <2>1, <2>2, <2>4, <2>5, <2>6, <2>7, ExitsMain DEF MainChanges
<1> QED BY <1>5, <1>6, <1>7, <1>8, <1>9 DEF MainStep

LEMMA IdleTyped == Idle \in Tasks
  BY DEF Idle, Tasks, ThreadPcs

LEMMA OnceRunsShape ==
  ASSUME TypeOK, NEW p \in Procs, NEW t \in Threads, OnceRuns(p, t)
  PROVE  /\ main[p].pc = "once" /\ thread[p][t].pc = "idle"
         /\ Changes(p, t) /\ thread'[p][t].pc = "next" /\ thread'[p][t].group = None
         /\ MainChanges(p) /\ main'[p].pc = "once_runs"
         /\ UNCHANGED <<env, files, tools, pidfile, mem, disk, inflight, queue, claude>>
<1>1. PICK chosen \in SUBSET Names : thread' = [thread EXCEPT ![p][t] = Task(None, chosen)]
  BY DEF OnceRuns, Listed
<1>2. Task(None, chosen) \in Tasks
  BY TaskTyped
<1>3. Changes(p, t) /\ thread'[p][t] = Task(None, chosen)
  BY <1>1, <1>2, ChangesTo
<1>4. thread'[p][t].pc = "next" /\ thread'[p][t].group = None
  BY <1>3 DEF Task
<1>5. MainChanges(p) /\ main'[p] = [pc |-> "once_runs", list |-> NoJobs]
  BY MainTo, NoJobsTyped DEF OnceRuns
<1> QED BY <1>3, <1>4, <1>5 DEF OnceRuns, TakesNext

LEMMA TakeShape ==
  ASSUME TypeOK, NEW p \in Procs, NEW t \in Threads, Take(p, t)
  PROVE  /\ queue[p] # <<>> /\ queue[p] \in Seq(Tasks) /\ thread[p][t].pc = "idle"
         /\ Changes(p, t) /\ thread'[p][t] = queue[p][1] /\ queue[p][1] \in Tasks
         /\ queue' = [queue EXCEPT ![p] = Tail(@)]
         /\ UNCHANGED <<env, files, tools, pidfile, main, mem, disk, inflight, claude>>
<1>1. queue[p] # <<>> /\ queue[p] \in Seq(Tasks)
  BY DEF Take, TypeOK
<1>2. Head(queue[p]) \in Tasks /\ Head(queue[p]) = queue[p][1]
  BY <1>1, HeadTailProperties
<1>3. thread' = [thread EXCEPT ![p][t] = Head(queue[p])]
  BY DEF Take
<1>4. Changes(p, t) /\ thread'[p][t] = Head(queue[p])
  BY <1>2, <1>3, ChangesTo
<1> QED BY <1>1, <1>2, <1>4 DEF Take, TakesNext

LEMMA FinishShape ==
  ASSUME TypeOK, NEW p \in Procs, NEW t \in Threads, Finish(p, t)
  PROVE  /\ thread[p][t].pc = "next" /\ thread[p][t].jobs = {}
         /\ Changes(p, t) /\ thread'[p][t] = Idle
         /\ inflight' = [inflight EXCEPT ![p] = @ \ {thread[p][t].group}]
         /\ UNCHANGED <<env, files, tools, pidfile, main, mem, disk, queue, claude>>
<1>1. thread' = [thread EXCEPT ![p][t] = Idle]
  BY DEF Finish
<1> QED BY <1>1, IdleTyped, ChangesTo DEF Finish

LEMMA FilesApart ==
  ASSUME TypeOK, UNCHANGED <<env, files, tools, pidfile, lost>>,
         main' \in [Procs -> MainRecords], mem' \in [Procs -> States], disk' \in States,
         inflight' \in [Procs -> SUBSET Groups], queue' \in [Procs -> Seq(Tasks)],
         thread' \in [Procs -> [Threads -> Tasks]], window' \in [Names -> SUBSET Launches]
  PROVE  TypeOK'
  BY DEF TypeOK, files, tools, MainRecords

LEMMA ThreadTyped ==
  ASSUME TypeOK, NEW p \in Procs, NEW t \in Threads, OnceRuns(p, t) \/ ThreadStep(p, t)
  PROVE  TypeOK'
<1>0. /\ main \in [Procs -> MainRecords] /\ mem \in [Procs -> States] /\ disk \in States
      /\ inflight \in [Procs -> SUBSET Groups] /\ queue \in [Procs -> Seq(Tasks)]
      /\ window \in [Names -> SUBSET Launches]
  BY DEF TypeOK, MainRecords
<1>1. CASE OnceRuns(p, t)
  <2>1. UNCHANGED <<env, files, tools, pidfile, mem, disk, inflight, queue, window, lost>>
    BY <1>1, OnceRunsShape DEF claude
  <2> QED BY <1>0, <1>1, <2>1, OnceRunsShape, FilesApart DEF MainChanges, Changes
<1>2. CASE Take(p, t)
  <2>1. UNCHANGED <<env, files, tools, pidfile, main, mem, disk, inflight, window, lost>>
    BY <1>2, TakeShape DEF claude
  <2>2. Tail(queue[p]) \in Seq(Tasks) /\ queue' = [queue EXCEPT ![p] = Tail(queue[p])]
    BY <1>2, TakeShape, HeadTailProperties
  <2>3. queue' \in [Procs -> Seq(Tasks)]
    BY <1>0, <2>2
  <2> QED BY <1>0, <1>2, <2>1, <2>3, TakeShape, FilesApart DEF Changes
<1>3. CASE Finish(p, t)
  <2>1. UNCHANGED <<env, files, tools, pidfile, main, mem, disk, queue, window, lost>>
    BY <1>3, FinishShape DEF claude
  <2>2. inflight' \in [Procs -> SUBSET Groups]
    <3>1. inflight' = [inflight EXCEPT ![p] = @ \ {thread[p][t].group}]
      BY <1>3, FinishShape
    <3> QED BY <1>0, <3>1
  <2> QED BY <1>0, <1>3, <2>1, <2>2, FinishShape, FilesApart DEF Changes
<1>4. CASE AtJob(p, t)
  <2>1. UNCHANGED <<env, files, tools, pidfile, main, inflight, queue, lost>>
    BY <1>4, AtJobShape
  <2> QED BY <1>0, <1>4, <2>1, AtJobShape, FilesApart DEF Changes
<1> QED BY <1>1, <1>2, <1>3, <1>4 DEF ThreadStep, AtJob

LEMMA TimeTyped ==
  ASSUME TypeOK, NEW n \in Names, IntervalPasses(n) \/ LeavesWindow(n)
  PROVE  TypeOK'
<1> USE DEF OutsideThreads, files, tools, claude
<1>1. mem \in [Procs -> States] /\ disk \in States /\ window \in [Names -> SUBSET Launches]
      /\ lost \in [Names -> SUBSET Launches]
  BY DEF TypeOK
<1>2. CASE IntervalPasses(n)
  <2>1. \A state \in States : Stale(state, n) \in States
    BY DEF Stale, States
  <2>2. mem' \in [Procs -> States] /\ disk' \in States
    BY <1>1, <1>2, <2>1 DEF IntervalPasses
  <2>3. UNCHANGED <<OutsideThreads, thread, claude>>
    BY <1>2 DEF IntervalPasses
  <2> QED BY <2>2, <2>3 DEF TypeOK
<1>3. CASE LeavesWindow(n)
  <2>1. PICK l \in window[n] :
          /\ mem' = [p \in Procs |-> Forgets(mem[p], n, l)] /\ disk' = Forgets(disk, n, l)
          /\ window' = [window EXCEPT ![n] = @ \ {l}]
          /\ lost' = [lost EXCEPT ![n] = @ \ {l}]
    BY <1>3 DEF LeavesWindow
  <2>2. \A state \in States : Forgets(state, n, l) \in States
    BY DEF Forgets, States
  <2>3. mem' \in [Procs -> States] /\ disk' \in States
    BY <1>1, <2>1, <2>2
  <2>4. window' \in [Names -> SUBSET Launches] /\ lost' \in [Names -> SUBSET Launches]
    BY <1>1, <2>1
  <2>5. UNCHANGED <<OutsideThreads, thread>>
    BY <1>3 DEF LeavesWindow
  <2> QED BY <2>3, <2>4, <2>5 DEF TypeOK
<1> QED BY <1>2, <1>3

LEMMA ToolTyped == ASSUME Typed, ToolStep PROVE Typed'
<1> TypeOK
  BY DEF Typed
<1> USE DEF OutsideFiles, files, tools, pool, claude
<1>1. UNCHANGED OutsideFiles
  BY DEF ToolStep, Migrate, MigrateOpens, MigrateFills, MigrateTruncates, MigrateEnds, MigrateDies,
         Install, InstallOpens, InstallFills, Edit
<1>2. /\ base \subseteq Names /\ jobsd \subseteq Names /\ exists \in BOOLEAN
      /\ rewriting \subseteq {"base", "jobsd"} /\ group \in [Names -> Groups]
      /\ migration \in [pc : {"idle", "move", "keep", "fill", "moved", "last"},
                        content : SUBSET Names, found : BOOLEAN]
      /\ addition \in [pc : {"idle", "write", "fill"}, job : Names \cup {None},
                       content : SUBSET Names]
  BY DEF TypeOK
<1>3. Extra \subseteq Names
  BY NamesAssumption
<1>4. /\ base' \subseteq Names /\ jobsd' \subseteq Names /\ exists' \in BOOLEAN
      /\ rewriting' \subseteq {"base", "jobsd"}
  <2>1. addition.pc = "fill" => addition.job \in Names
    BY DEF Typed
  <2> QED BY <1>2, <2>1 DEF ToolStep, Migrate, MigrateOpens, MigrateFills, MigrateTruncates,
         MigrateEnds, MigrateDies, Install, InstallOpens, InstallFills, Edit
<1>5. group' \in [Names -> Groups]
  BY <1>2 DEF ToolStep, Migrate, MigrateOpens, MigrateFills, MigrateTruncates, MigrateEnds,
         MigrateDies, Install, InstallOpens, InstallFills, Edit
<1>6. migration' \in [pc : {"idle", "move", "keep", "fill", "moved", "last"},
                      content : SUBSET Names, found : BOOLEAN]
  <2>1. CASE Migrate
    <3>1. Reads("base", base) \in SUBSET Names /\ (migration.found \/ exists) \in BOOLEAN
      BY <1>2 DEF Reads
    <3> QED BY <2>1, <3>1 DEF Migrate
  <2>2. CASE MigrateOpens \/ MigrateFills \/ MigrateTruncates \/ MigrateEnds \/ MigrateDies
    BY <1>2, <2>2 DEF MigrateOpens, MigrateFills, MigrateTruncates, MigrateEnds, MigrateDies
  <2>3. CASE Install \/ InstallOpens \/ InstallFills \/ Edit
    BY <1>2, <2>3 DEF Install, InstallOpens, InstallFills, Edit
  <2> QED BY <2>1, <2>2, <2>3 DEF ToolStep
<1>7. addition' \in [pc : {"idle", "write", "fill"}, job : Names \cup {None},
                     content : SUBSET Names]
  <2>1. CASE Install
    <3>1. Reads("jobsd", jobsd) \in SUBSET Names
      BY <1>2 DEF Reads
    <3> QED BY <1>3, <2>1, <3>1 DEF Install
  <2>2. CASE InstallOpens \/ InstallFills
    BY <1>2, <2>2 DEF InstallOpens, InstallFills
  <2>3. CASE ~(Install \/ InstallOpens \/ InstallFills)
    BY <1>2, <2>3 DEF ToolStep, Migrate, MigrateOpens, MigrateFills, MigrateTruncates, MigrateEnds,
         MigrateDies, Edit
  <2> QED BY <2>1, <2>2, <2>3
<1>8. addition'.pc # "idle" => addition'.job \in Names
  BY <1>2, <1>3 DEF Typed, ToolStep, Migrate, MigrateOpens, MigrateFills, MigrateTruncates,
         MigrateEnds, MigrateDies, Install, InstallOpens, InstallFills, Edit
<1> QED BY <1>1, <1>4, <1>5, <1>6, <1>7, <1>8 DEF TypeOK, Typed

LEMMA TypedNext == Typed /\ [Next]_vars => Typed'
<1> SUFFICES ASSUME Typed, [Next]_vars PROVE Typed'
  OBVIOUS
<1> TypeOK
  BY DEF Typed
<1>1. ASSUME NEW p \in Procs,
             \/ CheckPid(p) \/ StartDaemon(p) \/ MainStep(p) \/ Stop(p) \/ Drained(p) \/ Crash(p)
             \/ Once(p) \/ OnceEnds(p)
      PROVE  Typed'
  <2>1. UNCHANGED addition
    BY <1>1 DEF CheckPid, StartDaemon, MainStep, ReadBase, ReadJobsD, Dispatch, Stop, Drained, Crash,
           Once, OnceEnds, tools
  <2> QED BY <1>1, <2>1, MainTyped DEF Typed
<1>2. ASSUME NEW p \in Procs, NEW t \in Threads, OnceRuns(p, t) \/ ThreadStep(p, t)
      PROVE  Typed'
  <2>1. UNCHANGED addition
    BY <1>2, AtJobShape DEF OnceRuns, ThreadStep, Take, Finish, AtJob, tools
  <2> QED BY <1>2, <2>1, ThreadTyped DEF Typed
<1>3. ASSUME NEW n \in Names, IntervalPasses(n) \/ LeavesWindow(n)
      PROVE  Typed'
  <2>1. UNCHANGED addition
    BY <1>3 DEF IntervalPasses, LeavesWindow, OutsideThreads, tools
  <2> QED BY <1>3, <2>1, TimeTyped DEF Typed
<1>4. CASE ToolStep
  BY <1>4, ToolTyped
<1>5. CASE UNCHANGED vars
  BY <1>5 DEF vars, files, tools, pool, claude, Typed, TypeOK
<1> QED BY <1>1, <1>2, <1>3, <1>4, <1>5 DEF Next

-----------------------------------------------------------------------------
(* A group runs once at a time.                                            *)

SerialAt(p) ==
  /\ \A t, u \in Busy(p) : t # u => thread[p][t].group # thread[p][u].group
  /\ \A i, j \in DOMAIN queue[p] : i # j => queue[p][i].group # queue[p][j].group
  /\ \A i \in DOMAIN queue[p], t \in Busy(p) : queue[p][i].group # thread[p][t].group
  /\ \A g \in Groups :
       g \in inflight[p] <=> \/ \E i \in DOMAIN queue[p] : queue[p][i].group = g
                             \/ \E t \in Busy(p) : thread[p][t].group = g
PooledAt(p) ==
  /\ \A i \in DOMAIN queue[p] : queue[p][i].pc = "next" /\ queue[p][i].group \in Groups
  /\ \A t \in Threads : thread[p][t].pc \in AtWork => thread[p][t].jobs # {}
  /\ main[p].pc \in Before => AllIdle(p)

LEMMA SerialMeans ==
  ASSUME TypeOK, Pooled
  PROVE  GroupSerial <=> \A p \in Procs : SerialAt(p)
<1> SUFFICES ASSUME NEW p \in Procs
             PROVE  (inflight[p] = {queue[p][i].group : i \in DOMAIN queue[p]}
                                   \cup {thread[p][t].group : t \in Busy(p)})
                    <=> \A g \in Groups :
                          g \in inflight[p] <=> \/ \E i \in DOMAIN queue[p] : queue[p][i].group = g
                                                \/ \E t \in Busy(p) : thread[p][t].group = g
  BY DEF GroupSerial, SerialAt, Waiting
<1>1. inflight[p] \subseteq Groups
  BY DEF TypeOK
<1>2. \A i \in DOMAIN queue[p] : queue[p][i].group \in Groups
  BY DEF Pooled
<1>3. \A t \in Busy(p) : thread[p][t].group \in Groups
  BY DEF Busy, TypeOK, Tasks
<1> QED BY <1>1, <1>2, <1>3

\* A pool in which only the jobs of tasks that are there have changed.
LEMMA SamePool ==
  ASSUME NEW p \in Procs, SerialAt(p), PooledAt(p),
         inflight'[p] = inflight[p], queue'[p] = queue[p],
         \A t \in Threads : t \in Busy(p)' <=> t \in Busy(p),
         \A t \in Busy(p) : thread'[p][t].group = thread[p][t].group,
         \A t \in Threads : thread'[p][t].pc \in AtWork => thread'[p][t].jobs # {},
         main'[p].pc \in Before => AllIdle(p)'
  PROVE  SerialAt(p)' /\ PooledAt(p)'
<1>1. Busy(p)' = Busy(p)
  BY DEF Busy
<1> QED BY <1>1 DEF SerialAt, PooledAt

\* A pool nothing has happened in.
LEMMA UntouchedPool ==
  ASSUME TypeOK, TypeOK', NEW p \in Procs, SerialAt(p), PooledAt(p),
         inflight'[p] = inflight[p], queue'[p] = queue[p],
         \A t \in Threads : thread'[p][t] = thread[p][t],
         main'[p].pc \in Before => main[p].pc \in Before \/ AllIdle(p)
  PROVE  SerialAt(p)' /\ PooledAt(p)'
<1>1. \A t \in Threads : t \in Busy(p)' <=> t \in Busy(p)
  BY DEF Busy
<1>2. \A t \in Threads : thread'[p][t].pc \in AtWork => thread'[p][t].jobs # {}
  BY DEF PooledAt
<1>3. main'[p].pc \in Before => AllIdle(p)'
  BY DEF PooledAt, AllIdle
<1>4. \A t \in Busy(p) : thread'[p][t].group = thread[p][t].group
  BY DEF Busy
<1> QED BY <1>1, <1>2, <1>3, <1>4, SamePool

LEMMA DispatchPool ==
  ASSUME TypeOK, NEW p \in Procs, SerialAt(p), PooledAt(p), Dispatch(p)
  PROVE  SerialAt(p)' /\ PooledAt(p)'
<1>1. /\ queue[p] \in Seq(Tasks) /\ queue \in [Procs -> Seq(Tasks)]
      /\ inflight \in [Procs -> SUBSET Groups] /\ main \in [Procs -> MainRecords]
  BY DEF TypeOK, MainRecords
<1>2. queue'[p] = queue[p] \o Appended(p) /\ inflight'[p] = inflight[p] \cup Submitted(p)
      /\ thread' = thread /\ main'[p].pc = "base"
  BY <1>1, DispatchShape
<1> DEFINE a == Appended(p)
           k == Len(queue[p])
           m == Len(a)
<1>3. /\ a \in Seq(Tasks) /\ k \in Nat /\ m \in Nat
      /\ DOMAIN queue[p] = 1 .. k /\ DOMAIN (queue[p] \o a) = 1 .. k + m
      /\ \A i \in 1 .. k + m : (queue[p] \o a)[i] = IF i <= k THEN queue[p][i] ELSE a[i - k]
  BY <1>1, AppendedTasks, ConcatProperties, LenProperties
<1>4. /\ \A i \in 1 .. m : a[i].group \in Submitted(p) /\ a[i].pc = "next"
      /\ \A i, j \in 1 .. m : a[i].group = a[j].group => i = j
      /\ \A g \in Submitted(p) : \E i \in 1 .. m : a[i].group = g
  BY AppendedTasks
<1>5. Submitted(p) \subseteq Groups /\ Submitted(p) \cap inflight[p] = {}
  BY DEF Submitted
<1>6. Busy(p)' = Busy(p)
  BY <1>2 DEF Busy
<1> HIDE DEF a, k, m
<1>7. /\ DOMAIN queue'[p] = 1 .. k + m
      /\ \A i \in 1 .. k : queue'[p][i] = queue[p][i]
      /\ \A i \in k + 1 .. k + m : queue'[p][i] = a[i - k] /\ i - k \in 1 .. m
      /\ \A i \in 1 .. k + m : i \in 1 .. k \/ i \in k + 1 .. k + m
  <2>1. /\ \A i \in 1 .. k : i \in 1 .. k + m /\ i <= k
        /\ \A i \in k + 1 .. k + m : i \in 1 .. k + m /\ ~(i <= k) /\ i - k \in 1 .. m
        /\ \A i \in 1 .. k + m : i \in 1 .. k \/ i \in k + 1 .. k + m
    BY <1>3
  <2>2. queue'[p] = queue[p] \o a
    BY <1>2 DEF a
  <2>3. DOMAIN queue'[p] = 1 .. k + m
    BY <1>3, <2>2
  <2>4. \A i \in 1 .. k + m : queue'[p][i] = IF i <= k THEN queue[p][i] ELSE a[i - k]
    BY <1>3, <2>2
  <2>5. \A i \in 1 .. k : queue'[p][i] = queue[p][i]
    BY <2>1, <2>4
  <2>6. \A i \in k + 1 .. k + m : queue'[p][i] = a[i - k]
    BY <2>1, <2>4
  <2> QED BY <2>1, <2>3, <2>5, <2>6
<1>8. \A i \in 1 .. k : queue[p][i].group \in inflight[p] /\ queue[p][i].pc = "next"
                        /\ queue[p][i].group \in Groups
  BY <1>3 DEF SerialAt, PooledAt
<1>9. \A t \in Busy(p) : thread[p][t].group \in inflight[p]
  BY DEF SerialAt, Busy, TypeOK, Tasks
<1>10. \A i, j \in 1 .. k + m : i # j => queue'[p][i].group # queue'[p][j].group
  <2>1. \A i, j \in 1 .. k : i # j => queue[p][i].group # queue[p][j].group
    BY <1>3 DEF SerialAt
  <2>2. \A i, j \in k + 1 .. k + m : i # j => i - k # j - k
    BY <1>3
  <2> QED BY <1>4, <1>5, <1>7, <1>8, <2>1, <2>2
<1>11. \A i \in 1 .. k + m, t \in Busy(p) : queue'[p][i].group # thread[p][t].group
  <2>1. \A i \in 1 .. k, t \in Busy(p) : queue[p][i].group # thread[p][t].group
    BY <1>3 DEF SerialAt
  <2> QED BY <1>4, <1>5, <1>7, <1>9, <2>1
<1>12. ASSUME NEW g \in Groups
       PROVE  g \in inflight'[p] <=> \/ \E i \in 1 .. k + m : queue'[p][i].group = g
                                     \/ \E t \in Busy(p) : thread[p][t].group = g
  <2>1. g \in inflight[p] <=> \/ \E i \in 1 .. k : queue[p][i].group = g
                              \/ \E t \in Busy(p) : thread[p][t].group = g
    BY <1>3 DEF SerialAt
  <2>2. g \in Submitted(p) <=> \E i \in 1 .. m : a[i].group = g
    BY <1>4
  <2>3. (\E i \in 1 .. m : a[i].group = g) <=> \E i \in k + 1 .. k + m : queue'[p][i].group = g
    <3>1. ASSUME NEW i \in 1 .. m PROVE i + k \in k + 1 .. k + m /\ queue'[p][i + k] = a[i]
      <4>1. i + k \in k + 1 .. k + m /\ (i + k) - k = i
        BY <1>3
      <4> QED BY <1>7, <4>1
    <3> QED BY <1>7, <3>1
  <2>4. (\E i \in 1 .. k : queue[p][i].group = g) <=> \E i \in 1 .. k : queue'[p][i].group = g
    BY <1>7
  <2>5. \A i : i \in 1 .. k + m <=> i \in 1 .. k \/ i \in k + 1 .. k + m
    BY <1>3
  <2> QED BY <1>2, <2>1, <2>2, <2>3, <2>4, <2>5
<1>13. SerialAt(p)'
  <2>1. \A t, u \in Busy(p) : t # u => thread[p][t].group # thread[p][u].group
    BY DEF SerialAt
  <2>2. DOMAIN queue'[p] = 1 .. k + m
    BY <1>7
  <2>3. \A t, u \in Busy(p)' : t # u => thread'[p][t].group # thread'[p][u].group
    BY <1>2, <1>6, <2>1
  <2>4. \A i \in DOMAIN queue'[p], t \in Busy(p)' : queue'[p][i].group # thread'[p][t].group
    BY <1>2, <1>6, <1>11, <2>2
  <2>5. \A g \in Groups :
          g \in inflight'[p] <=> \/ \E i \in DOMAIN queue'[p] : queue'[p][i].group = g
                                 \/ \E t \in Busy(p)' : thread'[p][t].group = g
    BY <1>2, <1>6, <1>12, <2>2
  <2> QED BY <1>10, <2>2, <2>3, <2>4, <2>5 DEF SerialAt
<1>14. PooledAt(p)'
  <2>1. \A i \in 1 .. k + m : queue'[p][i].pc = "next" /\ queue'[p][i].group \in Groups
    BY <1>4, <1>5, <1>7, <1>8
  <2>2. \A t \in Threads : thread'[p][t].pc \in AtWork => thread'[p][t].jobs # {}
    BY <1>2 DEF PooledAt
  <2>3. main'[p].pc \notin Before
    BY <1>2 DEF Before
  <2> QED BY <1>7, <2>1, <2>2, <2>3 DEF PooledAt
<1> QED BY <1>13, <1>14

LEMMA TakePool ==
  ASSUME TypeOK, NEW p \in Procs, NEW t \in Threads, SerialAt(p), PooledAt(p), Take(p, t)
  PROVE  SerialAt(p)' /\ PooledAt(p)'
<1>1. /\ queue[p] # <<>> /\ queue[p] \in Seq(Tasks) /\ thread[p][t].pc = "idle"
      /\ thread'[p][t] = queue[p][1] /\ queue'[p] = Tail(queue[p])
      /\ \A u \in Threads : u # t => thread'[p][u] = thread[p][u]
      /\ inflight' = inflight /\ main' = main
  BY TakeShape DEF Changes, TypeOK
<1> DEFINE k == Len(queue[p])
<1>2. /\ k \in Nat /\ k >= 1 /\ DOMAIN queue[p] = 1 .. k /\ DOMAIN queue'[p] = 1 .. k - 1
      /\ \A i \in 1 .. k - 1 : queue'[p][i] = queue[p][i + 1] /\ i + 1 \in 1 .. k /\ i + 1 # 1
  BY <1>1, HeadTailProperties, LenProperties, EmptySeq
<1> HIDE DEF k
<1>3. \A i \in 1 .. k : i = 1 \/ (i - 1 \in 1 .. k - 1 /\ (i - 1) + 1 = i)
  BY <1>2
<1>4. 1 \in 1 .. k /\ queue[p][1].pc = "next" /\ queue[p][1].group \in Groups
  BY <1>2 DEF PooledAt
<1>5. Busy(p)' = Busy(p) \cup {t} /\ t \notin Busy(p)
  BY <1>1, <1>4, GroupsAssumption DEF Busy
<1>6. \A u \in Busy(p) : thread'[p][u].group = thread[p][u].group
  BY <1>1, <1>5 DEF Busy
<1>7. \A u, w \in Busy(p)' : u # w => thread'[p][u].group # thread'[p][w].group
  BY <1>1, <1>2, <1>4, <1>5, <1>6 DEF SerialAt
<1>8. \A i, j \in 1 .. k - 1 : i # j => queue'[p][i].group # queue'[p][j].group
  <2>1. \A i, j \in 1 .. k - 1 : i # j => i + 1 # j + 1
    BY <1>2
  <2> QED BY <1>2, <2>1 DEF SerialAt
<1>9. \A i \in 1 .. k - 1, u \in Busy(p)' : queue'[p][i].group # thread'[p][u].group
  BY <1>1, <1>2, <1>4, <1>5, <1>6 DEF SerialAt
<1>10. ASSUME NEW g \in Groups
       PROVE  g \in inflight[p] <=> \/ \E i \in 1 .. k - 1 : queue'[p][i].group = g
                                    \/ \E u \in Busy(p)' : thread'[p][u].group = g
  <2>1. g \in inflight[p] <=> \/ \E i \in 1 .. k : queue[p][i].group = g
                              \/ \E u \in Busy(p) : thread[p][u].group = g
    BY <1>2 DEF SerialAt
  <2>2. (\E i \in 1 .. k : queue[p][i].group = g)
        <=> \/ queue[p][1].group = g
            \/ \E i \in 1 .. k - 1 : queue'[p][i].group = g
    <3>1. ASSUME NEW i \in 1 .. k, queue[p][i].group = g
          PROVE  queue[p][1].group = g \/ \E j \in 1 .. k - 1 : queue'[p][j].group = g
      <4>1. CASE i = 1
        BY <3>1, <4>1
      <4>2. CASE i # 1
        <5>1. i - 1 \in 1 .. k - 1 /\ (i - 1) + 1 = i
          BY <1>3, <4>2
        <5>2. queue'[p][i - 1] = queue[p][i]
          BY <1>2, <5>1
        <5> QED BY <3>1, <5>1, <5>2
      <4> QED BY <4>1, <4>2
    <3>2. \A j \in 1 .. k - 1 : queue'[p][j].group = g => \E i \in 1 .. k : queue[p][i].group = g
      BY <1>2
    <3> QED BY <1>4, <3>1, <3>2
  <2> QED BY <1>1, <1>5, <1>6, <2>1, <2>2
<1>11. SerialAt(p)'
  BY <1>1, <1>2, <1>7, <1>8, <1>9, <1>10 DEF SerialAt
<1>12. main[p].pc \notin Before
  BY <1>1 DEF PooledAt, AllIdle
<1>13. PooledAt(p)'
  BY <1>1, <1>2, <1>4, <1>12 DEF PooledAt, AtWork
<1> QED BY <1>11, <1>13

LEMMA FinishPool ==
  ASSUME TypeOK, NEW p \in Procs, NEW t \in Threads, SerialAt(p), PooledAt(p), Finish(p, t)
  PROVE  SerialAt(p)' /\ PooledAt(p)'
<1>1. /\ thread[p][t].pc = "next" /\ thread'[p][t] = Idle
      /\ \A u \in Threads : u # t => thread'[p][u] = thread[p][u]
      /\ inflight'[p] = inflight[p] \ {thread[p][t].group}
      /\ queue' = queue /\ main' = main
  BY FinishShape DEF Changes, TypeOK
<1>2. Busy(p)' = Busy(p) \ {t}
  BY <1>1 DEF Busy, Idle
<1>3. t \in Busy(p) \/ thread[p][t].group \notin Groups
  BY <1>1, GroupsAssumption DEF Busy
<1>4. SerialAt(p)'
  <2>1. \A u \in Busy(p)' : u \in Busy(p) /\ u # t /\ thread'[p][u].group = thread[p][u].group
    BY <1>1, <1>2 DEF Busy
  <2>2. \A i \in DOMAIN queue[p] : t \in Busy(p) => queue[p][i].group # thread[p][t].group
    BY DEF SerialAt
  <2>3. ASSUME NEW g \in Groups
        PROVE  g \in inflight'[p] <=> \/ \E i \in DOMAIN queue'[p] : queue'[p][i].group = g
                                      \/ \E u \in Busy(p)' : thread'[p][u].group = g
    <3>1. g \in inflight[p] <=> \/ \E i \in DOMAIN queue[p] : queue[p][i].group = g
                                \/ \E u \in Busy(p) : thread[p][u].group = g
      BY DEF SerialAt
    <3>2. \A u \in Busy(p) : u # t => u \in Busy(p)'
      BY <1>2
    <3>3. \A u \in Busy(p)' : t \in Busy(p) => thread[p][u].group # thread[p][t].group
      BY <2>1 DEF SerialAt
    <3> QED BY <1>1, <1>3, <2>1, <2>2, <3>1, <3>2, <3>3
  <2>4. \A u, w \in Busy(p)' : u # w => thread'[p][u].group # thread'[p][w].group
    BY <2>1 DEF SerialAt
  <2>5. \A i, j \in DOMAIN queue'[p] : i # j => queue'[p][i].group # queue'[p][j].group
    BY <1>1 DEF SerialAt
  <2>6. \A i \in DOMAIN queue'[p], u \in Busy(p)' : queue'[p][i].group # thread'[p][u].group
    BY <1>1, <2>1 DEF SerialAt
  <2> QED BY <2>3, <2>4, <2>5, <2>6 DEF SerialAt
<1>5. main[p].pc \notin Before
  BY <1>1 DEF PooledAt, AllIdle
<1>6. PooledAt(p)'
  BY <1>1, <1>5 DEF PooledAt, AtWork, Idle
<1> QED BY <1>4, <1>6

\* The pool of q keeps what it has.
Still(q) ==
  /\ inflight'[q] = inflight[q] /\ queue'[q] = queue[q]
  /\ \A t \in Threads : thread'[q][t] = thread[q][t]
  /\ main'[q].pc \in Before => main[q].pc \in Before \/ AllIdle(q)

LEMMA StillPool ==
  ASSUME TypeOK, TypeOK', NEW p \in Procs, SerialAt(p), PooledAt(p), Still(p)
  PROVE  SerialAt(p)' /\ PooledAt(p)'
  BY UntouchedPool DEF Still

\* The steps of a main thread that leave the pool alone.
LEMMA MainStill ==
  ASSUME TypeOK, NEW p \in Procs,
         \/ CheckPid(p) \/ StartDaemon(p) \/ ReadBase(p) \/ ReadJobsD(p) \/ Stop(p) \/ Drained(p)
         \/ Once(p) \/ OnceEnds(p)
  PROVE  \A q \in Procs : Still(q)
<1>1. UNCHANGED pool
  BY DEF CheckPid, StartDaemon, ReadBase, ReadJobsD, Stop, Drained, Once, OnceEnds
<1>2. MainChanges(p)
  BY MainGoes, MainTo, ReadBaseMain, ReadJobsDMain, ExitsMain, NoJobsTyped
     DEF CheckPid, StartDaemon, Stop, Drained, Once, OnceEnds, MainPcs, OncePcs
<1>3. main'[p].pc \in Before => main[p].pc \in Before \/ AllIdle(p)
  <2>1. CASE CheckPid(p) \/ Once(p)
    BY <2>1 DEF CheckPid, Once, MayStart, IsNew, Off, Before
  <2>2. CASE StartDaemon(p)
    BY <2>2 DEF StartDaemon, Before
  <2>3. CASE ReadBase(p)
    BY <2>3, ReadBaseMain DEF Before
  <2>4. CASE ReadJobsD(p)
    BY <2>4, ReadJobsDMain DEF Before
  <2>5. CASE Stop(p)
    <3>1. main'[p] = [pc |-> "draining", list |-> NoJobs]
      BY <2>5, MainTo, NoJobsTyped DEF Stop
    <3> QED BY <3>1 DEF Before
  <2>6. CASE Drained(p) \/ OnceEnds(p)
    BY <2>6 DEF Drained, OnceEnds, Before
  <2> QED BY <2>1, <2>2, <2>3, <2>4, <2>5, <2>6
<1> QED BY <1>1, <1>2, <1>3 DEF Still, MainChanges, pool

LEMMA CrashPool ==
  ASSUME TypeOK, NEW p \in Procs, Crash(p)
  PROVE  SerialAt(p)' /\ PooledAt(p)' /\ \A q \in Procs : q # p => Still(q)
<1>1. /\ inflight' = [inflight EXCEPT ![p] = {}] /\ queue' = [queue EXCEPT ![p] = <<>>]
      /\ thread' = [thread EXCEPT ![p] = [t \in Threads |-> Idle]] /\ Exits(p)
  BY DEF Crash
<1>2. /\ inflight \in [Procs -> SUBSET Groups] /\ queue \in [Procs -> Seq(Tasks)]
      /\ thread \in [Procs -> [Threads -> Tasks]]
  BY DEF TypeOK
<1>3. /\ inflight'[p] = {} /\ queue'[p] = <<>> /\ \A t \in Threads : thread'[p][t] = Idle
      /\ \A q \in Procs : q # p => /\ inflight'[q] = inflight[q] /\ queue'[q] = queue[q]
                                   /\ thread'[q] = thread[q]
  BY <1>1, <1>2
<1>4. Busy(p)' = {} /\ DOMAIN queue'[p] = {}
  BY <1>3 DEF Busy, Idle
<1>5. SerialAt(p)'
  BY <1>3, <1>4 DEF SerialAt
<1>6. PooledAt(p)'
  BY <1>3, <1>4 DEF PooledAt, AllIdle, AtWork, Idle
<1> QED BY <1>1, <1>3, <1>5, <1>6, ExitsMain DEF Still, MainChanges

LEMMA OnceRunsPool ==
  ASSUME TypeOK, NEW p \in Procs, NEW t \in Threads, SerialAt(p), PooledAt(p), OnceRuns(p, t)
  PROVE  SerialAt(p)' /\ PooledAt(p)'
<1>1. /\ thread[p][t].pc = "idle" /\ thread'[p][t].pc = "next" /\ thread'[p][t].group = None
      /\ \A u \in Threads : u # t => thread'[p][u] = thread[p][u]
      /\ inflight' = inflight /\ queue' = queue /\ main'[p].pc \notin Before
  BY OnceRunsShape DEF Changes, Before
<1>2. \A u \in Threads : u \in Busy(p)' <=> u \in Busy(p)
  BY <1>1 DEF Busy
<1>3. \A u \in Busy(p) : thread'[p][u].group = thread[p][u].group
  BY <1>1 DEF Busy
<1>4. \A u \in Threads : thread'[p][u].pc \in AtWork => thread'[p][u].jobs # {}
  BY <1>1 DEF PooledAt, AtWork
<1> QED BY <1>1, <1>2, <1>3, <1>4, SamePool

LEMMA AtJobPool ==
  ASSUME TypeOK, NEW p \in Procs, NEW t \in Threads, SerialAt(p), PooledAt(p), AtJob(p, t)
  PROVE  SerialAt(p)' /\ PooledAt(p)'
<1>1. /\ thread[p][t].pc \in {"next"} \cup AtWork /\ thread'[p][t].pc \in {"next"} \cup AtWork
      /\ thread'[p][t].group = thread[p][t].group
      /\ thread[p][t].jobs # {}
      /\ thread'[p][t].pc \in AtWork => thread'[p][t].jobs = thread[p][t].jobs
      /\ \A u \in Threads : u # t => thread'[p][u] = thread[p][u]
      /\ UNCHANGED <<main, inflight, queue>>
  BY AtJobShape DEF Changes, AtWork
<1>2. \A u \in Threads : u \in Busy(p)' <=> u \in Busy(p)
  BY <1>1 DEF Busy, AtWork
<1>3. \A u \in Busy(p) : thread'[p][u].group = thread[p][u].group
  BY <1>1 DEF Busy
<1>4. \A u \in Threads : thread'[p][u].pc \in AtWork => thread'[p][u].jobs # {}
  BY <1>1 DEF PooledAt
<1>5. main'[p].pc \notin Before
  BY <1>1 DEF PooledAt, AllIdle, AtWork
<1> QED BY <1>1, <1>2, <1>3, <1>4, <1>5, SamePool

\* The pools of the other processes.
LEMMA DispatchStill ==
  ASSUME TypeOK, NEW p \in Procs, Dispatch(p)
  PROVE  \A q \in Procs : q # p => Still(q)
<1>1. inflight \in [Procs -> SUBSET Groups] /\ queue \in [Procs -> Seq(Tasks)]
  BY DEF TypeOK
<1>2. MainChanges(p)
  BY DispatchShape, NoJobsTyped, MainTo
<1> QED BY <1>1, <1>2, DispatchShape DEF Still, MainChanges

LEMMA OthersStill ==
  ASSUME TypeOK, NEW p \in Procs, NEW t \in Threads,
         OnceRuns(p, t) \/ Take(p, t) \/ Finish(p, t) \/ AtJob(p, t)
  PROVE  \A q \in Procs : q # p => Still(q)
<1>1. inflight \in [Procs -> SUBSET Groups] /\ queue \in [Procs -> Seq(Tasks)]
  BY DEF TypeOK
<1>2. CASE OnceRuns(p, t)
  BY <1>2, OnceRunsShape DEF Still, MainChanges, Changes
<1>3. CASE Take(p, t)
  BY <1>1, <1>3, TakeShape DEF Still, Changes
<1>4. CASE Finish(p, t)
  BY <1>1, <1>4, FinishShape DEF Still, Changes
<1>5. CASE AtJob(p, t)
  BY <1>5, AtJobShape DEF Still, Changes
<1> QED BY <1>2, <1>3, <1>4, <1>5

LEMMA ToolOutside ==
  ToolStep => UNCHANGED OutsideFiles
  BY DEF OutsideFiles, ToolStep, Migrate, MigrateOpens, MigrateFills, MigrateTruncates, MigrateEnds,
         MigrateDies, Install, InstallOpens, InstallFills, Edit, files, tools

LEMMA TimeOutside ==
  ASSUME NEW n \in Names, IntervalPasses(n) \/ LeavesWindow(n)
  PROVE  UNCHANGED <<OutsideThreads, thread>>
  BY DEF OutsideThreads, IntervalPasses, LeavesWindow

\* Every pool after a step.
LEMMA PoolStep ==
  ASSUME Typed, [Next]_vars, \A q \in Procs : SerialAt(q) /\ PooledAt(q)
  PROVE  \A q \in Procs : SerialAt(q)' /\ PooledAt(q)'
<1>0. TypeOK /\ TypeOK'
  BY TypedNext DEF Typed
<1>1. ASSUME \A q \in Procs : Still(q)
      PROVE  \A q \in Procs : SerialAt(q)' /\ PooledAt(q)'
  BY <1>0, <1>1, StillPool
<1>2. ASSUME NEW p \in Procs, SerialAt(p)', PooledAt(p)', \A q \in Procs : q # p => Still(q)
      PROVE  \A q \in Procs : SerialAt(q)' /\ PooledAt(q)'
  BY <1>0, <1>2, StillPool
<1>3. ASSUME NEW p \in Procs,
             \/ CheckPid(p) \/ StartDaemon(p) \/ ReadBase(p) \/ ReadJobsD(p) \/ Stop(p)
             \/ Drained(p) \/ Once(p) \/ OnceEnds(p)
      PROVE  \A q \in Procs : SerialAt(q)' /\ PooledAt(q)'
  BY <1>0, <1>1, <1>3, MainStill
<1>4. ASSUME NEW p \in Procs, Dispatch(p)
      PROVE  \A q \in Procs : SerialAt(q)' /\ PooledAt(q)'
  <2>1. SerialAt(p)' /\ PooledAt(p)'
    BY <1>0, <1>4, DispatchPool
  <2> QED BY <1>0, <1>2, <1>4, <2>1, DispatchStill
<1>5. ASSUME NEW p \in Procs, Crash(p)
      PROVE  \A q \in Procs : SerialAt(q)' /\ PooledAt(q)'
  BY <1>0, <1>2, <1>5, CrashPool
<1>6. ASSUME NEW p \in Procs, NEW t \in Threads, OnceRuns(p, t) \/ ThreadStep(p, t)
      PROVE  \A q \in Procs : SerialAt(q)' /\ PooledAt(q)'
  <2>1. OnceRuns(p, t) \/ Take(p, t) \/ Finish(p, t) \/ AtJob(p, t)
    BY <1>6 DEF ThreadStep, AtJob
  <2>2. SerialAt(p)' /\ PooledAt(p)'
    BY <1>0, <2>1, OnceRunsPool, TakePool, FinishPool, AtJobPool
  <2> QED BY <1>0, <1>2, <2>1, <2>2, OthersStill
<1>7. CASE ToolStep \/ UNCHANGED vars
  <2>1. \A q \in Procs : Still(q)
    BY <1>7, ToolOutside DEF OutsideFiles, vars, pool, Still
  <2> QED BY <1>1, <2>1
<1>8. ASSUME NEW n \in Names, IntervalPasses(n) \/ LeavesWindow(n)
      PROVE  \A q \in Procs : SerialAt(q)' /\ PooledAt(q)'
  <2>1. \A q \in Procs : Still(q)
    BY <1>8, TimeOutside DEF OutsideThreads, Still
  <2> QED BY <1>1, <2>1
<1> QED BY <1>3, <1>4, <1>5, <1>6, <1>7, <1>8 DEF Next, MainStep

LEMMA PooledMeans == Pooled <=> \A p \in Procs : PooledAt(p)
  BY DEF Pooled, PooledAt

LEMMA SerialNow == TypeOK /\ Pooled => (GroupSerial <=> \A p \in Procs : SerialAt(p))
  BY SerialMeans

LEMMA SerialThen == (TypeOK /\ Pooled => (GroupSerial <=> \A p \in Procs : SerialAt(p)))'
  BY SerialNow, PTL

LEMMA PooledThen == (Pooled <=> \A p \in Procs : PooledAt(p))'
  BY PooledMeans, PTL

LEMMA PoolNext ==
  ASSUME Typed, Pooled, GroupSerial, [Next]_vars
  PROVE  Pooled' /\ GroupSerial'
<1>1. TypeOK /\ TypeOK'
  BY TypedNext DEF Typed
<1>2. \A q \in Procs : SerialAt(q) /\ PooledAt(q)
  BY <1>1, SerialNow, PooledMeans
<1>3. \A q \in Procs : SerialAt(q)' /\ PooledAt(q)'
  BY <1>2, PoolStep
<1> QED BY <1>1, <1>3, SerialThen, PooledThen

-----------------------------------------------------------------------------
(* Every cycle sees every job.                                             *)

\* What the files have while a migration goes on, and what a reader has seen.
FilesSide ==
  /\ addition.pc = "idle" /\ (~exists => jobsd = {})
  /\ migration.pc \in {"idle", "move", "fill", "moved", "last"}
  /\ migration.pc = "move" => ~exists
  /\ migration.pc = "fill" => exists
  /\ migration.pc \in {"move", "fill"} => InBase \subseteq migration.content
  /\ migration.pc \in {"moved", "last"} => InBase \subseteq jobsd
  /\ "base" \in rewriting => migration.pc = "last"
  /\ "jobsd" \in rewriting <=> migration.pc = "fill"
  /\ InBase \subseteq BothFiles
ReaderSide(p) ==
  /\ main[p].pc \in {"jobsd", "once_jobsd"} => InBase \subseteq Listed(p) \cup Reads("jobsd", jobsd)
  /\ main[p].pc \in {"dispatch", "once"} => InBase \subseteq Listed(p)
Moves == "install" \notin env /\ ~migration.found
EachSees == Moves => FilesSide /\ \A p \in Procs : ReaderSide(p)

LEMMA SeesNow == FilesKept /\ NoJobVanishes <=> EachSees
  BY DEF FilesKept, NoJobVanishes, EachSees, Moves, FilesSide, ReaderSide

LEMMA SeesThen == (FilesKept /\ NoJobVanishes <=> EachSees)'
  BY SeesNow, PTL

\* The files stay; of the processes p may have gone on.
LEMMA ReaderStep ==
  ASSUME UNCHANGED <<env, files, tools>>, EachSees, NEW p \in Procs,
         \A q \in Procs : q # p => main'[q] = main[q],
         Moves /\ FilesSide /\ ReaderSide(p) => ReaderSide(p)'
  PROVE  EachSees'
<1>1. Moves' = Moves /\ FilesSide' = FilesSide
  BY DEF Moves, FilesSide, BothFiles, Reads, files, tools
<1>2. \A q \in Procs : q # p /\ ReaderSide(q) => ReaderSide(q)'
  BY DEF ReaderSide, Listed, Reads, files
<1> QED BY <1>1, <1>2 DEF EachSees

LEMMA MainSees ==
  ASSUME TypeOK, EachSees, NEW p \in Procs,
         \/ CheckPid(p) \/ StartDaemon(p) \/ MainStep(p) \/ Stop(p) \/ Drained(p) \/ Crash(p)
         \/ Once(p) \/ OnceEnds(p)
  PROVE  EachSees'
<1>1. CASE \/ CheckPid(p) \/ StartDaemon(p) \/ Dispatch(p) \/ Stop(p) \/ Drained(p) \/ Crash(p)
           \/ Once(p) \/ OnceEnds(p)
  <2>1. UNCHANGED <<env, files, tools>>
    BY <1>1, DispatchShape DEF CheckPid, StartDaemon, Stop, Drained, Crash, Once, OnceEnds
  <2>2. MainChanges(p)
    BY <1>1, MainGoes, MainTo, DispatchShape, ExitsMain, NoJobsTyped
       DEF CheckPid, StartDaemon, Stop, Drained, Crash, Once, OnceEnds, MainPcs, OncePcs
  <2>3. main'[p].pc \in {"starting", "base", "draining", "off", "once_base"}
    BY <1>1, MainGoes, MainTo, DispatchShape, ExitsMain, NoJobsTyped
       DEF CheckPid, StartDaemon, Stop, Drained, Crash, Once, OnceEnds, MainPcs, OncePcs, Gone
  <2>4. ReaderSide(p)'
    BY <2>3 DEF ReaderSide
  <2> QED BY <2>1, <2>2, <2>4, ReaderStep DEF MainChanges
<1>2. CASE ReadBase(p)
  <2>1. UNCHANGED <<env, files, tools>> /\ \A q \in Procs : q # p => main'[q] = main[q]
    BY <1>2, ReadBaseMain DEF MainChanges
  <2>2. Listed(p)' = {n \in Names : n \in Reads("base", base)}
    <3>1. \A n \in Names : group[n] # None
      BY GroupsAssumption DEF TypeOK
    <3> QED BY <1>2, <3>1, ReadBaseMain DEF Listed
  <2>3. base \subseteq Names /\ InBase \subseteq Names /\ Reads("jobsd", jobsd)' = Reads("jobsd", jobsd)
    BY <2>1, NamesAssumption DEF TypeOK, Reads, files
  <2>4. main'[p].pc \in {"jobsd", "once_jobsd"}
    BY <1>2, ReadBaseMain
  <2>5. FilesSide => ReaderSide(p)'
    BY <2>2, <2>3, <2>4 DEF ReaderSide, FilesSide, BothFiles
  <2> QED BY <2>1, <2>5, ReaderStep
<1>3. CASE ReadJobsD(p)
  <2>1. UNCHANGED <<env, files, tools>> /\ \A q \in Procs : q # p => main'[q] = main[q]
    BY <1>3, ReadJobsDMain DEF MainChanges
  <2>2. Listed(p)' = Listed(p) \cup {n \in Names : n \in Reads("jobsd", jobsd)}
    <3>1. \A n \in Names : group[n] # None
      BY GroupsAssumption DEF TypeOK
    <3> QED BY <1>3, <3>1, ReadJobsDMain DEF Listed
  <2>3. InBase \subseteq Names
    BY NamesAssumption
  <2>4. main[p].pc \in {"jobsd", "once_jobsd"} /\ main'[p].pc \in {"dispatch", "once"}
    BY <1>3, ReadJobsDMain
  <2>5. ReaderSide(p) => ReaderSide(p)'
    BY <2>2, <2>3, <2>4 DEF ReaderSide
  <2> QED BY <2>1, <2>5, ReaderStep
<1> QED BY <1>1, <1>2, <1>3 DEF MainStep

LEMMA ThreadSees ==
  ASSUME TypeOK, EachSees, NEW p \in Procs, NEW t \in Threads, OnceRuns(p, t) \/ ThreadStep(p, t)
  PROVE  EachSees'
<1>1. CASE OnceRuns(p, t)
  <2>1. UNCHANGED <<env, files, tools>> /\ MainChanges(p) /\ main'[p].pc = "once_runs"
    BY <1>1, OnceRunsShape
  <2> QED BY <2>1, ReaderStep DEF MainChanges, ReaderSide
<1>2. CASE ThreadStep(p, t)
  <2>1. UNCHANGED <<env, files, tools, main>>
    BY <1>2, TakeShape, FinishShape, AtJobShape DEF ThreadStep, AtJob
  <2>2. ReaderSide(p) => ReaderSide(p)'
    BY <2>1 DEF ReaderSide, Listed, Reads, files
  <2> QED BY <2>1, <2>2, ReaderStep
<1> QED BY <1>1, <1>2

LEMMA ToolSees ==
  ASSUME TypeOK, EachSees, ToolStep
  PROVE  EachSees'
<1>1. env' = env /\ main' = main
  BY ToolOutside DEF OutsideFiles
<1>2. SUFFICES ASSUME Moves, FilesSide, \A p \in Procs : ReaderSide(p), Moves'
               PROVE  FilesSide' /\ \A p \in Procs : ReaderSide(p)'
  <2>1. migration.found => migration'.found
    <3>1. migration \in [pc : {"idle", "move", "keep", "fill", "moved", "last"},
                         content : SUBSET Names, found : BOOLEAN]
      BY DEF TypeOK
    <3>2. CASE Migrate
      BY <3>2 DEF Migrate
    <3>3. CASE MigrateOpens \/ MigrateFills \/ MigrateTruncates \/ MigrateEnds \/ MigrateDies
      BY <3>1, <3>3 DEF MigrateOpens, MigrateFills, MigrateTruncates, MigrateEnds, MigrateDies
    <3>4. CASE Install \/ InstallOpens \/ InstallFills \/ Edit
      BY <3>4 DEF Install, InstallOpens, InstallFills, Edit, tools
    <3> QED BY <3>2, <3>3, <3>4 DEF ToolStep
  <2>2. Moves' => Moves
    BY <1>1, <2>1 DEF Moves
  <2> QED BY <1>2, <2>2 DEF EachSees
<1>3. ASSUME Reads("jobsd", jobsd) \cap InBase \subseteq Reads("jobsd", jobsd)'
      PROVE  \A p \in Procs : ReaderSide(p)'
  <2>1. \A p \in Procs : Listed(p)' = Listed(p)
    BY <1>1 DEF Listed
  <2> QED BY <1>1, <1>2, <1>3, <2>1 DEF ReaderSide
<1> USE DEF FilesSide, BothFiles, Reads, TypeOK
<1>4. CASE Migrate
  BY <1>2, <1>3, <1>4 DEF Migrate, Moves, files
<1>5. CASE MigrateOpens
  BY <1>2, <1>3, <1>5 DEF MigrateOpens
<1>6. CASE MigrateFills
  <2>1. /\ migration.pc = "fill" /\ migration'.pc = "moved"
        /\ jobsd' = migration.content /\ rewriting' = rewriting \ {"jobsd"}
        /\ UNCHANGED <<base, exists, addition>>
    BY <1>6 DEF MigrateFills
  <2>2. InBase \subseteq jobsd' /\ exists /\ "base" \notin rewriting
    BY <1>2, <2>1
  <2>3. FilesSide'
    BY <1>2, <2>1, <2>2
  <2>4. Reads("jobsd", jobsd)' = jobsd'
    BY <2>1
  <2> QED BY <1>3, <2>2, <2>3, <2>4
<1>7. CASE MigrateTruncates
  BY <1>2, <1>3, <1>7 DEF MigrateTruncates
<1>8. CASE MigrateEnds
  BY <1>2, <1>3, <1>8 DEF MigrateEnds
<1>9. CASE MigrateDies
  BY <1>2, <1>3, <1>9 DEF MigrateDies
<1>10. CASE Install \/ InstallOpens \/ InstallFills
  BY <1>2, <1>10 DEF Install, InstallOpens, InstallFills, Moves
<1>11. CASE Edit
  BY <1>2, <1>3, <1>11 DEF Edit, tools
<1> QED BY <1>4, <1>5, <1>6, <1>7, <1>8, <1>9, <1>10, <1>11 DEF ToolStep

LEMMA SeesNext ==
  ASSUME Typed, EachSees, [Next]_vars
  PROVE  EachSees'
<1>1. TypeOK
  BY DEF Typed
<1>2. CASE UNCHANGED vars \/ \E n \in Names : IntervalPasses(n) \/ LeavesWindow(n)
  <2>1. UNCHANGED <<env, files, tools, main>>
    BY <1>2, TimeOutside DEF vars, OutsideThreads
  <2> QED BY <2>1 DEF EachSees, Moves, FilesSide, ReaderSide, Listed, BothFiles, Reads, files, tools
<1> QED BY <1>1, <1>2, MainSees, ThreadSees, ToolSees DEF Next

-----------------------------------------------------------------------------
(* One daemon: its threads, and the jobs of their groups.                  *)

\* A process nothing has happened to.
LEMMA OthersServed ==
  ASSUME NEW q \in Procs, Served(q), Grouped(q),
         main'[q] = main[q], queue'[q] = queue[q],
         \A t \in Threads : thread'[q][t] = thread[q][t],
         main[q].pc \in Before \/ (mem'[q] = mem[q] /\ disk' = disk),
         pidfile' # q \/ pidfile' = pidfile
  PROVE  Served(q)' /\ Grouped(q)'
  BY DEF Served, Grouped

\* One after a step of p, when p is alone and the step leaves it so.
LEMMA OneStep ==
  ASSUME Alone, OneDaemon, env' = env, group' = group, NEW p \in Procs,
         Off(p)' \/ ~Off(p) \/ \A q \in Procs : Off(q),
         \A q \in Procs : q # p =>
           /\ main'[q] = main[q] /\ queue'[q] = queue[q]
           /\ \A t \in Threads : thread'[q][t] = thread[q][t]
           /\ main[q].pc \in Before \/ (mem'[q] = mem[q] /\ disk' = disk)
           /\ pidfile' # q \/ pidfile' = pidfile,
         Served(p)' /\ Grouped(p)'
  PROVE  OneDaemon'
<1>1. Lone /\ group = FirstGroup /\ \A q \in Procs : Served(q) /\ Grouped(q)
  BY DEF OneDaemon
<1>2. \A q \in Procs : Served(q)' /\ Grouped(q)'
  BY <1>1, OthersServed
<1>3. Lone'
  BY <1>1 DEF Lone, Off
<1> QED BY <1>1, <1>2, <1>3 DEF OneDaemon

LEMMA GoneGrouped == \A n \in Names : Gone.list[n] = None /\ NoJobs[n] = None
  BY DEF Gone, NoJobs

\* A step of p's main thread that leaves the pool and state.json alone.
LEMMA MainOne ==
  ASSUME TypeOK, Alone, OneDaemon, NEW p \in Procs, MainChanges(p),
         UNCHANGED <<env, group, disk, pool>>,
         \A q \in Procs : q # p => mem'[q] = mem[q],
         pidfile' \in {pidfile, "nobody", "dead", p},
         Off(p)' \/ ~Off(p) \/ \A q \in Procs : Off(q),
         \A n \in Names : main'[p].list[n] \in {None, FirstGroup[n]},
         Served(p)'
  PROVE  OneDaemon'
<1>1. Grouped(p)
  BY DEF OneDaemon
<1>2. Grouped(p)'
  BY <1>1 DEF Grouped, pool
<1> QED BY <1>2, OneStep, ProcsAssumption DEF MainChanges, pool

LEMMA DaemonOne ==
  ASSUME TypeOK, Alone, OneDaemon, NEW p \in Procs,
         \/ CheckPid(p) \/ StartDaemon(p) \/ ReadBase(p) \/ ReadJobsD(p) \/ Stop(p) \/ Drained(p)
         \/ Once(p) \/ OnceEnds(p)
  PROVE  OneDaemon'
<1> USE ProcsAssumption
<1>1. group = FirstGroup /\ Served(p) /\ Grouped(p) /\ \A q \in Procs : main[q].pc \notin OncePcs
  BY DEF OneDaemon, Served
<1>2. /\ mem \in [Procs -> States] /\ {"overlap", "once", "unreadable"} \cap env = {}
      /\ FirstGroup \in [Names -> Groups]
  BY GroupsAssumption DEF TypeOK, Alone
<1>3. CASE CheckPid(p)
  <2>1. \A q \in Procs : Off(q)
    BY <1>1, <1>2, <1>3 DEF CheckPid, MayStart, Off
  <2>2. MainChanges(p) /\ main'[p].pc = "starting" /\ main'[p].list = main[p].list
    BY <1>3, MainGoes DEF CheckPid, MainPcs
  <2>3. UNCHANGED <<env, group, disk, pool, mem>> /\ pidfile' = "nobody"
    BY <1>3 DEF CheckPid, files
  <2>4. Served(p)'
    BY <2>2, <2>3 DEF Served, Before, OncePcs
  <2> QED BY <1>1, <2>1, <2>2, <2>3, <2>4, MainOne DEF Grouped
<1>4. CASE StartDaemon(p)
  <2>1. MainChanges(p) /\ main'[p].pc = "base" /\ main'[p].list = main[p].list
    BY <1>4, MainGoes DEF StartDaemon, MainPcs
  <2>2. UNCHANGED <<env, group, disk, pool>> /\ pidfile' = p /\ mem' = [mem EXCEPT ![p] = disk]
        /\ ~Off(p)
    BY <1>2, <1>4, LoadsState DEF StartDaemon, files, Off
  <2>3. mem'[p] = disk /\ \A q \in Procs : q # p => mem'[q] = mem[q]
    BY <1>2, <2>2
  <2>4. Served(p)'
    BY <2>1, <2>2, <2>3 DEF Served, Before, OncePcs
  <2> QED BY <1>1, <2>1, <2>2, <2>3, <2>4, MainOne DEF Grouped
<1>5. CASE ReadBase(p)
  <2>1. /\ MainChanges(p) /\ UNCHANGED <<env, group, disk, pool, mem, pidfile>>
        /\ main[p].pc = "base" /\ main'[p].pc = "jobsd"
        /\ \A n \in Names : main'[p].list[n] \in {None, FirstGroup[n]}
    BY <1>1, <1>5, ReadBaseMain DEF OncePcs, files
  <2>2. Served(p)' /\ ~Off(p)
    BY <1>1, <2>1 DEF Served, Before, OncePcs, Off
  <2> QED BY <2>1, <2>2, MainOne
<1>6. CASE ReadJobsD(p)
  <2>1. /\ MainChanges(p) /\ UNCHANGED <<env, group, disk, pool, mem, pidfile>>
        /\ main[p].pc = "jobsd" /\ main'[p].pc = "dispatch"
        /\ \A n \in Names : main'[p].list[n] \in {None, FirstGroup[n]}
    BY <1>1, <1>6, ReadJobsDMain DEF OncePcs, files, Grouped
  <2>2. Served(p)' /\ ~Off(p)
    BY <1>1, <2>1 DEF Served, Before, OncePcs, Off
  <2> QED BY <2>1, <2>2, MainOne
<1>7. CASE Stop(p)
  <2>1. MainChanges(p) /\ main'[p] = [pc |-> "draining", list |-> NoJobs]
    BY <1>7, MainTo, NoJobsTyped DEF Stop
  <2>2. UNCHANGED <<env, group, disk, pool, mem>> /\ pidfile' = "nobody" /\ pidfile = p
    BY <1>7 DEF Stop, files
  <2>3. mem[p] = disk /\ ~Off(p)
    BY <1>1, <2>2 DEF Served, Before, Off
  <2>4. Served(p)'
    BY <2>1, <2>2, <2>3 DEF Served, OncePcs
  <2> QED BY <2>1, <2>2, <2>3, <2>4, GoneGrouped, MainOne
<1>8. CASE Drained(p) \/ OnceEnds(p)
  <2>1. Exits(p) /\ UNCHANGED <<env, group, disk, pool, pidfile>> /\ main[p].pc = "draining"
    BY <1>1, <1>8 DEF Drained, OnceEnds, files, OncePcs
  <2>2. MainChanges(p) /\ main'[p] = Gone /\ \A q \in Procs : q # p => mem'[q] = mem[q]
    BY <2>1, ExitsMain
  <2>3. Served(p)' /\ Off(p)'
    BY <1>1, <2>1, <2>2 DEF Served, OncePcs, Before, Gone, Off
  <2> QED BY <2>1, <2>2, <2>3, GoneGrouped, MainOne
<1>9. CASE Once(p)
  BY <1>2, <1>9 DEF Once
<1> QED BY <1>3, <1>4, <1>5, <1>6, <1>7, <1>8, <1>9

LEMMA DispatchOne ==
  ASSUME TypeOK, Alone, OneDaemon, NEW p \in Procs, Dispatch(p)
  PROVE  OneDaemon'
<1>1. group = FirstGroup /\ Served(p) /\ Grouped(p)
  BY DEF OneDaemon
<1>2. queue \in [Procs -> Seq(Tasks)] /\ queue[p] \in Seq(Tasks)
  BY DEF TypeOK
<1>3. /\ queue' = [queue EXCEPT ![p] = queue[p] \o Appended(p)]
      /\ main[p].pc = "dispatch" /\ UNCHANGED <<env, group, pidfile, mem, disk, thread>>
      /\ MainChanges(p) /\ main'[p] = [pc |-> "base", list |-> NoJobs]
  BY DispatchShape, NoJobsTyped, MainTo DEF files
<1>4. queue'[p] = queue[p] \o Appended(p) /\ \A q \in Procs : q # p => queue'[q] = queue[q]
  BY <1>2, <1>3
<1>5. Served(p)' /\ ~Off(p)
  BY <1>1, <1>3 DEF Served, Before, OncePcs, Off
<1>6. \A i \in 1 .. Len(Appended(p)) :
        Appended(p)[i].jobs \subseteq GroupJobs(Appended(p)[i].group)
  <2> TAKE i \in 1 .. Len(Appended(p))
  <2>1. Appended(p)[i].group \in Groups /\ Appended(p)[i].jobs = OfGroup(p, Appended(p)[i].group)
    BY AppendedTasks DEF Submitted
  <2>2. \A g \in Groups : OfGroup(p, g) \subseteq GroupJobs(g)
    BY <1>1, GroupsAssumption DEF Grouped, OfGroup, GroupJobs
  <2> QED BY <2>1, <2>2
<1>7. \A i \in DOMAIN queue'[p] : queue'[p][i].jobs \subseteq GroupJobs(queue'[p][i].group)
  <2> DEFINE a == Appended(p)
             k == Len(queue[p])
             m == Len(a)
  <2>1. /\ k \in Nat /\ m \in Nat
        /\ DOMAIN queue[p] = 1 .. k /\ DOMAIN (queue[p] \o a) = 1 .. k + m
        /\ \A i \in 1 .. k + m : (queue[p] \o a)[i] = IF i <= k THEN queue[p][i] ELSE a[i - k]
    BY <1>2, AppendedTasks, ConcatProperties, LenProperties
  <2>2. /\ \A i \in 1 .. k : queue[p][i].jobs \subseteq GroupJobs(queue[p][i].group)
        /\ \A i \in 1 .. m : a[i].jobs \subseteq GroupJobs(a[i].group)
    BY <1>1, <1>6, <2>1 DEF Grouped
  <2>3. queue'[p] = queue[p] \o a
    BY <1>4
  <2> HIDE DEF a, k, m
  <2>4. DOMAIN queue'[p] = 1 .. k + m
    BY <2>1, <2>3
  <2> SUFFICES ASSUME NEW i \in 1 .. k + m
               PROVE  queue'[p][i].jobs \subseteq GroupJobs(queue'[p][i].group)
    BY <2>4
  <2>5. queue'[p][i] = IF i <= k THEN queue[p][i] ELSE a[i - k]
    BY <2>1, <2>3
  <2>6. i <= k => i \in 1 .. k
    BY <2>1
  <2>7. ~(i <= k) => i - k \in 1 .. m
    BY <2>1
  <2> QED BY <2>2, <2>5, <2>6, <2>7
<1>8. Grouped(p)'
  BY <1>1, <1>3, <1>7, GoneGrouped DEF Grouped
<1> QED BY <1>3, <1>4, <1>5, <1>8, OneStep DEF MainChanges

LEMMA CrashOne ==
  ASSUME TypeOK, Alone, OneDaemon, NEW p \in Procs, Crash(p)
  PROVE  OneDaemon'
<1>1. /\ queue' = [queue EXCEPT ![p] = <<>>] /\ Exits(p)
      /\ thread' = [thread EXCEPT ![p] = [t \in Threads |-> Idle]]
      /\ UNCHANGED <<env, group, disk>> /\ pidfile' = IF pidfile = p THEN "dead" ELSE pidfile
  BY DEF Crash, files
<1>2. queue \in [Procs -> Seq(Tasks)] /\ thread \in [Procs -> [Threads -> Tasks]]
  BY DEF TypeOK
<1>3. /\ queue'[p] = <<>> /\ \A t \in Threads : thread'[p][t] = Idle
      /\ \A q \in Procs : q # p => queue'[q] = queue[q] /\ thread'[q] = thread[q]
  BY <1>1, <1>2
<1>4. MainChanges(p) /\ main'[p] = Gone /\ \A q \in Procs : q # p => mem'[q] = mem[q]
  BY <1>1, ExitsMain
<1>5. Served(p)' /\ Off(p)'
  BY <1>1, <1>4, ProcsAssumption DEF Served, Before, OncePcs, Gone, Off
<1>6. Grouped(p)'
  BY <1>3, <1>4, GoneGrouped DEF Grouped, Idle
<1> QED BY <1>1, <1>3, <1>4, <1>5, <1>6, OneStep, ProcsAssumption DEF MainChanges

LEMMA TakeOne ==
  ASSUME TypeOK, Alone, OneDaemon, NEW p \in Procs, NEW t \in Threads,
         PooledAt(p), Take(p, t)
  PROVE  OneDaemon'
<1>1. group = FirstGroup /\ Served(p) /\ Grouped(p)
  BY DEF OneDaemon
<1>2. /\ queue[p] # <<>> /\ queue[p] \in Seq(Tasks) /\ thread[p][t].pc = "idle"
      /\ thread'[p][t] = queue[p][1] /\ queue' = [queue EXCEPT ![p] = Tail(queue[p])]
      /\ Changes(p, t) /\ UNCHANGED <<env, group, pidfile, main, mem, disk>>
  BY TakeShape DEF files
<1>3. queue'[p] = Tail(queue[p]) /\ \A q \in Procs : q # p => queue'[q] = queue[q]
  BY <1>2 DEF TypeOK
<1>0. queue[p] # <<>> /\ queue[p] \in Seq(Tasks)
  BY <1>2
<1> DEFINE k == Len(queue[p])
<1>4. /\ k \in Nat /\ k >= 1 /\ DOMAIN queue[p] = 1 .. k /\ DOMAIN queue'[p] = 1 .. k - 1
      /\ \A i \in 1 .. k - 1 : queue'[p][i] = queue[p][i + 1] /\ i + 1 \in 1 .. k
  BY <1>0, <1>3, HeadTailProperties, LenProperties, EmptySeq
<1> HIDE DEF k
<1>5. 1 \in DOMAIN queue[p]
  BY <1>4
<1>6. thread'[p][t].group \in Groups /\ thread'[p][t].jobs \subseteq GroupJobs(thread'[p][t].group)
  BY <1>1, <1>2, <1>5 DEF PooledAt, Grouped
<1>7. \A i \in DOMAIN queue'[p] : queue'[p][i].jobs \subseteq GroupJobs(queue'[p][i].group)
  BY <1>1, <1>4 DEF Grouped
<1>8. Grouped(p)'
  BY <1>1, <1>2, <1>6, <1>7 DEF Grouped, Changes
<1>9. Served(p)' /\ ~Off(p)
  BY <1>1, <1>2 DEF Served, PooledAt, AllIdle, Before, Off
<1> QED BY <1>2, <1>3, <1>8, <1>9, OneStep DEF Changes

LEMMA FinishOne ==
  ASSUME TypeOK, Alone, OneDaemon, NEW p \in Procs, NEW t \in Threads,
         PooledAt(p), Finish(p, t)
  PROVE  OneDaemon'
<1>1. group = FirstGroup /\ Served(p) /\ Grouped(p)
  BY DEF OneDaemon
<1>2. /\ thread[p][t].pc = "next" /\ thread'[p][t] = Idle /\ Changes(p, t)
      /\ UNCHANGED <<env, group, pidfile, main, mem, disk, queue>>
  BY FinishShape DEF files
<1>3. Served(p)' /\ ~Off(p)
  BY <1>1, <1>2 DEF Served, PooledAt, AllIdle, Before, Off
<1>4. Grouped(p)'
  BY <1>1, <1>2 DEF Grouped, Changes, Idle
<1> QED BY <1>2, <1>3, <1>4, OneStep DEF Changes

LEMMA AtJobOne ==
  ASSUME TypeOK, Alone, OneDaemon, NEW p \in Procs, NEW t \in Threads,
         PooledAt(p), AtJob(p, t)
  PROVE  OneDaemon'
<1>1. Lone /\ group = FirstGroup /\ Served(p) /\ Grouped(p)
  BY DEF OneDaemon
<1>2. /\ Changes(p, t) /\ UNCHANGED <<env, group, pidfile, main, queue>>
      /\ thread[p][t].pc \in {"next"} \cup AtWork /\ thread'[p][t].group = thread[p][t].group
      /\ thread'[p][t].jobs \subseteq thread[p][t].jobs
      /\ \/ mem' = mem /\ disk' = disk
         \/ mem'[p] = disk' /\ \A q \in Procs : q # p => mem'[q] = mem[q]
  BY AtJobShape DEF files
<1>3. main[p].pc \notin Before /\ ~Off(p)
  BY <1>2 DEF PooledAt, AllIdle, AtWork, Off, Before
<1>4. \A q \in Procs : q # p => main[q].pc \in Before
  BY <1>1, <1>3 DEF Lone, Off, Before
<1>5. Served(p)'
  BY <1>1, <1>2, <1>3 DEF Served
<1>6. Grouped(p)'
  BY <1>1, <1>2 DEF Grouped, Changes, AtWork
<1> QED BY <1>2, <1>3, <1>4, <1>5, <1>6, OneStep DEF Changes

LEMMA TimeOne ==
  ASSUME TypeOK, Alone, OneDaemon, NEW n \in Names, IntervalPasses(n) \/ LeavesWindow(n)
  PROVE  OneDaemon'
<1>1. UNCHANGED <<env, group, pidfile, main, queue, thread>>
  BY TimeOutside DEF OutsideThreads, files
<1>2. \A p \in Procs : mem[p] = disk => mem'[p] = disk'
  BY DEF IntervalPasses, LeavesWindow
<1> QED BY <1>1, <1>2 DEF OneDaemon, Alone, Lone, Off, Served, Grouped

LEMMA ToolOne ==
  ASSUME Alone, OneDaemon, ToolStep
  PROVE  OneDaemon'
<1>1. UNCHANGED OutsideFiles
  BY ToolOutside
<1>2. group' = group
  BY DEF Alone, ToolStep, Migrate, MigrateOpens, MigrateFills, MigrateTruncates, MigrateEnds,
         MigrateDies, Install, InstallOpens, InstallFills, Edit, files
<1> QED BY <1>1, <1>2 DEF OutsideFiles, pool, OneDaemon, Alone, Lone, Off, Served, Grouped

LEMMA EnvStays ==
  ASSUME Typed, [Next]_vars
  PROVE  env' = env
<1>1. TypeOK
  BY DEF Typed
<1>2. ASSUME NEW p \in Procs,
             \/ CheckPid(p) \/ StartDaemon(p) \/ MainStep(p) \/ Stop(p) \/ Drained(p) \/ Crash(p)
             \/ Once(p) \/ OnceEnds(p)
      PROVE  env' = env
  BY <1>2 DEF CheckPid, StartDaemon, MainStep, ReadBase, ReadJobsD, Dispatch, Stop, Drained, Crash,
              Once, OnceEnds
<1>3. ASSUME NEW p \in Procs, NEW t \in Threads, OnceRuns(p, t) \/ ThreadStep(p, t)
      PROVE  env' = env
  BY <1>1, <1>3, OnceRunsShape, TakeShape, FinishShape, AtJobShape DEF ThreadStep, AtJob
<1> QED BY <1>2, <1>3, TimeOutside, ToolOutside DEF Next, OutsideThreads, OutsideFiles, vars

LEMMA OneNext ==
  ASSUME Typed, Pooled, OneDaemon, [Next]_vars
  PROVE  OneDaemon'
<1>1. TypeOK /\ \A p \in Procs : PooledAt(p)
  BY PooledMeans DEF Typed
<1>2. env' = env
  BY EnvStays
<1>3. SUFFICES ASSUME Alone PROVE OneDaemon'
  BY <1>2, <1>3 DEF OneDaemon, Alone
<1>4. ASSUME NEW p \in Procs, NEW t \in Threads, OnceRuns(p, t) \/ ThreadStep(p, t)
      PROVE  OneDaemon'
  <2>1. ~OnceRuns(p, t)
    BY <1>3 DEF OnceRuns, OneDaemon, Served, OncePcs
  <2> QED BY <1>1, <1>3, <1>4, <2>1, TakeOne, FinishOne, AtJobOne DEF ThreadStep, AtJob
<1>5. CASE UNCHANGED vars
  BY <1>5 DEF vars, files, pool, OneDaemon, Alone, Lone, Off, Served, Grouped
<1> QED BY <1>1, <1>3, <1>4, <1>5, DaemonOne, DispatchOne, CrashOne, TimeOne, ToolOne DEF Next, MainStep

-----------------------------------------------------------------------------
(* The launches of a job with a quota.                                     *)

\* A job is with one thread of the daemon at most.
LEMMA OneThread ==
  ASSUME TypeOK, Alone, OneDaemon, \A q \in Procs : SerialAt(q) /\ PooledAt(q),
         NEW p \in Procs, NEW t \in Threads, NEW q \in Procs, NEW u \in Threads,
         thread[p][t].pc \in AtWork, thread[q][u].pc \in AtWork, Job(p, t) = Job(q, u)
  PROVE  p = q /\ t = u
<1>1. Lone /\ Grouped(p) /\ Grouped(q)
  BY DEF OneDaemon
<1>2. ~Off(p) /\ ~Off(q)
  BY DEF PooledAt, AllIdle, Off, Before, AtWork
<1>3. p = q
  BY <1>1, <1>2 DEF Lone
<1>4. /\ thread[p][t].jobs \in SUBSET Names /\ thread[p][t].jobs # {}
      /\ thread[q][u].jobs \in SUBSET Names /\ thread[q][u].jobs # {}
  BY DEF TypeOK, Tasks, PooledAt
<1>5. Job(p, t) \in thread[p][t].jobs /\ Job(q, u) \in thread[q][u].jobs
  BY <1>4, FirstIsOne DEF Job
<1>6. /\ thread[p][t].group \in Groups /\ thread[p][t].jobs \subseteq GroupJobs(thread[p][t].group)
      /\ thread[q][u].group \in Groups /\ thread[q][u].jobs \subseteq GroupJobs(thread[q][u].group)
  BY <1>1 DEF Grouped, AtWork
<1>7. thread[p][t].group = thread[q][u].group
  BY <1>5, <1>6 DEF GroupJobs
<1>8. t \in Busy(p) /\ u \in Busy(p)
  BY <1>3, <1>6, GroupsAssumption DEF Busy, AtWork
<1> QED BY <1>3, <1>7, <1>8 DEF SerialAt

LEMMA QuotaCounts ==
  ASSUME TypeOK, NEW n \in Names
  PROVE  /\ Quota[n] \in Nat
         /\ IsFiniteSet(disk[n].recent) /\ Cardinality(disk[n].recent) \in Nat
         /\ \A S \in SUBSET disk[n].recent :
              IsFiniteSet(S) /\ Cardinality(S) \in Nat /\ Cardinality(S) <= Cardinality(disk[n].recent)
         /\ IsFiniteSet(window[n])
<1>1. disk[n].recent \subseteq Launches /\ window[n] \subseteq Launches
  BY DEF TypeOK, States
<1>2. IsFiniteSet(disk[n].recent) /\ IsFiniteSet(window[n])
  BY <1>1, LaunchesAssumption, FS_Subset
<1> QED BY <1>2, QuotaAssumption, FS_Subset, FS_CardinalityType

\* A step of a thread, when no launch is made and none forgotten.
LEMMA KeptSame ==
  ASSUME Recorded, \A p \in Procs, t \in Threads : HasRoom(p, t),
         window' = window, lost' = lost, \A n \in Names : disk'[n].recent = disk[n].recent,
         \A p \in Procs, t \in Threads :
           \/ thread'[p][t] = thread[p][t] /\ thread[p][t].jobs \in SUBSET Names
              /\ (thread[p][t].pc = "condition" => thread[p][t].jobs # {})
           \/ thread[p][t].pc # "record" /\ HasRoom(p, t)'
  PROVE  Recorded' /\ \A p \in Procs, t \in Threads : HasRoom(p, t)'
<1>1. ASSUME NEW p \in Procs, NEW t \in Threads, thread'[p][t] = thread[p][t]
      PROVE  Job(p, t)' = Job(p, t)
  BY <1>1 DEF Job
<1>2. Recorded'
  <2>1. \A p \in Procs, t \in Threads : \A n, l : Recording(p, t, n, l) => Recording(p, t, n, l)'
    BY <1>1 DEF Recording
  <2> QED BY <2>1 DEF Recorded, Quotaed
<1>3. ASSUME NEW p \in Procs, NEW t \in Threads PROVE HasRoom(p, t)'
  <2>1. CASE thread'[p][t] = thread[p][t] /\ thread[p][t].jobs \in SUBSET Names
             /\ (thread[p][t].pc = "condition" => thread[p][t].jobs # {})
    <3>1. thread[p][t].pc = "condition" => Job(p, t) \in Names
      BY <2>1, FirstIsOne DEF Job
    <3> QED BY <1>1, <2>1, <3>1 DEF HasRoom
  <2> QED BY <2>1
<1> QED BY <1>2, <1>3

\* What is left of the window when a launch is added.
LEMMA OneMore ==
  ASSUME NEW S, NEW T, NEW l, NEW k \in Nat, IsFiniteSet(T), S \subseteq T, Cardinality(T) < k
  PROVE  Cardinality(S \cup {l}) <= k
<1>1. IsFiniteSet(S) /\ Cardinality(S) <= Cardinality(T)
  BY FS_Subset
<1>2. Cardinality(S) \in Nat /\ Cardinality(T) \in Nat
  BY <1>1, FS_CardinalityType
<1>3. Cardinality(S \cup {l}) = Cardinality(S) \/ Cardinality(S \cup {l}) = Cardinality(S) + 1
  BY <1>1, FS_AddElement
<1> QED BY <1>1, <1>2, <1>3

Within == \A n \in Quotaed : Cardinality(window[n] \ lost[n]) <= Quota[n]
Kept == Recorded /\ Within /\ \A p \in Procs, t \in Threads : HasRoom(p, t)
Ready == Alone /\ OneDaemon /\ Kept /\ \A q \in Procs : SerialAt(q) /\ PooledAt(q)

LEMMA JobIsName ==
  ASSUME TypeOK, NEW p \in Procs, NEW t \in Threads, thread[p][t].jobs # {}
  PROVE  Job(p, t) \in Names
<1>1. thread[p][t].jobs \in SUBSET Names
  BY DEF TypeOK, Tasks
<1> QED BY <1>1, FirstIsOne DEF Job

\* A thread that launches: nobody else is about to record a launch of the job.
LEMMA LaunchKept ==
  ASSUME TypeOK, Ready, NEW p \in Procs, NEW t \in Threads, Launch(p, t)
  PROVE  Kept'
<1> DEFINE n == Job(p, t)
           l == CHOOSE l \in Unused : TRUE
<1>1. /\ thread[p][t].pc = "condition" /\ thread[p][t].jobs # {}
      /\ mem' = mem /\ disk' = disk /\ lost' = lost
      /\ \/ n \in Quotaed /\ Unused # {} /\ GoesWith(p, t, "record", l)
            /\ window' = [window EXCEPT ![n] = @ \cup {l}]
         \/ n \notin Quotaed /\ Goes(p, t, "record") /\ window' = window
  BY DEF Launch, At
<1>2. n \in Names /\ Kept /\ window \in [Names -> SUBSET Launches]
  BY <1>1, JobIsName DEF Ready, TypeOK
<1>3. Unused # {} => l \in Launches
  BY DEF Unused
<1> HIDE DEF l
<1>4. /\ Changes(p, t) /\ thread'[p][t].pc = "record" /\ thread'[p][t].jobs = thread[p][t].jobs
      /\ n \in Quotaed => thread'[p][t].launch = l
  BY <1>1, <1>3, GoesThread, LaunchThread DEF ThreadPcs
<1>5. \A q \in Procs, u \in Threads : Job(q, u)' = Job(q, u)
  BY <1>4 DEF Job, Changes
<1>6. \A q \in Procs, u \in Threads : thread'[q][u].pc = "condition" =>
        thread[q][u].pc = "condition" /\ thread'[q][u] = thread[q][u]
  BY <1>4 DEF Changes
<1>7. \A q \in Procs, u \in Threads : HasRoom(q, u)'
  BY <1>1, <1>2, <1>5, <1>6 DEF HasRoom, Kept
<1>8. \A q \in Procs, u \in Threads : \A m, x : Recording(q, u, m, x) => Recording(q, u, m, x)'
  BY <1>1, <1>4, <1>5 DEF Recording, Changes
<1>9. CASE n \notin Quotaed
  BY <1>1, <1>2, <1>7, <1>8, <1>9 DEF Kept, Recorded, Within, Quotaed
<1>10. CASE n \in Quotaed
  <2>1. window'[n] = window[n] \cup {l} /\ \A m \in Names : m # n => window'[m] = window[m]
    BY <1>1, <1>2, <1>10
  <2>2. \A q \in Procs, u \in Threads : \A x : ~Recording(q, u, n, x)
    <3>1. ASSUME NEW q \in Procs, NEW u \in Threads, thread[q][u].pc = "record", Job(q, u) = n
          PROVE  FALSE
      BY <1>1, <3>1, OneThread DEF Ready, AtWork
    <3> QED BY <3>1 DEF Recording
  <2>3. window[n] \ lost[n] \subseteq disk[n].recent
    BY <1>2, <1>10, <2>2 DEF Kept, Recorded
  <2>4. Cardinality(disk[n].recent) < Quota[n]
    BY <1>1, <1>2, <1>10 DEF Kept, HasRoom
  <2>5. Cardinality((window[n] \ lost[n]) \cup {l}) <= Quota[n]
    BY <1>2, <2>3, <2>4, QuotaCounts, OneMore
  <2>6. (window[n] \cup {l}) \ lost[n] \subseteq (window[n] \ lost[n]) \cup {l}
    OBVIOUS
  <2>7. Cardinality((window[n] \cup {l}) \ lost[n]) <= Quota[n]
    <3>1. IsFiniteSet((window[n] \ lost[n]) \cup {l})
      <4>1. IsFiniteSet(window[n] \ lost[n])
        BY <1>2, QuotaCounts, FS_Subset
      <4> QED BY <4>1, FS_AddElement
    <3>2. /\ Cardinality((window[n] \cup {l}) \ lost[n]) <= Cardinality((window[n] \ lost[n]) \cup {l})
          /\ IsFiniteSet((window[n] \cup {l}) \ lost[n])
      BY <2>6, <3>1, FS_Subset
    <3>3. /\ Cardinality((window[n] \cup {l}) \ lost[n]) \in Nat
          /\ Cardinality((window[n] \ lost[n]) \cup {l}) \in Nat /\ Quota[n] \in Nat
      BY <1>2, <3>1, <3>2, FS_CardinalityType, QuotaCounts
    <3> QED BY <2>5, <3>2, <3>3
  <2>8. Within'
    BY <1>1, <1>2, <2>1, <2>7 DEF Within, Kept, Quotaed
  <2>9. \A m, x : m = n /\ x = l => Recording(p, t, m, x)'
    BY <1>4, <1>5, <1>10 DEF Recording
  <2>10. Recorded'
    <3> SUFFICES ASSUME NEW m \in Quotaed, NEW x \in window'[m] \ lost'[m]
                 PROVE  x \in disk'[m].recent
                        \/ \E q \in Procs, u \in Threads : Recording(q, u, m, x)'
      BY DEF Recorded, Quotaed
    <3>1. (m = n /\ x = l) \/ x \in window[m] \ lost[m]
      BY <1>1, <2>1 DEF Quotaed
    <3>2. CASE m = n /\ x = l
      BY <2>9, <3>2
    <3>3. CASE x \in window[m] \ lost[m]
      BY <1>1, <1>2, <1>8, <3>3 DEF Kept, Recorded
    <3> QED BY <3>1, <3>2, <3>3
  <2> QED BY <1>7, <2>8, <2>10 DEF Kept
<1> QED BY <1>9, <1>10

LEMMA ServesDisk ==
  ASSUME Ready, NEW p \in Procs, NEW t \in Threads, thread[p][t].pc # "idle"
  PROVE  mem[p] = disk
  BY DEF Ready, OneDaemon, Served, PooledAt, AllIdle

\* A thread that records its launch: the guards others went through are not
\* about this job.
LEMMA RecordKept ==
  ASSUME TypeOK, Ready, NEW p \in Procs, NEW t \in Threads, Record(p, t)
  PROVE  Kept'
<1> DEFINE n == Job(p, t)
<1>1. /\ thread[p][t].pc = "record" /\ thread[p][t].jobs # {} /\ GoesWith(p, t, "running", None)
      /\ window' = window /\ lost' = lost
  BY DEF Record, At, claude
<1>2. n \in Names /\ Kept /\ mem[p] = disk
  BY <1>1, JobIsName, ServesDisk DEF Ready
<1>3. Changes(p, t) /\ thread'[p][t].pc = "running"
  BY <1>1, LaunchThread DEF ThreadPcs
<1>4. /\ disk'[n].recent = IF n \in Quotaed THEN disk[n].recent \cup ({thread[p][t].launch} \cap window[n])
                           ELSE disk[n].recent
      /\ \A m \in Names : m # n => disk'[m] = disk[m]
  BY <1>2, RecordState
<1> HIDE DEF n
<1>5. \A q \in Procs, u \in Threads : q # p \/ u # t =>
        thread'[q][u] = thread[q][u] /\ Job(q, u)' = Job(q, u)
  BY <1>3 DEF Job, Changes
<1>6. \A q \in Procs, u \in Threads :
        thread[q][u].pc \in AtWork /\ Job(q, u) = n => q = p /\ u = t
  BY <1>1, OneThread DEF Ready, AtWork, n
<1>7. ASSUME NEW q \in Procs, NEW u \in Threads, thread'[q][u].pc = "condition"
      PROVE  thread'[q][u] = thread[q][u] /\ Job(q, u)' = Job(q, u) /\ Job(q, u) # n
             /\ Job(q, u) \in Names
  <2>1. q # p \/ u # t
    BY <1>3, <1>7
  <2>2. thread[q][u].pc = "condition" /\ thread[q][u].jobs # {}
    BY <1>5, <1>7, <2>1 DEF Ready, PooledAt, AtWork
  <2> QED BY <1>5, <1>6, <2>1, <2>2, JobIsName DEF AtWork
<1>8. ASSUME NEW q \in Procs, NEW u \in Threads
      PROVE  HasRoom(q, u)'
  BY <1>2, <1>4, <1>7 DEF HasRoom, Kept
<1>9. Recorded'
  <2> SUFFICES ASSUME NEW m \in Quotaed, NEW x \in window[m] \ lost[m]
               PROVE  x \in disk'[m].recent
                      \/ \E q \in Procs, u \in Threads : Recording(q, u, m, x)'
    BY <1>1 DEF Recorded, Quotaed
  <2>1. CASE x \in disk[m].recent
    BY <1>4, <2>1 DEF Quotaed
  <2>2. ASSUME NEW q \in Procs, NEW u \in Threads, Recording(q, u, m, x)
        PROVE  x \in disk'[m].recent \/ Recording(q, u, m, x)'
    <3>1. CASE q = p /\ u = t
      BY <1>4, <2>2, <3>1 DEF Recording, n
    <3>2. CASE q # p \/ u # t
      BY <1>5, <2>2, <3>2 DEF Recording
    <3> QED BY <3>1, <3>2
  <2> QED BY <1>2, <2>1, <2>2 DEF Kept, Recorded
<1> QED BY <1>1, <1>2, <1>8, <1>9 DEF Kept, Within, Quotaed

\* The other steps of a thread at its job: at most the guard's answer is new.
LEMMA GuardKept ==
  ASSUME TypeOK, Ready, NEW p \in Procs, NEW t \in Threads,
         \/ NotDue(p, t) \/ Due(p, t) \/ OverQuota(p, t) \/ WithinQuota(p, t) \/ Missing(p, t)
         \/ ConditionFails(p, t) \/ Ends(p, t)
  PROVE  Kept'
<1>1. /\ Changes(p, t) /\ thread[p][t].pc # "record" /\ thread[p][t].pc # "idle"
      /\ thread[p][t].jobs # {} /\ window' = window /\ lost' = lost
  BY AtJobShape DEF AtJob, NotDue, Due, OverQuota, WithinQuota, Missing, ConditionFails, Ends, At,
                    claude
<1>2. mem[p] = disk /\ Kept /\ Job(p, t) \in Names
  BY <1>1, ServesDisk, JobIsName DEF Ready
<1>3. \A n \in Names : disk'[n].recent = disk[n].recent
  <2>1. CASE NotDue(p, t) \/ Due(p, t) \/ WithinQuota(p, t) \/ Missing(p, t)
    BY <2>1 DEF NotDue, Due, WithinQuota, Missing
  <2>2. CASE OverQuota(p, t) \/ ConditionFails(p, t) \/ Ends(p, t)
    BY <1>1, <1>2, <2>2, SavesState DEF OverQuota, ConditionFails, Ends
  <2> QED BY <2>1, <2>2
<1>4. HasRoom(p, t)'
  <2>1. CASE WithinQuota(p, t)
    <3>1. /\ thread'[p][t].jobs = thread[p][t].jobs /\ disk' = disk
          /\ ~(Job(p, t) \in Quotaed /\ Cardinality(disk[Job(p, t)].recent) >= Quota[Job(p, t)])
      BY <1>2, <2>1, GoesThread DEF WithinQuota, UsedUp, ThreadPcs
    <3>2. Job(p, t)' = Job(p, t)
      BY <3>1 DEF Job
    <3> QED BY <1>2, <3>1, <3>2, QuotaCounts DEF HasRoom, Quotaed
  <2>2. CASE ~WithinQuota(p, t)
    <3>1. thread'[p][t].pc # "condition"
      BY <2>2, GoesThread, NextJobThread
         DEF NotDue, Due, OverQuota, Missing, ConditionFails, Ends, Saves, ThreadPcs
    <3> QED BY <3>1 DEF HasRoom
  <2> QED BY <2>1, <2>2
<1>5. \A q \in Procs, u \in Threads : q # p \/ u # t =>
        /\ thread'[q][u] = thread[q][u] /\ thread[q][u].jobs \in SUBSET Names
        /\ thread[q][u].pc = "condition" => thread[q][u].jobs # {}
  BY <1>1 DEF Changes, TypeOK, Tasks, Ready, PooledAt, AtWork
<1>6. Recorded' /\ \A q \in Procs, u \in Threads : HasRoom(q, u)'
  BY <1>1, <1>2, <1>3, <1>4, <1>5, KeptSame DEF Kept
<1> QED BY <1>1, <1>2, <1>6 DEF Kept, Within, Quotaed

\* A thread that begins or ends its task.
LEMMA TaskKept ==
  ASSUME TypeOK, Ready, NEW p \in Procs, NEW t \in Threads, Take(p, t) \/ Finish(p, t)
  PROVE  Kept'
<1>1. /\ Changes(p, t) /\ thread[p][t].pc \in {"idle", "next"}
      /\ disk' = disk /\ window' = window /\ lost' = lost
  BY TakeShape, FinishShape DEF claude
<1>2. thread'[p][t].pc # "condition"
  <2>1. CASE Take(p, t)
    <3>1. thread'[p][t] = queue[p][1] /\ 1 \in DOMAIN queue[p]
      BY <2>1, TakeShape, EmptySeq, LenProperties
    <3> QED BY <3>1 DEF Ready, PooledAt
  <2>2. CASE Finish(p, t)
    BY <2>2, FinishShape DEF Idle
  <2> QED BY <2>1, <2>2
<1>3. \A q \in Procs, u \in Threads : q # p \/ u # t =>
        /\ thread'[q][u] = thread[q][u] /\ thread[q][u].jobs \in SUBSET Names
        /\ thread[q][u].pc = "condition" => thread[q][u].jobs # {}
  BY <1>1 DEF Changes, TypeOK, Tasks, Ready, PooledAt, AtWork
<1>4. thread[p][t].pc # "record" /\ HasRoom(p, t)'
  BY <1>1, <1>2 DEF HasRoom
<1>5. Recorded' /\ \A q \in Procs, u \in Threads : HasRoom(q, u)'
  BY <1>1, <1>3, <1>4, KeptSame DEF Kept, Ready
<1> QED BY <1>1, <1>5 DEF Kept, Ready, Within, Quotaed

\* A crash: what was not recorded is lost.
LEMMA CrashKept ==
  ASSUME TypeOK, Ready, NEW p \in Procs, Crash(p)
  PROVE  Kept'
<1> DEFINE L == {thread[p][t].launch : t \in {u \in Threads : thread[p][u].pc = "record"}}
<1>1. /\ thread' = [thread EXCEPT ![p] = [t \in Threads |-> Idle]]
      /\ lost' = [n \in Names |-> lost[n] \cup (window[n] \cap L)]
      /\ disk' = disk /\ window' = window
  BY DEF Crash
<1>2. \A q \in Procs : q # p => thread'[q] = thread[q]
  BY <1>1 DEF TypeOK
<1>3. \A t \in Threads : thread'[p][t].pc = "idle"
  BY <1>1 DEF TypeOK, Idle
<1>4. \A n \in Quotaed : lost'[n] = lost[n] \cup (window[n] \cap L)
  BY <1>1 DEF Quotaed
<1> HIDE DEF L
<1>5. Recorded'
  <2> SUFFICES ASSUME NEW n \in Quotaed, NEW x \in window[n] \ lost'[n]
               PROVE  x \in disk[n].recent
                      \/ \E q \in Procs, u \in Threads : Recording(q, u, n, x)'
    BY <1>1 DEF Recorded, Quotaed
  <2>1. x \in window[n] \ lost[n] /\ x \notin L
    BY <1>4
  <2>2. ASSUME NEW q \in Procs, NEW u \in Threads, Recording(q, u, n, x)
        PROVE  Recording(q, u, n, x)'
    <3>1. q # p
      BY <2>1, <2>2 DEF Recording, L
    <3> QED BY <1>2, <2>2, <3>1 DEF Recording, Job
  <2> QED BY <2>1, <2>2 DEF Ready, Kept, Recorded
<1>6. ASSUME NEW q \in Procs, NEW u \in Threads
      PROVE  HasRoom(q, u)'
  <2>1. CASE q = p
    BY <1>3, <2>1 DEF HasRoom
  <2>2. CASE q # p
    <3>1. HasRoom(q, u) /\ thread'[q][u] = thread[q][u]
      BY <1>2, <2>2 DEF Ready, Kept
    <3>2. Job(q, u)' = Job(q, u)
      BY <3>1 DEF Job
    <3> QED BY <1>1, <3>1, <3>2 DEF HasRoom, Quotaed
  <2> QED BY <2>1, <2>2
<1>7. Within'
  <2> SUFFICES ASSUME NEW n \in Quotaed PROVE Cardinality(window[n] \ lost'[n]) <= Quota[n]
    BY <1>1 DEF Within, Quotaed
  <2>1. window[n] \ lost'[n] \subseteq window[n] \ lost[n]
    BY <1>4
  <2>2. Cardinality(window[n] \ lost[n]) <= Quota[n] /\ Quota[n] \in Nat
    BY QuotaAssumption DEF Ready, Kept, Within, Quotaed
  <2>3. IsFiniteSet(window[n] \ lost[n])
    BY QuotaCounts, FS_Subset DEF Quotaed
  <2>4. /\ Cardinality(window[n] \ lost'[n]) <= Cardinality(window[n] \ lost[n])
        /\ Cardinality(window[n] \ lost'[n]) \in Nat /\ Cardinality(window[n] \ lost[n]) \in Nat
    BY <2>1, <2>3, FS_Subset, FS_CardinalityType
  <2> QED BY <2>2, <2>4
<1> QED BY <1>5, <1>6, <1>7 DEF Kept

\* A launch that is no longer within the window of its quota.
LEMMA LeavesKept ==
  ASSUME TypeOK, Ready, NEW n \in Names, LeavesWindow(n)
  PROVE  Kept'
<1>1. PICK l \in window[n] :
        /\ disk' = Forgets(disk, n, l)
        /\ window' = [window EXCEPT ![n] = @ \ {l}] /\ lost' = [lost EXCEPT ![n] = @ \ {l}]
  BY DEF LeavesWindow
<1>2. thread' = thread
  BY DEF LeavesWindow
<1>3. /\ disk'[n].recent = disk[n].recent \ {l}
      /\ \A m \in Names : m # n => disk'[m] = disk[m]
  BY <1>1 DEF TypeOK, States, Forgets
<1>4. /\ window'[n] = window[n] \ {l} /\ lost'[n] = lost[n] \ {l}
      /\ \A m \in Names : m # n => window'[m] = window[m] /\ lost'[m] = lost[m]
  BY <1>1 DEF TypeOK
<1>5. \A q \in Procs, u \in Threads : Job(q, u)' = Job(q, u)
  BY <1>2 DEF Job
<1>6. \A m \in Names : window'[m] \ lost'[m] \subseteq window[m] \ lost[m]
  BY <1>4
<1>7. Recorded'
  <2> SUFFICES ASSUME NEW m \in Quotaed, NEW x \in window'[m] \ lost'[m]
               PROVE  x \in disk'[m].recent
                      \/ \E q \in Procs, u \in Threads : Recording(q, u, m, x)'
    BY DEF Recorded, Quotaed
  <2>1. x \in window[m] \ lost[m] /\ (m = n => x # l)
    BY <1>4 DEF Quotaed
  <2>2. x \in disk[m].recent \/ \E q \in Procs, u \in Threads : Recording(q, u, m, x)
    BY <2>1 DEF Ready, Kept, Recorded
  <2>3. x \in disk[m].recent => x \in disk'[m].recent
    BY <1>3, <2>1 DEF Quotaed
  <2>4. \A q \in Procs, u \in Threads : Recording(q, u, m, x) => Recording(q, u, m, x)'
    BY <1>2, <1>5 DEF Recording
  <2> QED BY <2>2, <2>3, <2>4
<1>8. \A m \in Names : Cardinality(disk'[m].recent) <= Cardinality(disk[m].recent)
                       /\ Cardinality(disk'[m].recent) \in Nat /\ Cardinality(disk[m].recent) \in Nat
                       /\ Quota[m] \in Nat
  <2> TAKE m \in Names
  <2>1. disk'[m].recent \in SUBSET disk[m].recent
    BY <1>3
  <2> QED BY <2>1, QuotaCounts
<1>9. ASSUME NEW q \in Procs, NEW u \in Threads
      PROVE  HasRoom(q, u)'
  <2>1. HasRoom(q, u)
    BY DEF Ready, Kept
  <2> QED BY <1>2, <1>5, <1>8, <2>1 DEF HasRoom, Quotaed
<1>10. Within'
  <2> SUFFICES ASSUME NEW m \in Quotaed PROVE Cardinality(window'[m] \ lost'[m]) <= Quota[m]
    BY DEF Within, Quotaed
  <2>1. m \in Names /\ Quota[m] \in Nat /\ Cardinality(window[m] \ lost[m]) <= Quota[m]
    BY QuotaAssumption DEF Ready, Kept, Within, Quotaed
  <2>2. IsFiniteSet(window[m] \ lost[m])
    BY <2>1, QuotaCounts, FS_Subset
  <2>3. /\ Cardinality(window'[m] \ lost'[m]) <= Cardinality(window[m] \ lost[m])
        /\ Cardinality(window'[m] \ lost'[m]) \in Nat /\ Cardinality(window[m] \ lost[m]) \in Nat
    BY <1>6, <2>1, <2>2, FS_Subset, FS_CardinalityType
  <2> QED BY <2>1, <2>3
<1> QED BY <1>7, <1>9, <1>10 DEF Kept

\* No launch, no record and no thread at all: the rest.
LEMMA RestKept ==
  ASSUME TypeOK, Ready, thread' = thread, window' = window, lost' = lost,
         \A n \in Names : disk'[n].recent = disk[n].recent
  PROVE  Kept'
<1>1. \A q \in Procs, u \in Threads :
        /\ thread'[q][u] = thread[q][u] /\ thread[q][u].jobs \in SUBSET Names
        /\ thread[q][u].pc = "condition" => thread[q][u].jobs # {}
  BY DEF TypeOK, Tasks, Ready, PooledAt, AtWork
<1>2. Recorded' /\ \A q \in Procs, u \in Threads : HasRoom(q, u)'
  BY <1>1, KeptSame DEF Kept, Ready
<1> QED BY <1>2 DEF Kept, Ready, Within, Quotaed

LEMMA KeptNext ==
  ASSUME Typed, Ready, [Next]_vars
  PROVE  Kept'
<1>0. TypeOK
  BY DEF Typed
<1>1. ASSUME NEW p \in Procs,
             \/ CheckPid(p) \/ StartDaemon(p) \/ MainStep(p) \/ Stop(p) \/ Drained(p)
             \/ Once(p) \/ OnceEnds(p)
      PROVE  Kept'
  <2>1. thread' = thread /\ window' = window /\ lost' = lost /\ (disk' = disk \/ StartDaemon(p))
    BY <1>1 DEF CheckPid, StartDaemon, MainStep, ReadBase, ReadJobsD, Dispatch, Stop, Drained,
                Once, OnceEnds, pool, claude
  <2>2. disk' = disk
    BY <1>0, <2>1, LoadsState DEF StartDaemon, Ready, Alone
  <2> QED BY <1>0, <2>1, <2>2, RestKept
<1>2. ASSUME NEW p \in Procs, Crash(p)
      PROVE  Kept'
  BY <1>0, <1>2, CrashKept
<1>3. ASSUME NEW p \in Procs, NEW t \in Threads, OnceRuns(p, t) \/ ThreadStep(p, t)
      PROVE  Kept'
  <2>1. ~OnceRuns(p, t)
    BY DEF Ready, OnceRuns, OneDaemon, Served, OncePcs
  <2> QED BY <1>0, <1>3, <2>1, TaskKept, GuardKept, LaunchKept, RecordKept DEF ThreadStep
<1>4. ASSUME NEW n \in Names, IntervalPasses(n)
      PROVE  Kept'
  <2>1. thread' = thread /\ window' = window /\ lost' = lost /\ disk' = Stale(disk, n)
    BY <1>4 DEF IntervalPasses, claude
  <2>2. \A m \in Names : disk'[m].recent = disk[m].recent
    BY <1>0, <2>1 DEF TypeOK, States, Stale
  <2> QED BY <1>0, <2>1, <2>2, RestKept
<1>5. CASE ToolStep \/ UNCHANGED vars
  <2>1. disk' = disk /\ thread' = thread /\ window' = window /\ lost' = lost
    BY <1>5, ToolOutside DEF OutsideFiles, vars, pool, claude
  <2> QED BY <1>0, <2>1, RestKept
<1> QED BY <1>0, <1>1, <1>2, <1>3, <1>4, <1>5, LeavesKept DEF Next

-----------------------------------------------------------------------------
(* The inductive invariant.                                                *)

LEMMA QuotaNow ==
  /\ QuotaHolds <=> (Alone => Within)
  /\ LaunchesKept /\ QuotaHolds <=> (Alone => Kept)
  BY DEF QuotaHolds, Alone, Within, LaunchesKept, Kept

LEMMA QuotaThen == (LaunchesKept /\ QuotaHolds <=> (Alone => Kept))'
  BY QuotaNow, PTL

LEMMA InvInit == Init => IInv
<1> SUFFICES ASSUME Init PROVE IInv
  OBVIOUS
<1> USE DEF Init
<1>1. TypeOK
  BY TypeInit
<1>2. Typed
  BY <1>1 DEF Typed
<1>3. \A p \in Procs : /\ main[p] = Gone /\ queue[p] = <<>> /\ inflight[p] = {}
                       /\ \A t \in Threads : thread[p][t] = Idle
  OBVIOUS
<1>4. \A p \in Procs : DOMAIN queue[p] = {} /\ Busy(p) = {}
  BY <1>3, EmptySeq DEF Busy, Idle
<1>5. \A p \in Procs : PooledAt(p) /\ SerialAt(p)
  <2>1. \A p \in Procs : PooledAt(p)
    BY <1>3, <1>4 DEF PooledAt, AllIdle, AtWork, Idle
  <2>2. \A p \in Procs : SerialAt(p)
    BY <1>3, <1>4 DEF SerialAt
  <2> QED BY <2>1, <2>2
<1>6. Pooled /\ GroupSerial
  BY <1>1, <1>5, PooledMeans, SerialNow
<1>7. FilesKept /\ NoJobVanishes
  <2>1. FilesSide
    BY DEF FilesSide, BothFiles, Reads
  <2>2. \A p \in Procs : ReaderSide(p)
    BY <1>3 DEF ReaderSide, Gone
  <2> QED BY <2>1, <2>2, SeesNow DEF EachSees
<1>8. OneDaemon
  <2>1. Lone
    BY <1>3 DEF Lone, Off, Gone
  <2>2. \A p \in Procs : Served(p)
    BY <1>3, ProcsAssumption DEF Served, Gone, OncePcs, Before
  <2>3. \A p \in Procs : Grouped(p)
    BY <1>3, <1>4, GoneGrouped DEF Grouped, Idle
  <2> QED BY <2>1, <2>2, <2>3 DEF OneDaemon
<1>9. LaunchesKept /\ QuotaHolds
  <2>1. \A n \in Quotaed : window[n] = {} /\ window[n] \ lost[n] = {} /\ Quota[n] \in Nat
    BY QuotaAssumption DEF Quotaed
  <2>2. Recorded
    BY <2>1 DEF Recorded
  <2>3. Within
    <3>1. Cardinality({}) = 0
      BY FS_EmptySet
    <3> SUFFICES ASSUME NEW n \in Quotaed PROVE Cardinality(window[n] \ lost[n]) <= Quota[n]
      BY DEF Within
    <3>2. window[n] \ lost[n] = {} /\ Quota[n] \in Nat
      BY <2>1
    <3>3. Cardinality(window[n] \ lost[n]) = 0
      BY <3>1, <3>2
    <3> QED BY <3>2, <3>3
  <2>4. \A p \in Procs, t \in Threads : HasRoom(p, t)
    BY <1>3 DEF HasRoom, Idle
  <2> QED BY <2>2, <2>3, <2>4, QuotaNow DEF Kept
<1> QED BY <1>2, <1>6, <1>7, <1>8, <1>9 DEF IInv

LEMMA InvNext == IInv /\ [Next]_vars => IInv'
<1> SUFFICES ASSUME IInv, [Next]_vars PROVE IInv'
  OBVIOUS
<1> USE DEF IInv
<1>1. Typed'
  BY TypedNext
<1>2. Pooled' /\ GroupSerial'
  BY PoolNext
<1>3. FilesKept' /\ NoJobVanishes'
  BY SeesNow, SeesNext, SeesThen
<1>4. OneDaemon'
  BY OneNext
<1>5. LaunchesKept' /\ QuotaHolds'
  <2>1. Alone' = Alone
    BY EnvStays DEF Alone
  <2>2. Alone => Ready
    BY QuotaNow, SerialNow, PooledMeans DEF Ready, Typed
  <2>3. Alone' => Kept'
    BY <2>1, <2>2, KeptNext
  <2> QED BY <2>3, QuotaThen
<1> QED BY <1>1, <1>2, <1>3, <1>4, <1>5

\* What the properties rest on, of every reachable state.
THEOREM InvCorrect == Spec => []IInv
  BY InvInit, InvNext, PTL DEF Spec

\* What is stored of a job are launches with a time, and tasks and groups in
\* flight are those of the job files (core.py: run_job, _record_quota_run).
THEOREM TypeCorrect == Spec => []TypeOK
<1>1. IInv => TypeOK
  BY DEF IInv, Typed
<1> QED BY <1>1, InvCorrect, PTL

\* Within one daemon a group never runs twice at the same time, and _inflight
\* holds the groups that wait or run, no other (core.py: _dispatch_due_groups
\* and the finally of _run_slug_group).
THEOREM SerialCorrect == Spec => []GroupSerial
<1>1. IInv => GroupSerial
  BY DEF IInv
<1> QED BY <1>1, InvCorrect, PTL

\* max_per: a job is launched at most so often within its window, but for the
\* launches a crash came in before the save of (core.py: _quota_exceeded and
\* _record_quota_run in run_job).
THEOREM QuotaCorrect == Spec => []QuotaHolds
<1>1. IInv => QuotaHolds
  BY DEF IInv
<1> QED BY <1>1, InvCorrect, PTL

\* A migration never hides a job from a cycle, wherever its steps fall between
\* the two reads and wherever it dies (cli.py: cmd_migrate; core.py:
\* parse_heartbeat_md).
THEOREM VanishCorrect == Spec => []NoJobVanishes
<1>1. IInv => NoJobVanishes
  BY DEF IInv
<1> QED BY <1>1, InvCorrect, PTL
=============================================================================
