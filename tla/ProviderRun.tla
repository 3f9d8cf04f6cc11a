---------------------------- MODULE ProviderRun ----------------------------
(***************************************************************************)
(* One provider process, the thread that supervises it, and the readers    *)
(* of the event file it leaves.                                            *)
(*                                                                         *)
(* CliProvider.start spawns the provider CLI, hands it the prompt and      *)
(* leaves it to a supervising thread.  Two reader threads put the lines of *)
(* its pipes into a queue, each ending with a marker; the supervisor takes *)
(* lines, appends normalized events to the run's file, and terminates the  *)
(* process tree when somebody cancels or the deadline passes.  After the   *)
(* tree ended it judges the run, appends the terminal event, closes the    *)
(* file and publishes the result.                                          *)
(*                                                                         *)
(* Beside it reconcilers copy the file into the store by offset and decide *)
(* from the process and the last event how the run ended: the worker that  *)
(* supervises the run while it lives, ticks and state reads afterwards.    *)
(*                                                                         *)
(* A pipe and its reader thread are one FIFO here.  Times are choices: a   *)
(* grace period or a waiting time may end at any moment.                   *)
(***************************************************************************)
EXTENDS Integers, FiniteSets, Sequences, SequencesExt

CONSTANTS
  Lines,       \* what a provider may write, see LineKinds
  ChildTraits, \* the sets of traits a descendant may have, see TraitKinds
  Clients,     \* callers of cancel_run and conclude_run
  Worker,      \* the reconciler inside the supervising process
  Others,      \* reconcilers of other processes
  MaxLines,    \* bound: lines a provider writes
  MaxTable,    \* bound: rows of the events table
  Envs,        \* the environments to look at, see EnvKinds
  None

LineKinds == {"progress", "failed", "limited", "completed", "junk"}
TraitKinds == {"deaf",      \* it ignores SIGTERM
               "detached",  \* it left the process group
               "quiet"}     \* it does not hold the pipes of the provider
\* An environment is what may happen beside the run itself.
EnvKinds == {"refuse",      \* the provider is not ready, cannot be spawned, does not read
             "talks",       \* it writes lines
             "deaf",        \* the provider may ignore SIGTERM
             "family",      \* it starts a descendant
             "deadline",    \* the request has a timeout
             "callers",     \* cancel_run and conclude_run are called
             "readers",     \* the row is reconciled
             "workerdies",  \* the supervising process may die
             "readerdies"}  \* a reconciler may die between two calls of the store

ASSUME LinesAssumption == Lines \subseteq LineKinds
ASSUME TraitsAssumption == ChildTraits \subseteq SUBSET TraitKinds
ASSUME EnvAssumption == Envs \subseteq SUBSET EnvKinds
ASSUME BoundsAssumption == MaxLines \in Nat /\ MaxTable \in Nat
ASSUME ReadersAssumption == Worker \notin Others
ASSUME NoneAssumption ==
  None \notin {"started", "progress", "completed", "cancelled", "timed_out", "failed",
               "success", "usage_limited", "off_contract", "prompt"}

VARIABLES
  env,        \* the environment, one of Envs
  tree,       \* the processes of the run: not there, live or dead
  deaf,       \* those that ignore SIGTERM
  traits,     \* what the descendant does differently
  signalled,  \* those a SIGTERM was sent to
  code,       \* exit code of the provider
  written,    \* lines written so far
  lines,      \* the queue between the reader threads and the supervisor
  ended,      \* reader threads that have ended
  worker,     \* the supervising process
  started,    \* how far CliProvider.start has come
  sup,        \* the supervisor: step, reason to kill, processes it saw, what it knows
  cancelled,  \* the cancel flag of the run
  expired,    \* whether the deadline has passed
  file,       \* complete events in the event file
  writing,    \* the event of which only a part is in the file
  closed,     \* whether the supervisor closed the file
  result,     \* the published result
  registered, \* whether the provider object still knows the run
  client,     \* callers
  row,        \* state and offset in the run's row
  table,      \* events of the run in the events table, by position in the file
  reader      \* reconcilers

process == <<tree, deaf, traits, signalled, code, written, lines, ended>>
supervision == <<sup, file, writing, closed, result>>
store == <<row, table>>
vars == <<env, process, worker, started, supervision, cancelled, expired,
          registered, client, store, reader>>

Procs == {"root", "child"}
Live == {p \in Procs : tree[p] = "live"}
Holders == {p \in Live : p = "root" \/ "quiet" \notin traits}
Group == {p \in Live : p = "root" \/ "detached" \notin traits}
Readers == {Worker} \cup Others

\* The kinds of events, and what a normalized line becomes.
Kinds == {"started", "progress", "failed", "completed", "cancelled", "timed_out"}
NormalizeLine(line) == IF line = "limited" THEN "failed" ELSE line
TerminalKinds == {"failed", "completed", "cancelled", "timed_out"}
Statuses == {"success", "failed", "usage_limited", "off_contract", "cancelled", "timed_out"}
TerminalKind(status) ==
  CASE status = "success" -> "completed"
    [] status \in {"cancelled", "timed_out"} -> status
    [] OTHER -> "failed"

NoSupervisor == [pc |-> "none", why |-> None, family |-> {}, stopped |-> TRUE,
                 streams |-> 0, observed |-> None, understood |-> FALSE,
                 strange |-> FALSE, status |-> None]
IdleReader == [pc |-> "idle", offset |-> 0, gone |-> FALSE, settled |-> FALSE,
               upto |-> 0, last |-> None]
IdleClient == [pc |-> "idle", stopped |-> FALSE, confirmed |-> FALSE]

Init ==
  /\ env \in Envs
  /\ tree = [p \in Procs |-> "none"]
  /\ deaf = {} /\ traits = {} /\ signalled = {} /\ code = 0
  /\ written = 0 /\ lines = <<>> /\ ended = 0
  /\ worker = "live" /\ started = "no"
  /\ sup = NoSupervisor /\ cancelled = FALSE /\ expired = FALSE
  /\ file = <<>> /\ writing = None /\ closed = FALSE /\ result = None
  /\ registered = FALSE /\ client = [c \in Clients |-> IdleClient]
  /\ row = [state |-> "reserved", offset |-> 0, settled |-> FALSE]
  /\ table = <<>>
  /\ reader = [r \in Readers |-> IdleReader]

-----------------------------------------------------------------------------
(* The provider and a descendant of it.                                    *)

\* The provider starts a descendant, a language server or a shell.
SpawnChild ==
  /\ "family" \in env /\ tree["root"] = "live" /\ tree["child"] = "none"
  /\ \E t \in ChildTraits :
       /\ traits' = t
       /\ deaf' = IF "deaf" \in t THEN deaf \cup {"child"} ELSE deaf
  /\ tree' = [tree EXCEPT !["child"] = "live"]
  /\ UNCHANGED <<env, signalled, code, written, lines, ended, worker, started, supervision,
                 cancelled, expired, registered, client, store, reader>>

\* A process that holds the pipe writes a line and its reader thread queues it.
WriteLine ==
  /\ "talks" \in env /\ worker = "live" /\ Holders # {} /\ written < MaxLines
  /\ \E line \in Lines : lines' = Append(lines, line)
  /\ written' = written + 1
  /\ UNCHANGED <<env, tree, deaf, traits, signalled, code, ended, worker, started, supervision,
                 cancelled, expired, registered, client, store, reader>>

\* A process ends, by itself or because of a SIGTERM it obeys.
Exits(p) ==
  /\ p \in Live
  /\ tree' = [tree EXCEPT ![p] = "dead"]
  /\ IF p = "root" THEN code' \in {0, 1} ELSE UNCHANGED code
  /\ UNCHANGED <<env, deaf, traits, signalled, written, lines, ended, worker, started,
                 supervision, cancelled, expired, registered, client, store, reader>>

Obeys(p) == p \in signalled \ deaf /\ Exits(p)

\* The last holder of a pipe is gone: its reader thread puts the end marker.
ReaderThreadEnds ==
  /\ worker = "live" /\ started = "running" /\ file # <<>>
  /\ tree["root"] = "dead" /\ Holders = {} /\ ended < 2
  /\ ended' = ended + 1
  /\ lines' = Append(lines, "end")
  /\ UNCHANGED <<env, tree, deaf, traits, signalled, code, written, worker, started, supervision,
                 cancelled, expired, registered, client, store, reader>>

-----------------------------------------------------------------------------
(* CliProvider.start                                                       *)

\* Executable, version, billing route and login are looked at first.
Diagnose ==
  /\ worker = "live" /\ started = "no"
  /\ started' \in IF "refuse" \in env THEN {"ready", "failed"} ELSE {"ready"}
  /\ UNCHANGED <<env, process, worker, supervision, cancelled, expired, registered, client,
                 store, reader>>

Spawn ==
  /\ worker = "live" /\ started = "ready"
  /\ \/ /\ started' = "spawned"
        /\ tree' = [tree EXCEPT !["root"] = "live"]
        /\ deaf' \in IF "deaf" \in env THEN {{}, {"root"}} ELSE {{}}
     \/ /\ "refuse" \in env
        /\ started' = "failed"
        /\ UNCHANGED <<tree, deaf>>
  /\ UNCHANGED <<env, traits, signalled, code, written, lines, ended, worker, supervision,
                 cancelled, expired, registered, client, store, reader>>

(* Seeded fault: the provider that did not read its prompt is left alone. *)
DeliverPromptOnly ==
  /\ worker = "live" /\ started = "spawned"
  /\ \/ /\ started' = "running"
        /\ registered' = TRUE
        /\ writing' = "started"
        /\ sup' = [sup EXCEPT !.pc = "write"]
     \/ /\ "refuse" \in env
        /\ started' = "failed"
        /\ UNCHANGED <<registered, writing, sup>>
  /\ UNCHANGED <<env, process, worker, file, closed, result, cancelled, expired, client, store,
                 reader>>

\* The prompt goes to stdin.  When it does not arrive the tree is terminated;
\* when it does the run is registered and its first event begins to be written.
DeliverPrompt ==
  /\ worker = "live" /\ started = "spawned"
  /\ \/ /\ started' = "running"
        /\ registered' = TRUE
        /\ writing' = "started"
        /\ sup' = [sup EXCEPT !.pc = "write"]
     \/ /\ "refuse" \in env
        /\ started' = "undelivered"
        /\ sup' = [sup EXCEPT !.pc = "signal", !.why = "prompt"]
        /\ UNCHANGED <<registered, writing>>
  /\ UNCHANGED <<env, process, worker, file, closed, result, cancelled, expired, client, store,
                 reader>>

\* start waits for the terminated provider before it reports the failure.
Reap ==
  /\ worker = "live" /\ sup.pc = "reap" /\ tree["root"] = "dead"
  /\ started' = "failed"
  /\ sup' = [sup EXCEPT !.pc = "none"]
  /\ UNCHANGED <<env, process, worker, file, writing, closed, result, cancelled, expired,
                 registered, client, store, reader>>

\* The row gets the handle, or the failure.
HandOver ==
  /\ worker = "live" /\ row.state = "reserved"
  /\ \/ /\ started = "running" /\ file # <<>>
        /\ row' = [row EXCEPT !.state = "running"]
     \/ /\ started = "failed"
        /\ row' = [row EXCEPT !.state = "failed"]
  /\ UNCHANGED <<env, process, worker, started, supervision, cancelled, expired, registered,
                 client, table, reader>>

-----------------------------------------------------------------------------
(* The supervising thread                                                  *)

Supervises(pc) == worker = "live" /\ sup.pc = pc
Supervised == UNCHANGED <<env, worker, started, cancelled, expired, registered, client, store, reader>>

\* The rest of a line reaches the file.
Flush ==
  /\ Supervises("write")
  /\ file' = Append(file, writing) /\ writing' = None
  /\ sup' = [sup EXCEPT !.pc = IF sup.status = None THEN "check" ELSE "close"]
  /\ Supervised /\ UNCHANGED <<process, closed, result>>

\* One round of the loop: leave it, terminate the tree, or wait for a line.
Check ==
  /\ Supervises("check")
  /\ \/ /\ tree["root"] = "dead" /\ sup.streams = 2
        /\ sup' = [sup EXCEPT !.pc = "judge"]
     \/ /\ tree["root"] = "live" /\ cancelled
        /\ sup' = [sup EXCEPT !.pc = "signal", !.why = "cancelled"]
     \/ /\ tree["root"] = "live" /\ expired /\ ~cancelled
        /\ sup' = [sup EXCEPT !.pc = "signal", !.why = "timed_out"]
     \/ /\ IF tree["root"] = "live" THEN ~cancelled /\ ~expired ELSE sup.streams < 2
        /\ sup' = [sup EXCEPT !.pc = "get"]
  /\ Supervised /\ UNCHANGED <<process, file, writing, closed, result>>

\* What a line changes: junk is only remembered, the rest becomes an event.
Consume(line) ==
  IF line = "junk"
  THEN /\ sup' = [sup EXCEPT !.pc = "check", !.strange = TRUE]
       /\ UNCHANGED writing
  ELSE /\ sup' = [sup EXCEPT !.pc = "write", !.understood = TRUE,
                    !.observed = CASE line = "failed" -> "failed"
                                   [] line = "limited" -> "usage_limited"
                                   [] OTHER -> @]
       /\ writing' = NormalizeLine(line)

GetLine ==
  /\ Supervises("get")
  /\ \/ /\ lines = <<>>
        /\ sup' = [sup EXCEPT !.pc = "check"]
        /\ UNCHANGED <<lines, writing>>
     \/ /\ lines # <<>>
        /\ lines' = Tail(lines)
        /\ IF Head(lines) = "end"
           THEN /\ sup' = [sup EXCEPT !.pc = "check", !.streams = @ + 1]
                /\ UNCHANGED writing
           ELSE Consume(Head(lines))
  /\ Supervised
  /\ UNCHANGED <<tree, deaf, traits, signalled, code, written, ended, file, closed, result>>

\* Where terminate_process_tree returns to.
Terminated(stopped) ==
  [sup EXCEPT !.stopped = stopped, !.pc = IF sup.why = "prompt" THEN "reap" ELSE "get"]

\* SIGTERM to the group, unless the provider has ended by itself.
Signal ==
  /\ Supervises("signal")
  /\ IF tree["root"] = "dead"
     THEN sup' = Terminated(TRUE) /\ UNCHANGED signalled
     ELSE sup' = [sup EXCEPT !.pc = "family"] /\ signalled' = signalled \cup Group
  /\ Supervised
  /\ UNCHANGED <<tree, deaf, traits, code, written, lines, ended, file, writing, closed, result>>

\* The descendants of a provider that is still there get one of their own.
FindFamily ==
  /\ Supervises("family")
  /\ LET family == IF tree["root"] = "live" THEN Live \ {"root"} ELSE {} IN
       /\ sup' = [sup EXCEPT !.pc = "grace", !.family = family]
       /\ signalled' = signalled \cup family
  /\ Supervised
  /\ UNCHANGED <<tree, deaf, traits, code, written, lines, ended, file, writing, closed, result>>

(* Seeded fault: nobody is killed after the grace period. *)
GraceWithoutKill ==
  /\ Supervises("grace")
  /\ sup' = [sup EXCEPT !.pc = "settle"]
  /\ Supervised /\ UNCHANGED <<process, file, writing, closed, result>>

\* The provider ends within the grace period, or group and family are killed.
Grace ==
  /\ Supervises("grace")
  /\ sup' = [sup EXCEPT !.pc = "settle"]
  /\ \/ tree["root"] = "dead" /\ UNCHANGED <<tree, code>>
     \/ /\ tree["root"] = "live"
        /\ tree' = [p \in Procs |->
                      IF p \in Group \cup (sup.family \cap Live) THEN "dead" ELSE tree[p]]
        /\ code' = 1
  /\ Supervised
  /\ UNCHANGED <<deaf, traits, signalled, written, lines, ended, file, writing, closed, result>>

(* Seeded fault: a provider that is gone is taken for the whole tree. *)
SettleOnRoot ==
  /\ Supervises("settle")
  /\ sup' = Terminated(tree["root"] = "dead")
  /\ Supervised /\ UNCHANGED <<process, file, writing, closed, result>>

\* Everybody is gone, or the second grace period is over.
Settle ==
  /\ Supervises("settle")
  /\ sup' = Terminated(tree["root"] = "dead" /\ sup.family \cap Live = {})
  /\ Supervised /\ UNCHANGED <<process, file, writing, closed, result>>

\* The order of the verdicts of _supervise.
Verdict ==
  CASE sup.why # None -> sup.why
    [] sup.observed # None -> sup.observed
    [] code # 0 -> "failed"
    [] sup.strange /\ ~sup.understood -> "off_contract"
    [] OTHER -> "success"

(* Seeded fault: an earlier event of the kind stands in for the terminal one. *)
JudgeByAnyEvent ==
  /\ Supervises("judge")
  /\ LET kind == TerminalKind(Verdict)
         known == kind \in ToSet(file) IN
       /\ writing' = IF known THEN None ELSE kind
       /\ sup' = [sup EXCEPT !.status = Verdict, !.pc = IF known THEN "close" ELSE "write"]
  /\ Supervised /\ UNCHANGED <<process, file, closed, result>>

\* The terminal event is appended unless the provider's last one was that.
Judge ==
  /\ Supervises("judge")
  /\ LET kind == TerminalKind(Verdict)
         known == Last(file) = kind IN
       /\ writing' = IF known THEN None ELSE kind
       /\ sup' = [sup EXCEPT !.status = Verdict, !.pc = IF known THEN "close" ELSE "write"]
  /\ Supervised /\ UNCHANGED <<process, file, closed, result>>

CloseFile ==
  /\ Supervises("close")
  /\ closed' = TRUE
  /\ sup' = [sup EXCEPT !.pc = "publish"]
  /\ Supervised /\ UNCHANGED <<process, file, writing, result>>

PublishResult ==
  /\ Supervises("publish")
  /\ result' = sup.status
  /\ sup' = [sup EXCEPT !.pc = "done"]
  /\ Supervised /\ UNCHANGED <<process, file, writing, closed>>

Supervise ==
  \/ Flush \/ Check \/ GetLine \/ Signal \/ FindFamily \/ Grace \/ Settle
  \/ Judge \/ CloseFile \/ PublishResult \/ Reap

Start == Diagnose \/ Spawn \/ DeliverPrompt \/ HandOver

-----------------------------------------------------------------------------
(* Callers of cancel_run and conclude_run, inside the supervising process. *)

IsTerminal(kinds) == kinds # <<>> /\ Last(kinds) \in TerminalKinds
CallerStep == UNCHANGED <<env, process, worker, started, supervision, expired, store, reader>>

\* cancel sets the flag and waits; a run nobody knows is reported as it looks.
Cancel(c) ==
  /\ worker = "live" /\ client[c].pc = "idle" /\ started = "running" /\ row.state # "reserved"
  /\ IF registered
     THEN /\ cancelled' = TRUE
          /\ client' = [client EXCEPT ![c].pc = "asked"]
     ELSE /\ client' = [client EXCEPT ![c].pc = "unknown"]
          /\ UNCHANGED cancelled
  /\ UNCHANGED registered /\ CallerStep

\* The run has finished, or ten seconds are over.
Confirm(c) ==
  /\ worker = "live" /\ client[c].pc = "asked"
  /\ LET stopped == result # None /\ sup.stopped /\ tree["root"] = "dead" IN
       client' = [client EXCEPT ![c] = [pc |-> "join", stopped |-> stopped,
                                        confirmed |-> stopped /\ closed]]
  /\ UNCHANGED <<cancelled, registered>> /\ CallerStep

\* conclude_run starts here, cancel_run comes here after the cancellation.
Join(c) ==
  /\ worker = "live"
  /\ \/ client[c].pc = "join"
     \/ client[c].pc = "idle" /\ started = "running" /\ row.state # "reserved"
  /\ client' = [client EXCEPT ![c].pc = IF registered THEN "wait" ELSE "error"]
  /\ UNCHANGED <<cancelled, registered>> /\ CallerStep

\* wait returns the result and forgets the run.
Conclude(c) ==
  /\ worker = "live" /\ client[c].pc = "wait" /\ result # None
  /\ registered' = FALSE
  /\ client' = [client EXCEPT ![c].pc = "done"]
  /\ UNCHANGED cancelled /\ CallerStep

Call(c) == Cancel(c) \/ Confirm(c) \/ Join(c) \/ Conclude(c)

-----------------------------------------------------------------------------
(* Reconcilers: reconcile_run from the moment it has the row to itself.    *)

TerminalByEvent(kind) ==
  CASE kind = "completed" -> "succeeded"
    [] kind = "cancelled" -> "cancelled"
    [] OTHER -> "failed"

ReconcilerStep ==
  UNCHANGED <<env, process, worker, started, supervision, cancelled, expired, registered, client>>
Becomes(r, next) == reader' = [reader EXCEPT ![r] = next]

(* Seeded fault: a run is left to its worker, dead or alive. *)
ReadOwnRow(r) ==
  /\ reader[r].pc = "idle" /\ row.state = "running" /\ r = Worker /\ worker = "live"
  /\ Becomes(r, [IdleReader EXCEPT !.pc = "observe", !.offset = row.offset])
  /\ ReconcilerStep /\ UNCHANGED store

\* The worker reads its row; anybody else only when the worker is gone.
ReadRow(r) ==
  /\ reader[r].pc = "idle" /\ row.state = "running"
  /\ worker = IF r = Worker THEN "live" ELSE "dead"
  /\ Becomes(r, [IdleReader EXCEPT !.pc = "observe", !.offset = row.offset])
  /\ ReconcilerStep /\ UNCHANGED store

\* recover_run: is the process of the handle still there?  The file is final
\* once the result is out or the supervising process is gone.
RecoverRun(r) ==
  /\ reader[r].pc = "observe"
  /\ Becomes(r, [reader[r] EXCEPT !.pc = "watch", !.gone = tree["root"] = "dead",
                                  !.settled = result # None \/ worker = "dead"])
  /\ ReconcilerStep /\ UNCHANGED store

(* Seeded fault: the partial line at the end is taken for a complete one. *)
WatchPartial(r) ==
  /\ reader[r].pc = "watch"
  /\ Becomes(r, [reader[r] EXCEPT !.pc = "append",
                                  !.upto = Len(file) + (IF writing = None THEN 0 ELSE 1)])
  /\ ReconcilerStep /\ UNCHANGED store

(* Seeded fault: the file of a provider that is gone is not read again. *)
WatchWhileRunning(r) ==
  /\ reader[r].pc = "watch"
  /\ Becomes(r, [reader[r] EXCEPT !.pc = "append",
                                  !.upto = IF reader[r].gone THEN reader[r].offset ELSE Len(file)])
  /\ ReconcilerStep /\ UNCHANGED store

\* watch returns what lies between the offset and the last complete line.
Watch(r) ==
  /\ reader[r].pc = "watch"
  /\ Becomes(r, [reader[r] EXCEPT !.pc = "append", !.upto = Len(file)])
  /\ ReconcilerStep /\ UNCHANGED store

\* The events of the batch are stored before the row that says so.
AppendEvents(r) ==
  LET batch == [i \in 1..reader[r].upto - reader[r].offset |-> reader[r].offset + i] IN
  /\ reader[r].pc = "append"
  /\ Len(table) + Len(batch) <= MaxTable
  /\ table' = table \o batch
  /\ Becomes(r, [reader[r] EXCEPT !.pc = IF reader[r].gone THEN "last" ELSE "save"])
  /\ ReconcilerStep /\ UNCHANGED row

LastEvent(r) ==
  /\ reader[r].pc = "last"
  /\ Becomes(r, [reader[r] EXCEPT !.pc = "save",
                                  !.last = IF file = <<>> THEN None ELSE Last(file)])
  /\ ReconcilerStep /\ UNCHANGED store

(* Seeded fault: the stored offset is where the file ends by now. *)
SaveRowAtEnd(r) ==
  /\ reader[r].pc = "save"
  /\ row' = [state |-> IF reader[r].gone THEN TerminalByEvent(reader[r].last) ELSE "running",
             offset |-> Len(file), settled |-> reader[r].settled]
  /\ Becomes(r, IdleReader)
  /\ ReconcilerStep /\ UNCHANGED table

\* The whole row is written: the state it was judged to and the new offset.
SaveRow(r) ==
  /\ reader[r].pc = "save"
  /\ row' = [state |-> IF reader[r].gone THEN TerminalByEvent(reader[r].last) ELSE "running",
             offset |-> reader[r].upto, settled |-> reader[r].settled]
  /\ Becomes(r, IdleReader)
  /\ ReconcilerStep /\ UNCHANGED table

Reconcile(r) ==
  ReadRow(r) \/ RecoverRun(r) \/ Watch(r) \/ AppendEvents(r) \/ LastEvent(r) \/ SaveRow(r)

-----------------------------------------------------------------------------
(* The environment.                                                        *)

DeadlinePasses ==
  /\ "deadline" \in env /\ started = "running" /\ ~expired
  /\ expired' = TRUE
  /\ UNCHANGED <<env, process, worker, started, supervision, cancelled, registered, client,
                 store, reader>>

\* Supervisor, reader threads, callers and the worker's own reconciler end
\* together: the worker dies, or serve_queued_run returns because its row is no
\* longer active.  A provider has its own session and lives on.
WorkerEnds ==
  /\ worker = "live"
  /\ \/ "workerdies" \in env
     \/ "readers" \in env /\ row.state \notin {"reserved", "running"} /\ reader[Worker].pc = "idle"
  /\ worker' = "dead"
  /\ lines' = <<>> /\ registered' = FALSE /\ cancelled' = FALSE
  /\ sup' = NoSupervisor
  /\ client' = [c \in Clients |-> IdleClient]
  /\ Becomes(Worker, IdleReader)
  /\ UNCHANGED <<env, tree, deaf, traits, signalled, code, written, ended, started, file,
                 writing, closed, result, expired, store>>

ReaderDies(r) ==
  /\ "readerdies" \in env /\ reader[r].pc # "idle"
  /\ Becomes(r, IdleReader)
  /\ ReconcilerStep /\ UNCHANGED store

Environment ==
  \/ SpawnChild \/ WriteLine \/ (\E p \in Procs : Exits(p)) \/ ReaderThreadEnds
  \/ DeadlinePasses \/ WorkerEnds \/ (\E r \in Others : ReaderDies(r))

Next ==
  \/ Start \/ Supervise \/ Environment
  \/ "callers" \in env /\ \E c \in Clients : Call(c)
  \/ "readers" \in env /\ \E r \in Readers : Reconcile(r)

Spec == Init /\ [][Next]_vars

\* Threads run, pipes close, an obeyed signal ends its process, a descendant
\* ends in the end.  The provider itself need not.
Fairness ==
  /\ WF_vars(Supervise) /\ WF_vars(ReaderThreadEnds)
  /\ WF_vars(Start)
  /\ WF_vars(Obeys("root")) /\ WF_vars(Exits("child"))
  /\ \A r \in Readers : WF_vars("readers" \in env /\ Reconcile(r))

-----------------------------------------------------------------------------
(* Properties.                                                             *)

SupervisorPc == {"none", "write", "check", "get", "signal", "family", "grace", "settle",
                 "reap", "judge", "close", "publish", "done"}
Supervisors ==
  [pc : SupervisorPc, why : {None, "prompt", "cancelled", "timed_out"},
   family : SUBSET Procs, stopped : BOOLEAN, streams : 0..2,
   observed : {None, "failed", "usage_limited"}, understood : BOOLEAN, strange : BOOLEAN,
   status : Statuses \cup {None}]
ClientRecords == [pc : {"idle", "asked", "join", "wait", "done", "unknown", "error"},
                  stopped : BOOLEAN, confirmed : BOOLEAN]
RowStates == {"reserved", "running", "succeeded", "failed", "cancelled"}
ReaderRecords == [pc : {"idle", "observe", "watch", "append", "last", "save"},
                  offset : Nat, gone : BOOLEAN, settled : BOOLEAN, upto : Nat,
                  last : Kinds \cup {None}]

TypeOK ==
  /\ env \in Envs
  /\ tree \in [Procs -> {"none", "live", "dead"}]
  /\ deaf \subseteq Procs /\ traits \subseteq TraitKinds /\ signalled \subseteq Procs
  /\ code \in {0, 1} /\ written \in 0..MaxLines /\ ended \in 0..2
  /\ lines \in Seq(Lines \cup {"end"})
  /\ worker \in {"live", "dead"}
  /\ started \in {"no", "ready", "spawned", "undelivered", "running", "failed"}
  /\ sup \in Supervisors
  /\ file \in Seq(Kinds) /\ writing \in Kinds \cup {None}
  /\ result \in Statuses \cup {None}
  /\ cancelled \in BOOLEAN /\ expired \in BOOLEAN
  /\ closed \in BOOLEAN /\ registered \in BOOLEAN
  /\ client \in [Clients -> ClientRecords]
  /\ row \in [state : RowStates, offset : 0..Len(file), settled : BOOLEAN]
  /\ table \in Seq(1..Len(file))
  /\ reader \in [Readers -> ReaderRecords]

\* The file ends with the event of the published result, and with a whole line:
\* _supervise appends it exactly when the provider's own last event is another.
TerminalEventMatches ==
  result # None => /\ closed /\ writing = None
                   /\ Last(file) = TerminalKind(result)

\* "a caller never reports a cancellation the operating system did not finish"
\* (terminate_process_tree): of what the cancellation looked at nothing is alive,
\* and the file is closed behind a terminal event.
CancelConfirmed ==
  \A c \in Clients :
    client[c].confirmed =>
      /\ tree["root"] # "live" /\ sup.family \cap Live = {}
      /\ closed /\ IsTerminal(file)

\* A start that failed after the process existed has taken the provider down.
FailedStartLeavesNoProvider == started = "failed" => tree["root"] # "live"

\* A judgement that began after the file was final records what the file says
\* and leaves the whole file in the table.
LateJudgementIsExact ==
  row.settled /\ row.state \notin {"reserved", "running"} =>
    /\ ToSet(table) = 1..Len(file)
    /\ row.state = TerminalByEvent(IF file = <<>> THEN None ELSE Last(file))

\* No event reaches the table before one that is in front of it in the file.
NoEventOvertaken ==
  \A k \in 1..Len(table) : \A n \in 1..table[k] - 1 : \E j \in 1..k - 1 : table[j] = n

\* What a reader of the events table has seen, each event once: the rows that are
\* the first of their event, in the table's order.
Firsts == {k \in 1..Len(table) : \A j \in 1..k - 1 : table[j] # table[k]}
Rank(k) == Cardinality({j \in Firsts : j <= k})
FirstSeen ==
  [n \in 1..Cardinality(Firsts) |-> file[table[CHOOSE k \in Firsts : Rank(k) = n]]]

\* The file only grows until it is final, and the table holds a prefix of it
\* whose events appeared in the file's order: overlapping reconcilers, stale rows
\* written back and deaths between append and save may store an event twice,
\* but none is skipped or overtaken.
Feed == INSTANCE EventFeed WITH log <- file, sealed <- closed \/ worker = "dead",
                                copy <- FirstSeen
FeedSpec == Feed!Spec

\* A cancelled run comes to its result, even when the provider ignores SIGTERM.
CancelEnds == cancelled ~> (result # None \/ worker = "dead")

\* A run whose process is gone is judged, by its worker or after it.
GoneRunIsJudged ==
  ("readers" \in env /\ "readerdies" \notin env /\ row.state = "running" /\ tree["root"] = "dead")
    ~> row.state # "running"

\* "a detached worker owns the provider supervisor until the terminal event
\* and lease cleanup are persisted" (agent_dispatch.py): a worker that was not
\* killed has left a terminal event.
WorkerLeavesTerminalEvent ==
  worker = "dead" /\ "workerdies" \notin env /\ started = "running" => IsTerminal(file)

-----------------------------------------------------------------------------
(* The inductive invariant behind the safety properties.                   *)

\* How far start has come decides what there is: a process, a supervisor, a file.
StartInv ==
  /\ started \in {"no", "ready"} => tree["root"] = "none"
  /\ started \in {"no", "ready", "spawned"} => sup = NoSupervisor
  /\ started # "running" => file = <<>> /\ writing = None /\ ~closed /\ result = None
  /\ started = "failed" => tree["root"] # "live" /\ sup.pc = "none"
  /\ worker = "dead" => sup = NoSupervisor
  /\ sup.pc # "none" => started = IF sup.why = "prompt" THEN "undelivered" ELSE "running"

\* What the supervising thread has written at each of its steps.
SupervisionInv ==
  /\ sup.why = "prompt" => sup.pc \in {"signal", "family", "grace", "settle", "reap", "none"}
  /\ sup.pc = "reap" => sup.why = "prompt"
  /\ sup.pc = "write" => writing \in Kinds
  /\ worker = "live" /\ sup.pc # "write" => writing = None
  /\ sup.pc \notin {"none", "write"} /\ sup.why # "prompt" => file # <<>>
  /\ sup.status # None => sup.pc \in {"write", "close", "publish", "done"}
  /\ sup.pc = "write" /\ sup.status # None => writing = TerminalKind(sup.status)
  /\ sup.pc \in {"close", "publish", "done"} =>
       sup.status # None /\ Last(file) = TerminalKind(sup.status)
  /\ sup.pc \in {"publish", "done"} => closed
  /\ closed => worker = "dead" \/ sup.pc \in {"publish", "done"}
  /\ result # None => worker = "dead" \/ sup.pc = "done"
  /\ TerminalEventMatches
  /\ result # None => file # <<>>

\* The tree is terminated once, and what is stopped is dead.
FamilyInv ==
  /\ \A p \in sup.family : tree[p] # "none"
  /\ sup.pc \in {"signal", "family"} => sup.family = {}
  /\ sup.family # {} => sup.pc = "grace" \/ tree["root"] = "dead"
  /\ sup.stopped /\ sup.pc \notin {"grace", "settle"} => sup.family \cap Live = {}
  /\ \A c \in Clients : client[c].confirmed =>
       worker = "live" /\ result # None /\ tree["root"] = "dead"
  /\ CancelConfirmed

\* The end markers are the last things in the queue.
QueueInv ==
  /\ ended > 0 => tree["root"] = "dead" /\ Holders = {}
  /\ worker = "live" =>
       /\ sup.streams <= ended /\ ended - sup.streams <= Len(lines)
       /\ \A i \in 1..Len(lines) :
            lines[i] = "end" <=> i > Len(lines) - (ended - sup.streams)

\* From here on nobody extends the file.
Final == result # None \/ worker = "dead"
Stored(n) == \A i \in 1..n : \E k \in 1..Len(table) : table[k] = i
LastKind == IF file = <<>> THEN None ELSE Last(file)

\* A reconciler holds what some row said, and the table what rows say of it.
CopyInv(r) ==
  /\ r.pc = "idle" => r = IdleReader
  /\ r.offset <= Len(file) /\ Stored(r.offset)
  /\ r.settled => Final
  /\ r.pc \in {"append", "last", "save"} =>
       /\ r.offset <= r.upto /\ r.upto <= Len(file)
       /\ r.settled => r.upto = Len(file)
  /\ r.pc \in {"last", "save"} => Stored(r.upto)
  /\ r.pc = "save" /\ r.settled /\ r.gone => r.last = LastKind

DeliveryInv ==
  /\ row.state = "reserved" => ~row.settled /\ \A r \in Readers : reader[r].pc = "idle"
  /\ Stored(row.offset)
  /\ row.settled => Final
  /\ row.settled /\ row.state \notin {"reserved", "running"} =>
       Stored(Len(file)) /\ row.state = TerminalByEvent(LastKind)
  /\ NoEventOvertaken
  /\ \A r \in Readers : CopyInv(reader[r])

IInv == TypeOK /\ StartInv /\ SupervisionInv /\ FamilyInv /\ QueueInv /\ DeliveryInv
=============================================================================
