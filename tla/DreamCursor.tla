---------------------------- MODULE DreamCursor ----------------------------
(***************************************************************************)
(* How dream-prep reads the transcripts of a project: it copies the turns  *)
(* of a conversation into an output file and records in dream_meta.md how  *)
(* far it has come.  A transcript that is still written to, or that is     *)
(* huge, is read round by round from a cursor; one that has gone quiet is  *)
(* read as a whole and sealed, and is never looked at again.               *)
(*                                                                         *)
(* Meanwhile sessions append to their transcripts, other dream-prep        *)
(* processes may run, marks fail and processes die.                        *)
(*                                                                         *)
(* A line of a transcript is its kind and its number stands for its uuid;  *)
(* transcripts only grow.                                                  *)
(***************************************************************************)
EXTENDS Naturals, Sequences, FiniteSets

CONSTANTS
  Files,        \* the transcripts, by the order of their names
  Procs,        \* dream-prep processes
  MaxLines,     \* bound on the length of a transcript
  HugeLines,    \* HUGE_FILE_SIZE_BYTES, in lines
  MaxMessages,  \* ROUND_MAX_MESSAGES, and ROUND_MAX_CHARS
  MaxChunks,    \* ROUND_MAX_CHUNKS_ACTIVE
  Threshold,    \* SEALED_GC_THRESHOLD
  KeepFull,     \* SEALED_GC_KEEP_FULL
  Limit,        \* --limit
  Envs,         \* the troubles to look at, sets of EnvKinds
  None

EnvKinds == {"grows",     \* a session that was quiet goes on
             "huge",      \* transcripts get huge
             "noise",     \* lines without a turn
             "boundary",  \* the session is continued from a summary
             "tight",     \* the limit is below the number of transcripts
             "two",       \* several processes at once
             "fails",     \* the lock or the write of a mark fails
             "unreadable", \* dream_meta.md sometimes cannot be read
             "crash"}     \* a process dies, once

ASSUME FilesAssumption == Files \subseteq Nat /\ IsFiniteSet(Files)
ASSUME BoundsAssumption ==
  {MaxLines, HugeLines, MaxMessages, MaxChunks, Threshold, KeepFull, Limit} \subseteq Nat
ASSUME EnvAssumption == Envs \subseteq SUBSET EnvKinds /\ None \notin Files \cup Procs

VARIABLES
  env,
  log,       \* the transcripts
  quiet,     \* those nobody has written to for ACTIVE_MTIME_QUIET_SEC
  exists,    \* dream_meta.md is there
  meta,      \* its processed_v2 section
  lock,      \* the process that holds .dream.lock
  prepared,  \* the turns that are in an output file
  proc,      \* the processes
  crashed

vars == <<env, log, quiet, exists, meta, lock, prepared, proc, crashed>>

Kinds == {"turn", "noise", "boundary"}
Lines == 1 .. MaxLines

\* An entry: its place in the section, and whether it has all three lines.
NoMark == [status |-> "none", cursor |-> 0, at |-> 0, full |-> FALSE]
NoMarks == [f \in Files |-> NoMark]
NoCursors == [f \in Files |-> 0]
Idle == [pc |-> "idle", todo |-> {}, stale |-> NoCursors, copy |-> NoMarks,
         file |-> None, lines |-> {}, cursor |-> 0, status |-> "none"]

Init ==
  /\ env \in Envs
  /\ log = [f \in Files |-> << >>]
  /\ quiet = [f \in Files |-> FALSE]
  /\ exists = FALSE /\ meta = NoMarks /\ lock = None
  /\ prepared = [f \in Files |-> {}]
  /\ proc = [p \in Procs |-> Idle]
  /\ crashed = FALSE

-----------------------------------------------------------------------------
(* The sessions.                                                           *)

Says(f, kind) ==
  /\ Len(log[f]) < MaxLines
  /\ quiet[f] => "grows" \in env
  /\ kind = "turn" \/ kind \in env
  /\ log' = [log EXCEPT ![f] = Append(@, kind)]
  /\ quiet' = [quiet EXCEPT ![f] = FALSE]
  /\ UNCHANGED <<env, exists, meta, lock, prepared, proc, crashed>>

GoesQuiet(f) ==
  /\ ~quiet[f] /\ log[f] # << >>
  /\ quiet' = [quiet EXCEPT ![f] = TRUE]
  /\ UNCHANGED <<env, log, exists, meta, lock, prepared, proc, crashed>>

-----------------------------------------------------------------------------
(* One run of dream-prep.                                                  *)

Outside == <<env, log, quiet, crashed>>
Becomes(p, it) == proc' = [proc EXCEPT ![p] = it]
Goes(p, pc) == Becomes(p, [proc[p] EXCEPT !.pc = pc])

\* On to the next transcript of the batch.
Passes(p) ==
  Becomes(p, [Idle EXCEPT !.pc = "next", !.todo = proc[p].todo, !.stale = proc[p].stale])

\* classify_transcript.
Huge(f) == "huge" \in env /\ Len(log[f]) >= HugeLines
ShouldProcess(f) == log[f] # << >> /\ (quiet[f] \/ Huge(f))

(* Seeded fault: a transcript that was read in part counts as processed.   *)
UnprocessedNew(marks) ==
  {f \in Files : marks[f].status = "none" /\ ShouldProcess(f)}

(* Seeded fault: a sealed transcript that grows is read again.             *)
UnprocessedAgain(marks) == {f \in Files : ShouldProcess(f)}

\* find_unprocessed_transcripts.
Unprocessed(marks) ==
  {f \in Files : marks[f].status # "sealed" /\ ShouldProcess(f)}

First(files, n) == {f \in files : Cardinality({g \in files : g < f}) < n}

\* parse_meta_v2: a file that cannot be read has no marks.
Parsed == {meta} \cup {marks \in {NoMarks} : "unreadable" \in env}

\* The heartbeat job runs dream-prep when there is something to do.
Find(p) ==
  /\ proc[p].pc = "idle"
  /\ "two" \in env \/ p = CHOOSE q \in Procs : TRUE
  /\ \E marks \in Parsed :
       /\ Unprocessed(marks) # {}
       /\ Becomes(p, [proc[p] EXCEPT !.pc = "parse", !.todo = Unprocessed(marks)])
  /\ UNCHANGED <<Outside, exists, meta, lock, prepared>>

\* The marks of the whole batch are read once more, before it.
StartBatch(p, marks) ==
  LET batch == IF "tight" \in env THEN First(proc[p].todo, Limit) ELSE proc[p].todo IN
    Becomes(p, [proc[p] EXCEPT !.pc = "next", !.todo = batch,
                  !.stale = [f \in Files |-> IF f \in batch THEN marks[f].cursor ELSE 0]])

ParseMeta(p) ==
  /\ proc[p].pc = "parse"
  /\ \E marks \in Parsed : StartBatch(p, marks)
  /\ UNCHANGED <<Outside, exists, meta, lock, prepared>>

\* preprocess_project: each transcript is classified when its turn comes.
NextFile(p) ==
  /\ proc[p].pc = "next"
  /\ \E f \in proc[p].todo :
       /\ \A g \in proc[p].todo : f <= g
       /\ Becomes(p, [proc[p] EXCEPT !.file = f, !.todo = @ \ {f},
                        !.pc = IF quiet[f] /\ ~Huge(f) THEN "whole" ELSE "window"])
  /\ UNCHANGED <<Outside, exists, meta, lock, prepared>>

BatchEnds(p) ==
  /\ proc[p].pc = "next" /\ proc[p].todo = {}
  /\ Becomes(p, Idle)
  /\ UNCHANGED <<Outside, exists, meta, lock, prepared>>

\* _parse_turn: which lines are part of the conversation.
Turns(f, first, last) == {i \in first .. last : i \in DOMAIN log[f] /\ log[f][i] # "noise"}
Boundaries(f, first, last) == {i \in Turns(f, first, last) : log[f][i] = "boundary"}

\* extract_partial_conversation: from the cursor to the first cap or to the
\* end of the window that compute_round_window has seen.
Round(f, cursor) ==
  {i \in Turns(f, cursor + 1, Len(log[f])) :
     /\ Cardinality(Boundaries(f, cursor + 1, i)) < MaxChunks
     /\ Cardinality(Turns(f, cursor + 1, i)) <= MaxMessages}

(* Seeded fault: the cursor is the last line of the window.                *)
ReadWindowToEnd(p) ==
  LET f == proc[p].file
      lines == Round(f, proc[p].stale[f])
  IN
  /\ proc[p].pc = "window"
  /\ IF lines = {} THEN Passes(p)
     ELSE Becomes(p, [proc[p] EXCEPT !.pc = "write", !.status = "active",
                        !.lines = lines, !.cursor = Len(log[f])])
  /\ UNCHANGED <<Outside, exists, meta, lock, prepared>>

\* _process_active_or_huge: nothing to read is not marked.  The second scan
\* stops where the first one has ended, so the two are one step.
ReadWindow(p) ==
  LET f == proc[p].file
      lines == Round(f, proc[p].stale[f])
  IN
  /\ proc[p].pc = "window"
  /\ \/ lines = {} /\ Passes(p)
     \/ \E last \in lines :
          /\ \A i \in lines : i <= last
          /\ Becomes(p, [proc[p] EXCEPT !.pc = "write", !.status = "active",
                           !.lines = lines, !.cursor = last])
  /\ UNCHANGED <<Outside, exists, meta, lock, prepared>>

\* _process_sealed: the whole transcript, whatever has been read of it ...
ReadWhole(p) ==
  LET f == proc[p].file IN
  /\ proc[p].pc = "whole"
  /\ IF Turns(f, 1, Len(log[f])) = {} THEN Passes(p)
     ELSE Becomes(p, [proc[p] EXCEPT !.pc = "last", !.lines = Turns(f, 1, Len(log[f]))])
  /\ UNCHANGED <<Outside, exists, meta, lock, prepared>>

\* ... and its last uuid, with a second scan that sees what came since.
ReadLast(p) ==
  /\ proc[p].pc = "last"
  /\ Becomes(p, [proc[p] EXCEPT !.pc = "write", !.status = "sealed",
                   !.cursor = Len(log[proc[p].file])])
  /\ UNCHANGED <<Outside, exists, meta, lock, prepared>>

\* The output file comes before the mark.
WriteOutput(p) ==
  /\ proc[p].pc = "write"
  /\ prepared' = [prepared EXCEPT ![proc[p].file] = @ \cup proc[p].lines]
  /\ Goes(p, "mark")
  /\ UNCHANGED <<Outside, exists, meta, lock>>

-----------------------------------------------------------------------------
(* mark_processed.                                                         *)

\* The file is created outside the lock: one process may have seen that it
\* is missing before another has created and filled it.
LookForMeta(p) ==
  /\ proc[p].pc = "mark"
  /\ Goes(p, IF exists THEN "lock" ELSE "create")
  /\ UNCHANGED <<Outside, exists, meta, lock, prepared>>

CreateMeta(p) ==
  /\ proc[p].pc = "create"
  /\ exists' = TRUE /\ meta' = NoMarks
  /\ Goes(p, "lock")
  /\ UNCHANGED <<Outside, lock, prepared>>

Lock(p) ==
  /\ proc[p].pc = "lock" /\ lock = None
  /\ lock' = p /\ Goes(p, "read")
  /\ UNCHANGED <<Outside, exists, meta, prepared>>

\* A lock that cannot be had in time loses the mark; a lock file that cannot
\* be opened is done without.
LockFails(p) ==
  /\ "fails" \in env /\ proc[p].pc = "lock"
  /\ \/ lock # None /\ Passes(p)
     \/ Goes(p, "read")
  /\ UNCHANGED <<Outside, exists, meta, lock, prepared>>

ReadMeta(p) ==
  /\ proc[p].pc = "read"
  /\ Becomes(p, [proc[p] EXCEPT !.pc = "replace", !.copy = meta])
  /\ UNCHANGED <<Outside, exists, meta, lock, prepared>>

\* An entry is changed in place, or appended.
Marked(marks, f, cursor, status) ==
  [marks EXCEPT ![f] =
     [status |-> status, cursor |-> cursor, full |-> TRUE,
      at |-> IF marks[f].status = "none"
             THEN 1 + Cardinality({g \in Files : marks[g].status # "none"})
             ELSE marks[f].at]]

\* _gc_compact_old_sealed: the first sealed entries become their file name
\* only.  What is already compact is counted in the total all the same.
Compacted(marks) ==
  LET sealed == {f \in Files : marks[f].status = "sealed"}
      full == {f \in sealed : marks[f].full}
      Before(f) == Cardinality({g \in full : marks[g].at < marks[f].at})
  IN [f \in Files |->
        IF /\ Cardinality(sealed) > Threshold
           /\ f \in full /\ Before(f) + KeepFull < Cardinality(sealed)
        THEN [marks[f] EXCEPT !.cursor = 0, !.full = FALSE]
        ELSE marks[f]]

Unlocks(p) == lock' = IF lock = p THEN None ELSE lock

\* The section as it was read, with the mark, replaces the file.
Writes(p) == meta' = Compacted(Marked(proc[p].copy, proc[p].file, proc[p].cursor, proc[p].status))

Replace(p) ==
  /\ proc[p].pc = "replace"
  /\ Writes(p) \/ ("fails" \in env /\ UNCHANGED meta)
  /\ Unlocks(p) /\ Passes(p)
  /\ UNCHANGED <<Outside, exists, prepared>>

Crash(p) ==
  /\ "crash" \in env /\ ~crashed /\ proc[p].pc # "idle"
  /\ crashed' = TRUE
  /\ Becomes(p, Idle)
  /\ Unlocks(p)
  /\ UNCHANGED <<env, log, quiet, exists, meta, prepared>>

-----------------------------------------------------------------------------
Step(p) ==
  \/ Find(p) \/ ParseMeta(p) \/ NextFile(p) \/ BatchEnds(p)
  \/ ReadWindow(p) \/ ReadWhole(p) \/ ReadLast(p) \/ WriteOutput(p)
  \/ LookForMeta(p) \/ CreateMeta(p) \/ Lock(p) \/ LockFails(p)
  \/ ReadMeta(p) \/ Replace(p)

Next ==
  \/ \E f \in Files, kind \in Kinds : Says(f, kind)
  \/ \E f \in Files : GoesQuiet(f)
  \/ \E p \in Procs : Step(p) \/ Crash(p)

Spec == Init /\ [][Next]_vars

\* Sessions end some time; the job that runs dream-prep comes round again,
\* and a process that runs goes on.  The troubles of the file system pass:
\* a mark that is written again and again, round after round, is stored some
\* day, and the marks that are read before every batch are read some day.
Fairness ==
  /\ \A f \in Files : WF_vars(GoesQuiet(f))
  /\ \A p \in Procs : WF_vars(Step(p))
  /\ \A f \in Files : SF_vars(\E p \in Procs : proc[p].file = f /\ Replace(p) /\ Writes(p))
  /\ SF_vars(\E p \in Procs : ParseMeta(p) /\ StartBatch(p, meta))

FairSpec == Spec /\ Fairness

-----------------------------------------------------------------------------
(* Properties.                                                             *)

Marks == [status : {"none", "active", "sealed"}, cursor : 0 .. MaxLines,
          at : Nat, full : BOOLEAN]

Process ==
  [pc : {"idle", "parse", "next", "window", "whole", "last", "write", "mark",
         "create", "lock", "read", "replace"},
   todo : SUBSET Files, stale : [Files -> 0 .. MaxLines], copy : [Files -> Marks],
   file : Files \cup {None}, lines : SUBSET Lines, cursor : 0 .. MaxLines,
   status : {"none", "active", "sealed"}]

(* Type correctness: only what the code can write is ever stored.          *)
TypeOK ==
  /\ env \in Envs
  /\ log \in [Files -> Seq(Kinds)] /\ \A f \in Files : Len(log[f]) <= MaxLines
  /\ quiet \in [Files -> BOOLEAN]
  /\ exists \in BOOLEAN /\ crashed \in BOOLEAN
  /\ meta \in [Files -> Marks]
  /\ lock \in Procs \cup {None}
  /\ prepared \in [Files -> SUBSET Lines]
  /\ proc \in [Procs -> Process]

(* What dream_meta.md calls read has been read: every turn up to the cursor *)
(* of a transcript that is read in rounds, and all of a sealed one, is in   *)
(* an output file, whatever processes overlap, die or lose their marks.     *)
(* A sealed transcript that went on while it was read is another matter:    *)
(* what came between the two scans, and after them, is never read.  When    *)
(* two processes overlap as well, one may go on from the cursor with which  *)
(* the other sealed such a transcript, and then the rounds skip it too; and *)
(* so may one that could not read the marks and takes a sealed transcript   *)
(* for a new one.                                                           *)
ReadBeforeCursor ==
  ("grows" \in env => {"two", "unreadable"} \cap env = {}) =>
    \A f \in Files :
      /\ meta[f].status = "active" => Turns(f, 1, meta[f].cursor) \subseteq prepared[f]
      /\ meta[f].status = "sealed" /\ "grows" \notin env
           => Turns(f, 1, Len(log[f])) \subseteq prepared[f]

(* With one process at a time every mark of a round is beyond the one      *)
(* before it, and a sealed transcript stays sealed: only what a mark that  *)
(* was lost, or a process that died, left unmarked is fed once more.  Two  *)
(* processes work from what each has read before its batch, and the slower *)
(* one may move a cursor back; so may one that could not read the marks    *)
(* and starts from the first line.                                         *)
CursorsAdvance ==
  [][\A f \in Files :
       {"two", "unreadable"} \cap env = {} /\ meta'[f] # meta[f]
       => /\ meta[f].status = "sealed" => meta'[f].status = "sealed"
          /\ meta'[f].status = "active" => meta'[f].cursor > meta[f].cursor]_vars

(* Sessions end, and then some day everything that was said is prepared,   *)
(* though a round takes only part of a transcript and marks are lost, as   *)
(* long as they are not lost for ever (Fairness).  It needs a limit that   *)
(* no transcript without anything to read can use up: one that is huge and *)
(* read to its end, or has no turn, is never marked and comes first again, *)
(* and so does every sealed one when the marks cannot be read.  And it is  *)
(* not claimed of two processes that do without the lock or read no marks, *)
(* where the cursors matter: each may put back what the other has marked.  *)
EverythingIsPrepared ==
  []<>(/\ "grows" \notin env
       /\ "tight" \in env => {"huge", "noise", "unreadable"} \cap env = {}
       /\ "two" \in env /\ {"fails", "unreadable"} \cap env # {}
            => {"huge", "tight"} \cap env = {}
       => \A f \in Files : Turns(f, 1, Len(log[f])) \subseteq prepared[f])
=============================================================================
