-------------------------- MODULE DreamCursorProofs --------------------------
(***************************************************************************)
(* Proofs about the cursors of the dream skill, for any transcripts, caps, *)
(* processes and troubles.  The argument: what a mark claims is so when    *)
(* the mark is made, because the output file was written first; transcripts*)
(* only grow and output files only gain, so it stays so in every copy of   *)
(* the marks, however old the copy is when it replaces the file.           *)
(* A process that is alone, and can read the marks, works from marks that  *)
(* nobody else changes, so its cursors only advance.                       *)
(***************************************************************************)
EXTENDS DreamCursor, FiniteSetTheorems, TLAPS

Calm == "grows" \notin env
Alone == {"two", "unreadable"} \cap env = {}

\* What a mark with this status and cursor claims of transcript f is so, when
\* the turns in done are in output files.
Holds(f, status, cursor, done) ==
  /\ cursor <= Len(log[f])
  /\ status = "none" => cursor = 0
  /\ status = "active" => Turns(f, 1, cursor) \subseteq done
  /\ status = "sealed" /\ Calm => quiet[f] /\ Turns(f, 1, Len(log[f])) \subseteq done

AfterWrite == {"mark", "create", "lock", "read", "replace"}
WithFile == {"window", "whole", "last", "write"} \cup AfterWrite

MarksHold == \A f \in Files : Holds(f, meta[f].status, meta[f].cursor, prepared[f])

\* The same of everything a process has read, and of the mark it will make.
Knows(p) ==
  /\ \A f \in Files : Holds(f, "active", proc[p].stale[f], prepared[f])
  /\ \A f \in Files : Holds(f, proc[p].copy[f].status, proc[p].copy[f].cursor, prepared[f])
  /\ proc[p].pc = "parse" /\ Alone => \A f \in proc[p].todo : meta[f].status # "sealed"
  /\ proc[p].pc \in {"whole", "last"} /\ Calm => quiet[proc[p].file]
  /\ proc[p].pc = "last" /\ Calm =>
       Turns(proc[p].file, 1, Len(log[proc[p].file])) \subseteq proc[p].lines
  /\ proc[p].pc = "write" =>
       Holds(proc[p].file, proc[p].status, proc[p].cursor,
             prepared[proc[p].file] \cup proc[p].lines)
  /\ proc[p].pc \in AfterWrite =>
       Holds(proc[p].file, proc[p].status, proc[p].cursor, prepared[proc[p].file])

HasFile(p) ==
  /\ proc[p].pc \in WithFile => proc[p].file \in Files
  /\ proc[p].pc \in AfterWrite \cup {"write"} => proc[p].status # "none"

TheOne == CHOOSE q \in Procs : TRUE
OneAtATime(p) == Alone /\ proc[p].pc # "idle" => p = TheOne

IInv ==
  /\ TypeOK
  /\ \A p \in Procs : HasFile(p) /\ OneAtATime(p)
  /\ Calm \/ Alone => MarksHold /\ \A p \in Procs : Knows(p)

-----------------------------------------------------------------------------
(* Types.                                                                  *)

Statuses == {"none", "active", "sealed"}

LEMMA BoundsNat == MaxLines \in Nat /\ MaxMessages \in Nat /\ MaxChunks \in Nat
  BY BoundsAssumption

LEMMA MarksTyped ==
  ASSUME NEW marks \in [Files -> Marks], NEW f \in Files,
         NEW cursor \in 0 .. MaxLines, NEW status \in Statuses
  PROVE  /\ Marked(marks, f, cursor, status) \in [Files -> Marks]
         /\ Compacted(marks) \in [Files -> Marks]
<1>1. Cardinality({g \in Files : marks[g].status # "none"}) \in Nat
  BY FilesAssumption, FS_Subset, FS_CardinalityType
<1>2. Marked(marks, f, cursor, status) \in [Files -> Marks]
  BY <1>1 DEF Marked, Marks, Statuses
<1>3. ASSUME NEW m \in Marks PROVE [m EXCEPT !.cursor = 0, !.full = FALSE] \in Marks
  <2>1. 0 \in 0 .. MaxLines /\ FALSE \in BOOLEAN
    BY BoundsNat
  <2> QED BY <2>1 DEF Marks
<1>4. Compacted(marks) \in [Files -> Marks]
  BY <1>3 DEF Compacted
<1> QED BY <1>2, <1>4

LEMMA LinesTyped ==
  ASSUME TypeOK, NEW f \in Files
  PROVE  /\ Len(log[f]) \in 0 .. MaxLines /\ DOMAIN log[f] = 1 .. Len(log[f])
         /\ \A a, b : Turns(f, a, b) \subseteq Lines
         /\ \A c : Round(f, c) \subseteq Lines
  BY BoundsNat DEF TypeOK, Turns, Round, Lines

LEMMA IdleTyped ==
  /\ NoMarks \in [Files -> Marks] /\ NoCursors \in [Files -> 0 .. MaxLines]
  /\ Idle \in Process
<1>1. NoMark \in Marks /\ NoMarks \in [Files -> Marks]
  BY BoundsNat DEF NoMark, NoMarks, Marks
<1>2. NoCursors \in [Files -> 0 .. MaxLines]
  BY BoundsNat DEF NoCursors
<1>3. 0 \in 0 .. MaxLines
  BY BoundsNat
<1>4. Idle \in Process
  BY <1>1, <1>2, <1>3 DEF Idle, Process
<1> QED BY <1>1, <1>2, <1>4

LEMMA TypeInit == Init => TypeOK
<1> SUFFICES ASSUME Init PROVE TypeOK
  OBVIOUS
<1>1. log \in [Files -> Seq(Kinds)] /\ \A f \in Files : Len(log[f]) <= MaxLines
  BY BoundsNat DEF Init
<1> QED BY <1>1, IdleTyped DEF Init, TypeOK

\* What a step leaves of the processes when one of them becomes r.
LEMMA BecomesTyped ==
  ASSUME TypeOK, NEW p \in Procs, NEW r \in Process, Becomes(p, r)
  PROVE  /\ proc' \in [Procs -> Process] /\ proc'[p] = r
         /\ \A q \in Procs : q # p => proc'[q] = proc[q]
  BY DEF TypeOK, Becomes

LEMMA GoesTyped ==
  ASSUME TypeOK, NEW p \in Procs,
         NEW pc \in {"mark", "create", "lock", "read"}, Goes(p, pc)
  PROVE  /\ proc' \in [Procs -> Process] /\ proc'[p] = [proc[p] EXCEPT !.pc = pc]
         /\ \A q \in Procs : q # p => proc'[q] = proc[q]
<1>1. proc[p] \in Process
  BY DEF TypeOK
<1>2. [proc[p] EXCEPT !.pc = pc] \in Process
  BY <1>1 DEF Process
<1> QED BY <1>2, BecomesTyped DEF Goes

LEMMA PassesTyped ==
  ASSUME TypeOK, NEW p \in Procs, Passes(p)
  PROVE  /\ proc' \in [Procs -> Process]
         /\ proc'[p].pc = "next" /\ proc'[p].stale = proc[p].stale
         /\ proc'[p].copy = NoMarks
         /\ \A q \in Procs : q # p => proc'[q] = proc[q]
<1> DEFINE r == [Idle EXCEPT !.pc = "next", !.todo = proc[p].todo, !.stale = proc[p].stale]
<1>1. proc[p] \in Process
  BY DEF TypeOK
<1>2. r \in Process
  BY <1>1, IdleTyped DEF Process
<1>3. r.pc = "next" /\ r.stale = proc[p].stale /\ r.copy = NoMarks
  BY DEF Idle
<1> QED BY <1>2, <1>3, BecomesTyped DEF Passes

-----------------------------------------------------------------------------
(* What a step of one process leaves alone.                                *)

\* A step of p: transcripts stay, output files gain, and the other processes
\* stay as they are.
Steps(p) ==
  /\ UNCHANGED <<env, log, quiet>>
  /\ TypeOK'
  /\ \A f \in Files : prepared[f] \subseteq prepared'[f]
  /\ \A q \in Procs : q # p => proc'[q] = proc[q]
  /\ proc[p].pc = "idle" => meta' = meta

LEMMA OthersKnow ==
  ASSUME IInv, NEW p \in Procs, Steps(p), Calm \/ Alone, NEW q \in Procs, q # p
  PROVE  Knows(q)'
<1>1. proc'[q] = proc[q] /\ env' = env /\ log' = log /\ quiet' = quiet
  BY DEF Steps, Outside
<1>2. \A f \in Files : prepared[f] \subseteq prepared'[f]
  BY DEF Steps
<1>3. Knows(q)
  BY DEF IInv
<1>4. ASSUME NEW f \in Files PROVE Holds(f, "active", proc[q].stale[f], prepared[f])'
  BY <1>1, <1>2, <1>3 DEF Knows, Holds, Turns, Calm
<1>5. ASSUME NEW f \in Files
      PROVE  Holds(f, proc[q].copy[f].status, proc[q].copy[f].cursor, prepared[f])'
  BY <1>1, <1>2, <1>3 DEF Knows, Holds, Turns, Calm
<1>6. ASSUME proc[q].pc = "parse", Alone, NEW f \in proc[q].todo
      PROVE  meta'[f].status # "sealed"
  <2>1. proc[p].pc = "idle"
    BY <1>6 DEF IInv, OneAtATime
  <2> QED BY <2>1, <1>3, <1>6 DEF Steps, Knows
<1>7. proc[q].pc \in WithFile => proc[q].file \in Files
  BY DEF IInv, HasFile
<1>8. ASSUME proc[q].pc = "write"
      PROVE  Holds(proc[q].file, proc[q].status, proc[q].cursor,
                   prepared[proc[q].file] \cup proc[q].lines)'
  BY <1>1, <1>2, <1>3, <1>7, <1>8 DEF Knows, Holds, Turns, Calm, WithFile
<1>9. ASSUME proc[q].pc \in AfterWrite
      PROVE  Holds(proc[q].file, proc[q].status, proc[q].cursor, prepared[proc[q].file])'
  BY <1>1, <1>2, <1>3, <1>7, <1>9 DEF Knows, Holds, Turns, Calm, WithFile
<1>10. proc[q].pc \in {"whole", "last"} /\ Calm => quiet[proc[q].file]
  BY <1>3 DEF Knows
<1>11. proc[q].pc = "last" /\ Calm =>
         Turns(proc[q].file, 1, Len(log[proc[q].file]))' \subseteq proc[q].lines
  BY <1>1, <1>3 DEF Knows, Turns
<1> QED BY <1>1, <1>4, <1>5, <1>6, <1>8, <1>9, <1>10, <1>11 DEF Knows, Calm, Alone

LEMMA MarksStay ==
  ASSUME IInv, NEW p \in Procs, Steps(p), Calm \/ Alone, meta' = meta
  PROVE  MarksHold'
<1>1. env' = env /\ log' = log /\ quiet' = quiet
  BY DEF Steps, Outside
<1>2. \A f \in Files : prepared[f] \subseteq prepared'[f]
  BY DEF Steps
<1> QED BY <1>1, <1>2 DEF IInv, MarksHold, Holds, Turns, Calm

\* What is left to show of a step of p.
LEMMA StepKeeps ==
  ASSUME IInv, NEW p \in Procs, Steps(p), HasFile(p)', OneAtATime(p)',
         Calm \/ Alone => MarksHold' /\ Knows(p)'
  PROVE  IInv'
<1>1. env' = env
  BY DEF Steps, Outside
<1>2. ASSUME NEW q \in Procs, q # p PROVE HasFile(q)' /\ OneAtATime(q)'
  <2>1. proc'[q] = proc[q]
    BY <1>2 DEF Steps
  <2>2. HasFile(q) /\ OneAtATime(q)
    BY DEF IInv
  <2> QED BY <1>1, <2>1, <2>2 DEF HasFile, OneAtATime, Alone
<1>3. Calm \/ Alone => \A q \in Procs : Knows(q)'
  BY OthersKnow
<1>4. TypeOK' /\ \A q \in Procs : HasFile(q)' /\ OneAtATime(q)'
  BY <1>2 DEF Steps
<1>5. Calm' \/ Alone' => Calm \/ Alone
  BY <1>1 DEF Calm, Alone
<1> QED BY <1>3, <1>4, <1>5 DEF IInv

\* A step from one place to the next, with everything that is known kept.
LEMMA PlainStep ==
  ASSUME IInv, NEW p \in Procs, UNCHANGED <<env, log, quiet, prepared>>,
         TypeOK', meta' = meta, proc[p].pc # "idle",
         \A q \in Procs : q # p => proc'[q] = proc[q],
         \/ proc[p].pc \in AfterWrite /\ proc'[p].pc \in AfterWrite
            /\ proc'[p].file = proc[p].file /\ proc'[p].status = proc[p].status
            /\ proc'[p].cursor = proc[p].cursor
         \/ proc'[p].pc \in {"next", "idle"},
         proc'[p].stale = proc[p].stale \/ proc'[p].stale = NoCursors,
         proc'[p].copy \in {proc[p].copy, NoMarks, meta}
  PROVE  IInv'
<1>1. Steps(p)
  BY DEF Steps, Outside
<1>2. HasFile(p)' /\ OneAtATime(p)'
  BY DEF IInv, HasFile, OneAtATime, AfterWrite, WithFile, Alone
<1>3. ASSUME Calm \/ Alone PROVE Knows(p)'
  <2>1. Knows(p) /\ MarksHold /\ HasFile(p) /\ TypeOK
    BY <1>3 DEF IInv
  <2>2. ASSUME NEW f \in Files PROVE Turns(f, 1, 0) = {} /\ 0 <= Len(log[f])
    BY <2>1 DEF Turns, TypeOK
  <2>3. ASSUME NEW f \in Files PROVE Holds(f, "active", proc[p].stale[f], prepared[f])'
    BY <2>1, <2>2 DEF Knows, Holds, Turns, NoCursors
  <2>4. ASSUME NEW f \in Files
        PROVE  Holds(f, proc[p].copy[f].status, proc[p].copy[f].cursor, prepared[f])'
    <3>1. CASE proc'[p].copy = proc[p].copy
      BY <3>1, <2>1 DEF Knows, Holds, Turns, Calm
    <3>2. CASE proc'[p].copy = NoMarks
      BY <3>2, <2>2 DEF Holds, NoMarks, NoMark
    <3>3. CASE proc'[p].copy = meta
      BY <3>3, <2>1 DEF MarksHold, Holds, Turns, Calm
    <3> QED BY <3>1, <3>2, <3>3
  <2>5. ASSUME proc'[p].pc \in AfterWrite
        PROVE  Holds(proc[p].file, proc[p].status, proc[p].cursor, prepared[proc[p].file])'
    <3>1. proc[p].pc \in AfterWrite
      BY <2>5 DEF AfterWrite
    <3> QED BY <3>1, <2>1, <2>5 DEF Knows, Holds, Turns, Calm, AfterWrite
  <2>6. proc'[p].pc \notin {"parse", "whole", "last", "write"}
    BY DEF AfterWrite
  <2> QED BY <2>3, <2>4, <2>5, <2>6 DEF Knows
<1> QED BY <1>1, <1>2, <1>3, MarksStay, StepKeeps

-----------------------------------------------------------------------------
(* The steps of dream-prep.                                                *)

\* A round takes every turn between the cursor and its last one.
LEMMA RoundPrefix ==
  ASSUME TypeOK, NEW f \in Files, NEW c \in 0 .. MaxLines, NEW last \in Round(f, c),
         \A i \in Round(f, c) : i <= last
  PROVE  Turns(f, 1, last) \subseteq Turns(f, 1, c) \cup Round(f, c)
<1> SUFFICES ASSUME NEW i \in Turns(f, 1, last), i > c PROVE i \in Round(f, c)
  BY BoundsNat DEF Turns
<1>1. last \in Nat /\ i \in Nat /\ i <= last /\ last <= Len(log[f]) /\ Len(log[f]) \in Nat
  BY LinesTyped DEF Round, Turns
<1>2. i \in Turns(f, c + 1, Len(log[f]))
  BY <1>1, BoundsNat DEF Turns
<1>3. /\ Turns(f, c + 1, i) \subseteq Turns(f, c + 1, last)
      /\ Boundaries(f, c + 1, i) \subseteq Boundaries(f, c + 1, last)
  BY <1>1, BoundsNat DEF Turns, Boundaries
<1>4. IsFiniteSet(Turns(f, c + 1, last)) /\ IsFiniteSet(Boundaries(f, c + 1, last))
  <2>1. IsFiniteSet((c + 1) .. last)
    BY <1>1, BoundsNat, FS_Interval
  <2>2. /\ Turns(f, c + 1, last) \subseteq (c + 1) .. last
        /\ Boundaries(f, c + 1, last) \subseteq (c + 1) .. last
    BY DEF Turns, Boundaries
  <2> QED BY <2>1, <2>2, FS_Subset
<1>5. /\ Cardinality(Turns(f, c + 1, i)) <= Cardinality(Turns(f, c + 1, last))
      /\ Cardinality(Boundaries(f, c + 1, i)) <= Cardinality(Boundaries(f, c + 1, last))
      /\ Cardinality(Turns(f, c + 1, i)) \in Nat
      /\ Cardinality(Turns(f, c + 1, last)) \in Nat
      /\ Cardinality(Boundaries(f, c + 1, i)) \in Nat
      /\ Cardinality(Boundaries(f, c + 1, last)) \in Nat
  BY <1>3, <1>4, FS_Subset, FS_CardinalityType
<1>6. /\ Cardinality(Boundaries(f, c + 1, last)) < MaxChunks
      /\ Cardinality(Turns(f, c + 1, last)) <= MaxMessages
  BY DEF Round
<1>7. /\ Cardinality(Boundaries(f, c + 1, i)) < MaxChunks
      /\ Cardinality(Turns(f, c + 1, i)) <= MaxMessages
  BY <1>5, <1>6, BoundsNat
<1> QED BY <1>2, <1>7 DEF Round

\* What a process alone reads of the marks is what they are.
LEMMA ParsedMarks ==
  /\ \A marks \in Parsed : marks \in {meta, NoMarks}
  /\ Alone => \A marks \in Parsed : marks = meta
  BY DEF Parsed, Alone

LEMMA FindKeeps == ASSUME IInv, NEW p \in Procs, Find(p) PROVE IInv'
<1>0. PICK marks \in Parsed :
        Becomes(p, [proc[p] EXCEPT !.pc = "parse", !.todo = Unprocessed(marks)])
  BY DEF Find
<1> DEFINE r == [proc[p] EXCEPT !.pc = "parse", !.todo = Unprocessed(marks)]
<1>1. proc[p] \in Process /\ TypeOK
  BY DEF IInv, TypeOK
<1>2. r \in Process
  BY <1>1 DEF Process, Unprocessed
<1>3. Becomes(p, r)
  BY <1>0
<1>4. proc' \in [Procs -> Process] /\ proc'[p] = r /\ \A q \in Procs : q # p => proc'[q] = proc[q]
  BY <1>1, <1>2, <1>3, BecomesTyped
<1>5. /\ r.pc = "parse" /\ r.todo = Unprocessed(marks) /\ r.stale = proc[p].stale
      /\ r.copy = proc[p].copy
  BY <1>1 DEF Process
<1>6. TypeOK'
  BY <1>1, <1>4 DEF Find, TypeOK, Outside
<1>7. Steps(p) /\ meta' = meta
  BY <1>4, <1>6 DEF Find, Steps, Outside
<1>8. HasFile(p)' /\ OneAtATime(p)'
  BY <1>4, <1>5 DEF Find, HasFile, OneAtATime, AfterWrite, WithFile, Alone, TheOne, Outside
<1>9. ASSUME Calm \/ Alone PROVE Knows(p)'
  BY <1>4, <1>5, <1>9, ParsedMarks
     DEF IInv, Find, Knows, Holds, Turns, Calm, Alone, Outside, AfterWrite, Unprocessed
<1> QED BY <1>7, <1>8, <1>9, MarksStay, StepKeeps

LEMMA ParseMetaKeeps == ASSUME IInv, NEW p \in Procs, ParseMeta(p) PROVE IInv'
<1>0. PICK marks \in Parsed : StartBatch(p, marks)
  BY DEF ParseMeta
<1> DEFINE batch == IF "tight" \in env THEN First(proc[p].todo, Limit) ELSE proc[p].todo
           seen == [f \in Files |-> IF f \in batch THEN marks[f].cursor ELSE 0]
           r == [proc[p] EXCEPT !.pc = "next", !.todo = batch, !.stale = seen]
<1>1. proc[p] \in Process /\ TypeOK
  BY DEF IInv, TypeOK
<1>2. batch \subseteq proc[p].todo /\ batch \subseteq Files
  BY <1>1 DEF Process, First
<1>3. seen \in [Files -> 0 .. MaxLines]
  <2>1. ASSUME NEW f \in Files PROVE meta[f].cursor \in 0 .. MaxLines
    BY <1>1 DEF TypeOK, Marks
  <2>2. ASSUME NEW f \in Files PROVE NoMarks[f].cursor = 0
    BY DEF NoMarks, NoMark
  <2>3. 0 \in 0 .. MaxLines
    BY BoundsNat
  <2> QED BY <2>1, <2>2, <2>3, ParsedMarks
<1>4. r \in Process
  BY <1>1, <1>2, <1>3 DEF Process
<1>5. Becomes(p, r)
  BY <1>0 DEF StartBatch
<1>6. proc' \in [Procs -> Process] /\ proc'[p] = r /\ \A q \in Procs : q # p => proc'[q] = proc[q]
  BY <1>1, <1>4, <1>5, BecomesTyped
<1>7. r.pc = "next" /\ r.stale = seen /\ r.copy = proc[p].copy
  BY <1>1 DEF Process
<1>8. TypeOK'
  BY <1>1, <1>6 DEF ParseMeta, TypeOK, Outside
<1>9. Steps(p) /\ meta' = meta
  BY <1>6, <1>8 DEF ParseMeta, Steps, Outside
<1>10. HasFile(p)' /\ OneAtATime(p)'
  BY <1>6, <1>7
     DEF IInv, ParseMeta, HasFile, OneAtATime, AfterWrite, WithFile, Alone, TheOne, Outside
<1>11. ASSUME Calm \/ Alone PROVE Knows(p)'
  <2>1. MarksHold /\ Knows(p)
    BY <1>11 DEF IInv
  <2>2. ASSUME NEW f \in Files PROVE Holds(f, "active", seen[f], prepared[f])
    <3>1. Turns(f, 1, 0) = {} /\ Len(log[f]) \in Nat
      BY <1>1 DEF Turns, TypeOK
    <3>2. meta[f].status \in Statuses /\ meta[f].cursor \in 0 .. MaxLines
      BY <1>1 DEF TypeOK, Marks, Statuses
    <3>3. CASE f \notin batch \/ marks = NoMarks
      BY <3>1, <3>3 DEF Holds, NoMarks, NoMark
    <3>4. CASE f \in batch /\ marks = meta /\ meta[f].status = "sealed"
      <4>1. Calm
        BY <1>2, <1>11, <2>1, <3>4 DEF Knows, ParseMeta
      <4>2. Turns(f, 1, Len(log[f])) \subseteq prepared[f] /\ meta[f].cursor <= Len(log[f])
        BY <4>1, <2>1, <3>4 DEF MarksHold, Holds
      <4>3. Turns(f, 1, meta[f].cursor) \subseteq Turns(f, 1, Len(log[f]))
        BY <4>2, <3>1, <3>2, BoundsNat DEF Turns
      <4> QED BY <4>2, <4>3, <3>4 DEF Holds
    <3>5. CASE f \in batch /\ marks = meta /\ meta[f].status # "sealed"
      BY <2>1, <3>1, <3>2, <3>5 DEF MarksHold, Holds, Statuses
    <3> QED BY <3>3, <3>4, <3>5, ParsedMarks
  <2> QED
    BY <2>1, <2>2, <1>6, <1>7 DEF ParseMeta, Knows, Holds, Turns, Calm, Outside, AfterWrite
<1> QED BY <1>9, <1>10, <1>11, MarksStay, StepKeeps

LEMMA NextFileKeeps == ASSUME IInv, NEW p \in Procs, NextFile(p) PROVE IInv'
<1>1. PICK f \in proc[p].todo :
        Becomes(p, [proc[p] EXCEPT !.file = f, !.todo = @ \ {f},
                      !.pc = IF quiet[f] /\ ~Huge(f) THEN "whole" ELSE "window"])
  BY DEF NextFile
<1> DEFINE r == [proc[p] EXCEPT !.file = f, !.todo = @ \ {f},
                   !.pc = IF quiet[f] /\ ~Huge(f) THEN "whole" ELSE "window"]
<1>2. proc[p] \in Process /\ TypeOK
  BY DEF IInv, TypeOK
<1>3. f \in Files /\ r \in Process
  BY <1>2 DEF Process
<1>4. proc' \in [Procs -> Process] /\ proc'[p] = r /\ \A q \in Procs : q # p => proc'[q] = proc[q]
  BY <1>1, <1>2, <1>3, BecomesTyped
<1>5. /\ r.file = f /\ r.stale = proc[p].stale /\ r.copy = proc[p].copy
      /\ r.pc \in {"whole", "window"} /\ r.pc = "whole" => quiet[f]
  BY <1>2 DEF Process
<1>6. TypeOK'
  BY <1>2, <1>4 DEF NextFile, TypeOK, Outside
<1>7. Steps(p) /\ meta' = meta
  BY <1>4, <1>6 DEF NextFile, Steps, Outside
<1>8. HasFile(p)' /\ OneAtATime(p)'
  BY <1>3, <1>4, <1>5
     DEF IInv, NextFile, HasFile, OneAtATime, AfterWrite, WithFile, Alone, TheOne, Outside
<1>9. ASSUME Calm \/ Alone PROVE Knows(p)'
  BY <1>4, <1>5, <1>9
     DEF IInv, NextFile, Knows, Holds, Turns, Calm, Outside, AfterWrite
<1> QED BY <1>7, <1>8, <1>9, MarksStay, StepKeeps

LEMMA BatchEndsKeeps == ASSUME IInv, NEW p \in Procs, BatchEnds(p) PROVE IInv'
<1>1. TypeOK
  BY DEF IInv
<1>2. proc' \in [Procs -> Process] /\ proc'[p] = Idle /\ \A q \in Procs : q # p => proc'[q] = proc[q]
  BY <1>1, IdleTyped, BecomesTyped DEF BatchEnds
<1>3. Idle.pc = "idle" /\ Idle.stale = NoCursors /\ Idle.copy = NoMarks
  BY DEF Idle
<1>4. TypeOK'
  BY <1>1, <1>2 DEF BatchEnds, TypeOK, Outside
<1> QED BY <1>2, <1>3, <1>4, PlainStep DEF BatchEnds, Outside

\* On to the next transcript, with nothing changed.
LEMMA PassingKeeps ==
  ASSUME IInv, NEW p \in Procs, Passes(p), proc[p].pc # "idle",
         UNCHANGED <<Outside, exists, meta, lock, prepared>>
  PROVE  IInv'
<1>1. TypeOK
  BY DEF IInv
<1>2. TypeOK'
  BY <1>1, PassesTyped DEF TypeOK, Outside
<1> QED BY <1>1, <1>2, PassesTyped, PlainStep DEF Outside

LEMMA ReadWindowKeeps == ASSUME IInv, NEW p \in Procs, ReadWindow(p) PROVE IInv'
<1> DEFINE f == proc[p].file
           lines == Round(f, proc[p].stale[f])
<1>1. CASE Passes(p)
  BY <1>1, PassingKeeps DEF ReadWindow
<1>2. CASE ~Passes(p)
  <2>1. PICK last \in lines :
          /\ \A i \in lines : i <= last
          /\ Becomes(p, [proc[p] EXCEPT !.pc = "write", !.status = "active",
                           !.lines = lines, !.cursor = last])
    BY <1>2 DEF ReadWindow
  <2> DEFINE r == [proc[p] EXCEPT !.pc = "write", !.status = "active",
                     !.lines = lines, !.cursor = last]
  <2>2. proc[p] \in Process /\ TypeOK /\ f \in Files
    BY DEF IInv, TypeOK, HasFile, ReadWindow, WithFile
  <2>3. proc[p].stale[f] \in 0 .. MaxLines /\ lines \subseteq Lines
    BY <2>2, LinesTyped DEF Process
  <2>4. last \in 0 .. MaxLines /\ last <= Len(log[f])
    BY <2>2, <2>3, LinesTyped, BoundsNat DEF Lines, Round, Turns
  <2>5. r \in Process
    BY <2>2, <2>3, <2>4 DEF Process
  <2>6. proc' \in [Procs -> Process] /\ proc'[p] = r /\ \A q \in Procs : q # p => proc'[q] = proc[q]
    BY <2>1, <2>2, <2>5, BecomesTyped
  <2>7. /\ r.file = f /\ r.stale = proc[p].stale /\ r.copy = proc[p].copy
        /\ r.pc = "write" /\ r.status = "active" /\ r.lines = lines /\ r.cursor = last
    BY <2>2 DEF Process
  <2>8. TypeOK'
    BY <2>2, <2>6 DEF ReadWindow, TypeOK, Outside
  <2>9. Steps(p) /\ meta' = meta
    BY <2>6, <2>8 DEF ReadWindow, Steps, Outside
  <2>10. HasFile(p)' /\ OneAtATime(p)'
    BY <2>2, <2>6, <2>7
       DEF IInv, ReadWindow, HasFile, OneAtATime, AfterWrite, WithFile, Alone, TheOne, Outside
  <2>11. ASSUME Calm \/ Alone PROVE Knows(p)'
    <3>1. Turns(f, 1, proc[p].stale[f]) \subseteq prepared[f]
      BY <2>2, <2>11 DEF IInv, Knows, Holds
    <3>2. Turns(f, 1, last) \subseteq Turns(f, 1, proc[p].stale[f]) \cup lines
      BY <2>1, <2>2, <2>3, RoundPrefix
    <3>3. Holds(f, "active", last, prepared[f] \cup lines)
      BY <2>4, <3>1, <3>2 DEF Holds
    <3>4. /\ Knows(p) /\ env' = env /\ log' = log /\ quiet' = quiet
          /\ prepared' = prepared
      BY <2>11 DEF IInv, ReadWindow, Outside
    <3> HIDE DEF lines, r
    <3> QED BY <2>6, <2>7, <3>3, <3>4 DEF Knows, Holds, Turns, Calm, AfterWrite
  <2> QED BY <2>9, <2>10, <2>11, MarksStay, StepKeeps
<1> QED BY <1>1, <1>2

LEMMA ReadWholeKeeps == ASSUME IInv, NEW p \in Procs, ReadWhole(p) PROVE IInv'
<1> DEFINE f == proc[p].file
           lines == Turns(f, 1, Len(log[f]))
           r == [proc[p] EXCEPT !.pc = "last", !.lines = lines]
<1>1. CASE Passes(p)
  BY <1>1, PassingKeeps DEF ReadWhole
<1>2. CASE ~Passes(p)
  <2>1. Becomes(p, r)
    BY <1>2 DEF ReadWhole
  <2>2. proc[p] \in Process /\ TypeOK /\ f \in Files
    BY DEF IInv, TypeOK, HasFile, ReadWhole, WithFile
  <2>3. lines \subseteq Lines
    BY <2>2, LinesTyped
  <2>4. r \in Process
    BY <2>2, <2>3 DEF Process
  <2>5. proc' \in [Procs -> Process] /\ proc'[p] = r /\ \A q \in Procs : q # p => proc'[q] = proc[q]
    BY <2>1, <2>2, <2>4, BecomesTyped
  <2>6. /\ r.file = f /\ r.stale = proc[p].stale /\ r.copy = proc[p].copy
        /\ r.pc = "last" /\ r.lines = lines
    BY <2>2 DEF Process
  <2>7. TypeOK'
    BY <2>2, <2>5 DEF ReadWhole, TypeOK, Outside
  <2>8. Steps(p) /\ meta' = meta
    BY <2>5, <2>7 DEF ReadWhole, Steps, Outside
  <2>9. HasFile(p)' /\ OneAtATime(p)'
    BY <2>2, <2>5, <2>6
       DEF IInv, ReadWhole, HasFile, OneAtATime, AfterWrite, WithFile, Alone, TheOne, Outside
  <2>10. ASSUME Calm \/ Alone PROVE Knows(p)'
    BY <2>5, <2>6, <2>10
       DEF IInv, ReadWhole, Knows, Holds, Turns, Calm, Outside, AfterWrite
  <2> QED BY <2>8, <2>9, <2>10, MarksStay, StepKeeps
<1> QED BY <1>1, <1>2

LEMMA ReadLastKeeps == ASSUME IInv, NEW p \in Procs, ReadLast(p) PROVE IInv'
<1> DEFINE f == proc[p].file
           r == [proc[p] EXCEPT !.pc = "write", !.status = "sealed", !.cursor = Len(log[f])]
<1>1. Becomes(p, r)
  BY DEF ReadLast
<1>2. proc[p] \in Process /\ TypeOK /\ f \in Files
  BY DEF IInv, TypeOK, HasFile, ReadLast, WithFile
<1>3. Len(log[f]) \in 0 .. MaxLines
  BY <1>2, LinesTyped
<1>4. r \in Process
  BY <1>2, <1>3 DEF Process
<1>5. proc' \in [Procs -> Process] /\ proc'[p] = r /\ \A q \in Procs : q # p => proc'[q] = proc[q]
  BY <1>1, <1>2, <1>4, BecomesTyped
<1>6. /\ r.file = f /\ r.stale = proc[p].stale /\ r.copy = proc[p].copy /\ r.lines = proc[p].lines
      /\ r.pc = "write" /\ r.status = "sealed" /\ r.cursor = Len(log[f])
  BY <1>2 DEF Process
<1>7. TypeOK'
  BY <1>2, <1>5 DEF ReadLast, TypeOK, Outside
<1>8. Steps(p) /\ meta' = meta
  BY <1>5, <1>7 DEF ReadLast, Steps, Outside
<1>9. HasFile(p)' /\ OneAtATime(p)'
  BY <1>2, <1>5, <1>6
     DEF IInv, ReadLast, HasFile, OneAtATime, AfterWrite, WithFile, Alone, TheOne, Outside
<1>10. ASSUME Calm \/ Alone PROVE Knows(p)'
  <2>1. Holds(f, "sealed", Len(log[f]), prepared[f] \cup proc[p].lines)
    BY <1>2, <1>3, <1>10 DEF IInv, Knows, Holds, ReadLast
  <2> QED
    BY <1>5, <1>6, <1>10, <2>1
       DEF IInv, ReadLast, Knows, Holds, Turns, Calm, Outside, AfterWrite
<1> QED BY <1>8, <1>9, <1>10, MarksStay, StepKeeps

LEMMA WriteOutputKeeps == ASSUME IInv, NEW p \in Procs, WriteOutput(p) PROVE IInv'
<1> DEFINE f == proc[p].file
           r == [proc[p] EXCEPT !.pc = "mark"]
<1>1. proc[p] \in Process /\ TypeOK /\ f \in Files
  BY DEF IInv, TypeOK, HasFile, WriteOutput, WithFile
<1>2. proc' \in [Procs -> Process] /\ proc'[p] = r /\ \A q \in Procs : q # p => proc'[q] = proc[q]
  BY <1>1, GoesTyped DEF WriteOutput
<1>3. /\ r.file = f /\ r.stale = proc[p].stale /\ r.copy = proc[p].copy
      /\ r.pc = "mark" /\ r.status = proc[p].status /\ r.cursor = proc[p].cursor
  BY <1>1 DEF Process
<1>4. /\ prepared' \in [Files -> SUBSET Lines]
      /\ prepared'[f] = prepared[f] \cup proc[p].lines
      /\ \A g \in Files : prepared[g] \subseteq prepared'[g]
  BY <1>1 DEF WriteOutput, TypeOK, Process
<1>5. TypeOK'
  BY <1>1, <1>2, <1>4 DEF WriteOutput, TypeOK, Outside
<1>6. Steps(p) /\ meta' = meta
  BY <1>2, <1>4, <1>5 DEF WriteOutput, Steps, Outside
<1>7. HasFile(p)' /\ OneAtATime(p)'
  BY <1>1, <1>2, <1>3
     DEF IInv, WriteOutput, HasFile, OneAtATime, AfterWrite, WithFile, Alone, TheOne, Outside
<1>8. ASSUME Calm \/ Alone PROVE Knows(p)'
  <2>1. Knows(p) /\ env' = env /\ log' = log /\ quiet' = quiet /\ proc[p].pc = "write"
    BY <1>8 DEF IInv, WriteOutput, Outside
  <2>2. Holds(f, proc[p].status, proc[p].cursor, prepared'[f])
    BY <1>4, <2>1 DEF Knows
  <2>3. \A g \in Files : Holds(g, "active", proc[p].stale[g], prepared'[g])
    BY <1>4, <2>1 DEF Knows, Holds
  <2>4. \A g \in Files : Holds(g, proc[p].copy[g].status, proc[p].copy[g].cursor, prepared'[g])
    BY <1>4, <2>1 DEF Knows, Holds
  <2> QED BY <1>2, <1>3, <2>1, <2>2, <2>3, <2>4 DEF Knows, Holds, Turns, Calm
<1> QED BY <1>6, <1>7, <1>8, MarksStay, StepKeeps

\* From one place of mark_processed to the next.
LEMMA GoingKeeps ==
  ASSUME IInv, NEW p \in Procs, NEW pc \in {"create", "lock", "read"}, Goes(p, pc),
         proc[p].pc \in AfterWrite, UNCHANGED <<Outside, meta, prepared>>,
         exists' \in BOOLEAN, lock' \in Procs \cup {None}
  PROVE  IInv'
<1>1. TypeOK /\ proc[p] \in Process
  BY DEF IInv, TypeOK
<1>2. /\ proc' \in [Procs -> Process] /\ proc'[p] = [proc[p] EXCEPT !.pc = pc]
      /\ \A q \in Procs : q # p => proc'[q] = proc[q]
  BY <1>1, GoesTyped
<1>3. /\ proc'[p].pc = pc /\ proc'[p].file = proc[p].file /\ proc'[p].status = proc[p].status
      /\ proc'[p].cursor = proc[p].cursor /\ proc'[p].stale = proc[p].stale
      /\ proc'[p].copy = proc[p].copy
  BY <1>1, <1>2 DEF Process
<1>4. TypeOK'
  BY <1>1, <1>2 DEF TypeOK, Outside
<1>5. pc \in AfterWrite /\ proc[p].pc # "idle"
  BY DEF AfterWrite
<1> QED BY <1>2, <1>3, <1>4, <1>5, PlainStep DEF Outside

LEMMA LookForMetaKeeps == ASSUME IInv, NEW p \in Procs, LookForMeta(p) PROVE IInv'
<1>1. PICK pc \in {"create", "lock", "read"} : Goes(p, pc)
  BY DEF LookForMeta
<1> QED BY <1>1, GoingKeeps DEF LookForMeta, AfterWrite, IInv, TypeOK

LEMMA LockKeeps == ASSUME IInv, NEW p \in Procs, Lock(p) PROVE IInv'
  BY GoingKeeps DEF Lock, AfterWrite, IInv, TypeOK

LEMMA LockFailsKeeps == ASSUME IInv, NEW p \in Procs, LockFails(p) PROVE IInv'
<1>1. CASE Goes(p, "read")
  BY <1>1, GoingKeeps DEF LockFails, AfterWrite, IInv, TypeOK
<1>2. CASE Passes(p)
  BY <1>2, PassingKeeps DEF LockFails
<1> QED BY <1>1, <1>2 DEF LockFails

LEMMA CreateMetaKeeps == ASSUME IInv, NEW p \in Procs, CreateMeta(p) PROVE IInv'
<1>1. TypeOK /\ proc[p] \in Process
  BY DEF IInv, TypeOK
<1>2. /\ proc' \in [Procs -> Process] /\ proc'[p] = [proc[p] EXCEPT !.pc = "lock"]
      /\ \A q \in Procs : q # p => proc'[q] = proc[q]
  BY <1>1, GoesTyped DEF CreateMeta
<1>3. /\ proc'[p].pc = "lock" /\ proc'[p].file = proc[p].file
      /\ proc'[p].status = proc[p].status
      /\ proc'[p].cursor = proc[p].cursor /\ proc'[p].stale = proc[p].stale
      /\ proc'[p].copy = proc[p].copy
  BY <1>1, <1>2 DEF Process
<1>4. TypeOK'
  BY <1>1, <1>2, IdleTyped DEF CreateMeta, TypeOK, Outside
<1>5. Steps(p)
  BY <1>2, <1>4 DEF CreateMeta, Steps, Outside
<1>6. HasFile(p)' /\ OneAtATime(p)'
  BY <1>2, <1>3
     DEF IInv, CreateMeta, HasFile, OneAtATime, AfterWrite, WithFile, Alone, TheOne, Outside
<1>7. ASSUME Calm \/ Alone PROVE Knows(p)'
  BY <1>3, <1>7 DEF IInv, CreateMeta, Knows, Holds, Turns, Calm, Outside, AfterWrite
<1>8. MarksHold'
  <2>1. \A f \in Files : Len(log[f]) >= 0
    BY <1>1 DEF TypeOK
  <2> QED BY <2>1 DEF CreateMeta, MarksHold, Holds, NoMarks, NoMark, Outside
<1> QED BY <1>5, <1>6, <1>7, <1>8, StepKeeps

LEMMA ReadMetaKeeps == ASSUME IInv, NEW p \in Procs, ReadMeta(p) PROVE IInv'
<1> DEFINE r == [proc[p] EXCEPT !.pc = "replace", !.copy = meta]
<1>1. TypeOK /\ proc[p] \in Process /\ Becomes(p, r)
  BY DEF IInv, TypeOK, ReadMeta
<1>2. r \in Process
  BY <1>1 DEF Process, TypeOK
<1>3. proc' \in [Procs -> Process] /\ proc'[p] = r /\ \A q \in Procs : q # p => proc'[q] = proc[q]
  BY <1>1, <1>2, BecomesTyped
<1>4. /\ r.pc = "replace" /\ r.file = proc[p].file /\ r.status = proc[p].status
      /\ r.cursor = proc[p].cursor /\ r.stale = proc[p].stale /\ r.copy = meta
  BY <1>1 DEF Process
<1>5. TypeOK'
  BY <1>1, <1>3 DEF ReadMeta, TypeOK, Outside
<1>6. proc[p].pc \in AfterWrite /\ proc[p].pc # "idle" /\ "replace" \in AfterWrite
  BY DEF ReadMeta, AfterWrite
<1>7. UNCHANGED <<env, log, quiet, prepared>> /\ meta' = meta
  BY DEF ReadMeta, Outside
<1>8. /\ proc'[p].pc \in AfterWrite /\ proc'[p].file = proc[p].file
      /\ proc'[p].status = proc[p].status /\ proc'[p].cursor = proc[p].cursor
      /\ proc'[p].stale = proc[p].stale /\ proc'[p].copy = meta
  BY <1>3, <1>4, <1>6
<1> HIDE DEF r
<1> QED BY <1>3, <1>5, <1>6, <1>7, <1>8, PlainStep

LEMMA MarkHolds ==
  ASSUME TypeOK, NEW marks \in [Files -> Marks], NEW f \in Files,
         NEW cursor \in 0 .. MaxLines, NEW status \in Statuses, status # "none",
         Holds(f, status, cursor, prepared[f]),
         \A g \in Files : Holds(g, marks[g].status, marks[g].cursor, prepared[g])
  PROVE  LET new == Compacted(Marked(marks, f, cursor, status)) IN
           \A g \in Files : Holds(g, new[g].status, new[g].cursor, prepared[g])
<1> DEFINE mid == Marked(marks, f, cursor, status)
           new == Compacted(mid)
<1> SUFFICES ASSUME NEW g \in Files
             PROVE  Holds(g, new[g].status, new[g].cursor, prepared[g])
  OBVIOUS
<1>1. mid \in [Files -> Marks]
  BY MarksTyped
<1>2. Holds(g, mid[g].status, mid[g].cursor, prepared[g])
  <2>1. CASE g = f
    <3>1. mid[f].status = status /\ mid[f].cursor = cursor
      BY DEF Marked
    <3> QED BY <2>1, <3>1
  <2>2. CASE g # f
    BY <2>2 DEF Marked
  <2> QED BY <2>1, <2>2
<1>3. \/ new[g] = mid[g]
      \/ mid[g].status = "sealed" /\ new[g] = [mid[g] EXCEPT !.cursor = 0, !.full = FALSE]
  BY DEF Compacted
<1>4. CASE new[g] = mid[g]
  BY <1>2, <1>4
<1>5. CASE mid[g].status = "sealed" /\ new[g] = [mid[g] EXCEPT !.cursor = 0, !.full = FALSE]
  <2>1. mid[g] \in Marks
    BY <1>1
  <2>2. new[g].status = "sealed" /\ new[g].cursor = 0
    BY <1>5, <2>1 DEF Marks
  <2>3. Len(log[g]) >= 0
    BY DEF TypeOK
  <2> QED BY <1>2, <1>5, <2>2, <2>3 DEF Holds
<1> QED BY <1>3, <1>4, <1>5

LEMMA ReplaceKeeps == ASSUME IInv, NEW p \in Procs, Replace(p) PROVE IInv'
<1> DEFINE new == Compacted(Marked(proc[p].copy, proc[p].file, proc[p].cursor, proc[p].status))
<1>1. /\ TypeOK /\ proc[p] \in Process /\ proc[p].file \in Files
      /\ proc[p].status \in Statuses /\ proc[p].status # "none"
      /\ proc[p].copy \in [Files -> Marks] /\ proc[p].cursor \in 0 .. MaxLines
      /\ proc[p].pc = "replace" /\ proc[p].pc \in AfterWrite /\ Passes(p)
  BY DEF IInv, TypeOK, Replace, HasFile, WithFile, AfterWrite, Process, Statuses
<1>2. /\ proc' \in [Procs -> Process]
      /\ proc'[p].pc = "next" /\ proc'[p].stale = proc[p].stale /\ proc'[p].copy = NoMarks
      /\ \A q \in Procs : q # p => proc'[q] = proc[q]
  BY <1>1, PassesTyped
<1>3. new \in [Files -> Marks]
  <2>1. Marked(proc[p].copy, proc[p].file, proc[p].cursor, proc[p].status) \in [Files -> Marks]
    BY <1>1, MarksTyped
  <2> QED BY <1>1, <2>1, MarksTyped
<1>4. UNCHANGED <<env, log, quiet, crashed, exists, prepared>> /\ meta' \in {new, meta}
  BY DEF Replace, Writes, Outside
<1>5. TypeOK'
  <2>1. lock' \in Procs \cup {None} /\ meta' \in [Files -> Marks]
    BY <1>1, <1>3, <1>4 DEF Replace, Unlocks, TypeOK
  <2> HIDE DEF new
  <2> QED BY <1>1, <1>2, <1>4, <2>1 DEF TypeOK
<1>6. CASE meta' = meta
  <2>1. proc[p].pc # "idle"
    BY <1>1
  <2> HIDE DEF new
  <2> QED BY <1>2, <1>4, <1>5, <1>6, <2>1, PlainStep
<1>7. CASE meta' = new
  <2>1. Steps(p)
    BY <1>1, <1>2, <1>4, <1>5 DEF Steps, Outside
  <2>2. HasFile(p)' /\ OneAtATime(p)'
    BY <1>1, <1>2, <1>4
       DEF IInv, HasFile, OneAtATime, AfterWrite, WithFile, Alone, TheOne
  <2>3. ASSUME Calm \/ Alone PROVE MarksHold' /\ Knows(p)'
    <3>1. Knows(p)
      BY <2>3 DEF IInv
    <3>2. \A g \in Files : Holds(g, new[g].status, new[g].cursor, prepared[g])
      BY <1>1, <3>1, MarkHolds DEF Knows
    <3> HIDE DEF new
    <3>3. MarksHold'
      BY <1>4, <1>7, <3>2 DEF MarksHold, Holds, Turns, Calm
    <3>4. \A g \in Files : Len(log[g]) >= 0
      BY <1>1 DEF TypeOK
    <3>5. Knows(p)'
      BY <1>2, <1>4, <3>1, <3>4 DEF Knows, Holds, Turns, Calm, AfterWrite, NoMarks, NoMark
    <3> QED BY <3>3, <3>5
  <2> QED BY <2>1, <2>2, <2>3, StepKeeps
<1> QED BY <1>4, <1>6, <1>7

LEMMA CrashKeeps == ASSUME IInv, NEW p \in Procs, Crash(p) PROVE IInv'
<1>1. TypeOK
  BY DEF IInv
<1>2. proc' \in [Procs -> Process] /\ proc'[p] = Idle /\ \A q \in Procs : q # p => proc'[q] = proc[q]
  BY <1>1, IdleTyped, BecomesTyped DEF Crash, Becomes
<1>3. Idle.pc = "idle" /\ Idle.stale = NoCursors /\ Idle.copy = NoMarks
  BY DEF Idle
<1>4. lock' \in Procs \cup {None}
  BY <1>1 DEF Crash, Unlocks, TypeOK
<1>5. TypeOK'
  BY <1>1, <1>2, <1>4 DEF Crash, TypeOK
<1> QED BY <1>2, <1>3, <1>5, PlainStep DEF Crash

-----------------------------------------------------------------------------
(* The steps of the sessions.                                              *)

\* Appending a line disturbs no mark: what was read stays, and on a calm
\* project nothing is said in a transcript that may have been sealed.
LEMMA SaysKeeps == ASSUME IInv, NEW f \in Files, NEW kind \in Kinds, Says(f, kind) PROVE IInv'
<1>1. /\ UNCHANGED <<env, exists, meta, lock, prepared, proc, crashed>>
      /\ log' = [log EXCEPT ![f] = Append(log[f], kind)]
      /\ quiet' = [quiet EXCEPT ![f] = FALSE]
      /\ Len(log[f]) < MaxLines /\ TypeOK
  BY DEF Says, IInv
<1>0. Calm => ~quiet[f]
  BY DEF Says, Calm
<1>2. \A g \in Files : g # f => log'[g] = log[g] /\ quiet'[g] = quiet[g]
  <2>1. log \in [Files -> Seq(Kinds)] /\ quiet \in [Files -> BOOLEAN]
    BY <1>1 DEF TypeOK
  <2>2. \A g \in Files : g # f => log'[g] = log[g]
    BY <1>1, <2>1
  <2>3. \A g \in Files : g # f => quiet'[g] = quiet[g]
    BY <1>1, <2>1
  <2> QED BY <2>2, <2>3
<1>3. /\ log'[f] \in Seq(Kinds) /\ Len(log'[f]) = Len(log[f]) + 1 /\ Len(log[f]) \in Nat
      /\ \A i \in 1 .. Len(log[f]) : log'[f][i] = log[f][i]
  BY <1>1 DEF TypeOK
<1>4. TypeOK'
  <2>1. log' \in [Files -> Seq(Kinds)] /\ quiet' \in [Files -> BOOLEAN]
    <3>1. log \in [Files -> Seq(Kinds)] /\ quiet \in [Files -> BOOLEAN]
      BY <1>1 DEF TypeOK
    <3>2. Append(log[f], kind) \in Seq(Kinds)
      BY <3>1
    <3>3. log' \in [Files -> Seq(Kinds)]
      BY <1>1, <3>1, <3>2
    <3>4. quiet' \in [Files -> BOOLEAN]
      BY <1>1, <3>1
    <3> QED BY <3>3, <3>4
  <2>2. \A g \in Files : Len(log'[g]) <= MaxLines
    BY <1>1, <1>2, <1>3, BoundsNat DEF TypeOK
  <2> QED BY <1>1, <2>1, <2>2 DEF TypeOK
<1>5. ASSUME NEW g \in Files, NEW s \in Statuses, NEW c \in 0 .. MaxLines, NEW done,
             Holds(g, s, c, done)
      PROVE  /\ c <= Len(log'[g])
             /\ s = "none" => c = 0
             /\ s = "active" => Turns(g, 1, c)' \subseteq done
             /\ s = "sealed" /\ Calm => quiet'[g] /\ Turns(g, 1, Len(log[g]))' \subseteq done
  <2>1. CASE g # f
    <3>1. Turns(g, 1, c)' = Turns(g, 1, c)
          /\ Turns(g, 1, Len(log[g]))' = Turns(g, 1, Len(log[g]))
      BY <1>2, <2>1 DEF Turns
    <3> QED BY <1>2, <1>5, <2>1, <3>1 DEF Holds
  <2>2. CASE g = f
    <3>1. c <= Len(log[f]) /\ ~(s = "sealed" /\ Calm)
      BY <1>0, <1>5, <2>2 DEF Holds
    <3>2. Turns(f, 1, c)' = Turns(f, 1, c)
      <4>1. DOMAIN log[f] = 1 .. Len(log[f]) /\ DOMAIN log'[f] = 1 .. Len(log'[f])
        BY <1>1, <1>3 DEF TypeOK
      <4> QED BY <1>3, <3>1, <4>1, BoundsNat DEF Turns
    <3> QED BY <1>3, <1>5, <2>2, <3>1, <3>2, BoundsNat DEF Holds
  <2> QED BY <2>1, <2>2
<1>6. ASSUME Calm \/ Alone PROVE MarksHold'
  <2>1. \A g \in Files : meta[g].status \in Statuses /\ meta[g].cursor \in 0 .. MaxLines
    BY <1>1 DEF TypeOK, Marks, Statuses
  <2>2. MarksHold
    BY <1>6 DEF IInv
  <2> QED BY <1>1, <1>5, <2>1, <2>2 DEF MarksHold, Holds, Calm
<1>7. ASSUME Calm \/ Alone, NEW p \in Procs PROVE Knows(p)'
  <2>1. Knows(p) /\ HasFile(p) /\ proc[p] \in Process /\ proc'[p] = proc[p]
    BY <1>1, <1>7 DEF IInv, TypeOK
  <2>2. /\ proc[p].status \in Statuses /\ proc[p].cursor \in 0 .. MaxLines
        /\ \A g \in Files : /\ proc[p].stale[g] \in 0 .. MaxLines
                            /\ proc[p].copy[g].status \in Statuses
                            /\ proc[p].copy[g].cursor \in 0 .. MaxLines
    BY <2>1 DEF Process, Marks, Statuses
  <2>3. \A g \in Files : Holds(g, "active", proc[p].stale[g], prepared[g])'
    <3>1. "active" \in Statuses
      BY DEF Statuses
    <3> QED BY <1>1, <1>5, <2>1, <2>2, <3>1 DEF Knows, Holds, Calm
  <2>4. \A g \in Files : Holds(g, proc[p].copy[g].status, proc[p].copy[g].cursor, prepared[g])'
    BY <1>1, <1>5, <2>1, <2>2 DEF Knows, Holds, Calm
  <2>5. ASSUME proc[p].pc \in {"whole", "last"}, Calm
        PROVE  /\ quiet'[proc[p].file]
               /\ Turns(proc[p].file, 1, Len(log[proc[p].file]))'
                    = Turns(proc[p].file, 1, Len(log[proc[p].file]))
    <3>1. quiet[proc[p].file] /\ proc[p].file \in Files
      BY <2>1, <2>5 DEF Knows, HasFile, WithFile
    <3>2. proc[p].file # f
      BY <1>0, <2>5, <3>1
    <3> QED BY <1>1, <1>2, <3>1, <3>2 DEF Turns
  <2>6. ASSUME proc[p].pc = "write"
        PROVE  Holds(proc[p].file, proc[p].status, proc[p].cursor,
                     prepared[proc[p].file] \cup proc[p].lines)'
    <3>1. proc[p].file \in Files
      BY <2>1, <2>6 DEF HasFile, WithFile
    <3> QED BY <1>1, <1>5, <2>1, <2>2, <2>6, <3>1 DEF Knows, Holds, Calm
  <2>7. ASSUME proc[p].pc \in AfterWrite
        PROVE  Holds(proc[p].file, proc[p].status, proc[p].cursor, prepared[proc[p].file])'
    <3>1. proc[p].file \in Files
      BY <2>1, <2>7 DEF HasFile, WithFile
    <3> QED BY <1>1, <1>5, <2>1, <2>2, <2>7, <3>1 DEF Knows, Holds, Calm
  <2>8. proc[p].pc = "parse" /\ Alone => \A g \in proc[p].todo : meta[g].status # "sealed"
    BY <2>1 DEF Knows
  <2> QED BY <1>1, <2>1, <2>3, <2>4, <2>5, <2>6, <2>7, <2>8 DEF Knows, Calm, Alone
<1> QED BY <1>1, <1>4, <1>6, <1>7
       DEF IInv, HasFile, OneAtATime, Alone, Calm

LEMMA GoesQuietKeeps == ASSUME IInv, NEW f \in Files, GoesQuiet(f) PROVE IInv'
<1>1. /\ UNCHANGED <<env, log, exists, meta, lock, prepared, proc, crashed>>
      /\ quiet' \in [Files -> BOOLEAN] /\ TypeOK
      /\ \A g \in Files : quiet[g] => quiet'[g]
  BY DEF GoesQuiet, IInv, TypeOK
<1>2. TypeOK'
  BY <1>1 DEF TypeOK
<1>3. ASSUME Calm \/ Alone PROVE MarksHold'
  BY <1>1, <1>3 DEF IInv, MarksHold, Holds, Turns, Calm
<1>4. ASSUME Calm \/ Alone, NEW p \in Procs PROVE Knows(p)'
  <2>1. Knows(p) /\ HasFile(p)
    BY <1>4 DEF IInv
  <2> QED BY <1>1, <2>1 DEF Knows, HasFile, WithFile, AfterWrite, Holds, Turns, Calm, Alone
<1> QED BY <1>1, <1>2, <1>3, <1>4 DEF IInv, HasFile, OneAtATime, Alone, Calm

-----------------------------------------------------------------------------
(* Every step keeps the invariant.                                         *)

LEMMA InitIInv == Init => IInv
<1> SUFFICES ASSUME Init PROVE IInv
  OBVIOUS
<1>1. \A p \in Procs : proc[p] = Idle
  BY DEF Init
<1>2. /\ Idle.pc = "idle" /\ Idle.stale = NoCursors /\ Idle.copy = NoMarks
  BY DEF Idle
<1>3. \A f \in Files : Len(log[f]) = 0 /\ Turns(f, 1, 0) = {}
  BY DEF Init, Turns
<1>4. MarksHold
  BY <1>3 DEF Init, MarksHold, Holds, NoMarks, NoMark
<1>5. \A p \in Procs : Knows(p)
  BY <1>1, <1>2, <1>3
     DEF Knows, Holds, NoCursors, NoMarks, NoMark, AfterWrite
<1>6. \A p \in Procs : HasFile(p) /\ OneAtATime(p)
  BY <1>1, <1>2 DEF HasFile, OneAtATime, WithFile, AfterWrite
<1> QED BY <1>4, <1>5, <1>6, TypeInit DEF IInv

LEMMA NextIInv == IInv /\ [Next]_vars => IInv'
<1> SUFFICES ASSUME IInv, [Next]_vars PROVE IInv'
  OBVIOUS
<1>1. ASSUME NEW f \in Files, NEW kind \in Kinds, Says(f, kind) PROVE IInv'
  BY <1>1, SaysKeeps
<1>2. ASSUME NEW f \in Files, GoesQuiet(f) PROVE IInv'
  BY <1>2, GoesQuietKeeps
<1>3. ASSUME NEW p \in Procs, Step(p) PROVE IInv'
  BY <1>3, FindKeeps, ParseMetaKeeps, NextFileKeeps, BatchEndsKeeps, ReadWindowKeeps,
     ReadWholeKeeps, ReadLastKeeps, WriteOutputKeeps, LookForMetaKeeps, CreateMetaKeeps,
     LockKeeps, LockFailsKeeps, ReadMetaKeeps, ReplaceKeeps DEF Step
<1>4. ASSUME NEW p \in Procs, Crash(p) PROVE IInv'
  BY <1>4, CrashKeeps
<1>5. CASE UNCHANGED vars
  BY <1>5 DEF vars, IInv, TypeOK, HasFile, OneAtATime, MarksHold, Knows, Holds, Turns,
              Calm, Alone
<1> QED BY <1>1, <1>2, <1>3, <1>4, <1>5 DEF Next

-----------------------------------------------------------------------------
(* One process at a time: what it has read of the marks is still so.       *)

InHand(p) == proc[p].todo \cup IF proc[p].pc \in WithFile THEN {proc[p].file} ELSE {}

\* What a process that is alone has read, and the mark that it will make.
Current(p) ==
  /\ proc[p].pc \notin {"idle", "parse"} =>
       \A f \in InHand(p) : meta[f].status # "sealed" /\ proc[p].stale[f] = meta[f].cursor
  /\ proc[p].pc \in WithFile => proc[p].file \notin proc[p].todo
  /\ proc[p].pc \in AfterWrite \cup {"write"} /\ proc[p].status = "active"
       => proc[p].cursor > proc[p].stale[proc[p].file]
  /\ proc[p].pc = "create" => ~exists
  /\ proc[p].pc \in {"lock", "read", "replace"} => exists
  /\ proc[p].pc = "replace" => proc[p].copy = meta

NothingStale ==
  Alone => /\ ~exists => meta = NoMarks
           /\ \A p \in Procs : Current(p)

LEMMA AloneAlways ==
  ASSUME IInv, Alone, NEW p \in Procs, Step(p) \/ Crash(p)
  PROVE  p = TheOne
<1>1. CASE proc[p].pc # "idle"
  BY <1>1 DEF IInv, OneAtATime
<1>2. CASE proc[p].pc = "idle"
  BY <1>2 DEF Step, Crash, Find, ParseMeta, NextFile, BatchEnds, ReadWindow, ReadWhole, ReadLast,
              WriteOutput, LookForMeta, CreateMeta, Lock, LockFails, ReadMeta, Replace,
              Alone, TheOne
<1> QED BY <1>1, <1>2

\* What is left to show of a step of the one process that is awake.
LEMMA CurrentStep ==
  ASSUME IInv, Alone, NEW p \in Procs, p = TheOne, env' = env,
         \A q \in Procs : q # p => proc'[q] = proc[q],
         ~exists' => meta' = NoMarks, Current(p)'
  PROVE  NothingStale'
<1>1. ASSUME NEW q \in Procs, q # p PROVE Current(q)'
  <2>1. proc[q].pc = "idle"
    BY <1>1 DEF IInv, OneAtATime
  <2>2. proc'[q].pc = "idle"
    BY <1>1, <2>1
  <2> QED BY <2>2 DEF Current, WithFile, AfterWrite
<1> QED BY <1>1 DEF NothingStale

\* A step of reading and writing, which leaves the marks alone.
LEMMA MarksUnchanged ==
  ASSUME IInv, NothingStale, Alone, NEW p \in Procs, p = TheOne, env' = env,
         \A q \in Procs : q # p => proc'[q] = proc[q],
         UNCHANGED <<meta, exists>>, Current(p)'
  PROVE  NothingStale'
  BY CurrentStep DEF NothingStale

LEMMA PassesCurrent ==
  ASSUME TypeOK, NEW p \in Procs, Passes(p), Current(p), proc[p].pc \notin {"idle", "parse"},
         \A f \in proc[p].todo :
           meta'[f].status = meta[f].status /\ meta'[f].cursor = meta[f].cursor
  PROVE  Current(p)'
<1> DEFINE r == [Idle EXCEPT !.pc = "next", !.todo = proc[p].todo, !.stale = proc[p].stale]
<1>1. proc'[p] = r
  BY DEF Passes, Becomes, TypeOK
<1>2. r.pc = "next" /\ r.todo = proc[p].todo /\ r.stale = proc[p].stale
  BY DEF Idle
<1> HIDE DEF r
<1>3. proc'[p].pc = "next" /\ proc'[p].todo = proc[p].todo /\ proc'[p].stale = proc[p].stale
  BY <1>1, <1>2
<1>4. InHand(p)' = proc[p].todo
  BY <1>3 DEF InHand, WithFile, AfterWrite
<1>5. \A f \in InHand(p)' :
        meta'[f].status # "sealed" /\ proc'[p].stale[f] = meta'[f].cursor
  BY <1>3, <1>4 DEF Current, InHand
<1> QED BY <1>3, <1>5 DEF Current, WithFile, AfterWrite

LEMMA PassingCurrent ==
  ASSUME IInv, NothingStale, Alone, NEW p \in Procs, p = TheOne, Passes(p),
         proc[p].pc \notin {"idle", "parse"}, UNCHANGED <<env, meta, exists>>
  PROVE  NothingStale'
<1>1. TypeOK /\ Current(p)
  BY DEF IInv, NothingStale
<1>2. \A q \in Procs : q # p => proc'[q] = proc[q]
  BY <1>1, PassesTyped
<1>3. Current(p)'
  BY <1>1, PassesCurrent
<1> QED BY <1>2, <1>3, MarksUnchanged

\* From one place of the same transcript to the next.
LEMMA SameFile ==
  ASSUME IInv, NothingStale, Alone, NEW p \in Procs, p = TheOne,
         UNCHANGED <<env, meta, exists>>,
         \A q \in Procs : q # p => proc'[q] = proc[q],
         proc[p].pc \in WithFile, proc'[p].pc \in WithFile,
         proc'[p].file = proc[p].file, proc'[p].todo = proc[p].todo,
         proc'[p].stale = proc[p].stale,
         proc'[p].pc \in AfterWrite \cup {"write"} /\ proc'[p].status = "active"
           => proc'[p].cursor > proc[p].stale[proc[p].file],
         proc'[p].pc = "create" => ~exists,
         proc'[p].pc \in {"lock", "read", "replace"} => exists,
         proc'[p].pc = "replace" => proc'[p].copy = meta
  PROVE  NothingStale'
<1>1. Current(p)
  BY DEF NothingStale
<1>2. InHand(p)' = InHand(p)
  BY DEF InHand
<1>3. proc[p].pc \notin {"idle", "parse"}
  BY DEF WithFile, AfterWrite
<1>4. Current(p)'
  BY <1>1, <1>2, <1>3 DEF Current
<1> QED BY <1>4, MarksUnchanged

LEMMA GoingCurrent ==
  ASSUME IInv, NothingStale, Alone, NEW p \in Procs, p = TheOne,
         NEW pc \in {"mark", "create", "lock", "read"}, Goes(p, pc),
         UNCHANGED <<env, meta, exists>>, proc[p].pc \in AfterWrite \cup {"write"},
         pc = "create" => ~exists, pc \in {"lock", "read"} => exists
  PROVE  NothingStale'
<1>1. TypeOK /\ proc[p] \in Process /\ Current(p)
  BY DEF IInv, TypeOK, NothingStale
<1>2. /\ proc'[p] = [proc[p] EXCEPT !.pc = pc]
      /\ \A q \in Procs : q # p => proc'[q] = proc[q]
  BY <1>1, GoesTyped
<1>3. /\ proc'[p].pc = pc /\ proc'[p].file = proc[p].file /\ proc'[p].status = proc[p].status
      /\ proc'[p].cursor = proc[p].cursor /\ proc'[p].stale = proc[p].stale
      /\ proc'[p].todo = proc[p].todo
  BY <1>1, <1>2 DEF Process
<1>4. /\ proc[p].pc \in WithFile /\ pc \in WithFile
      /\ pc \in AfterWrite \cup {"write"} /\ pc # "replace"
  BY DEF WithFile, AfterWrite
<1>5. proc[p].status = "active" => proc[p].cursor > proc[p].stale[proc[p].file]
  BY <1>1 DEF Current
<1> QED BY <1>2, <1>3, <1>4, <1>5, SameFile

LEMMA FindCurrent ==
  ASSUME IInv, NothingStale, Alone, NEW p \in Procs, p = TheOne, Find(p) PROVE NothingStale'
<1>0. PICK marks \in Parsed :
        Becomes(p, [proc[p] EXCEPT !.pc = "parse", !.todo = Unprocessed(marks)])
  BY DEF Find
<1> DEFINE r == [proc[p] EXCEPT !.pc = "parse", !.todo = Unprocessed(marks)]
<1>1. proc[p] \in Process /\ TypeOK
  BY DEF IInv, TypeOK
<1>2. r \in Process /\ r.pc = "parse"
  BY <1>1 DEF Process, Unprocessed
<1>3. proc'[p] = r /\ \A q \in Procs : q # p => proc'[q] = proc[q]
  BY <1>0, <1>1, <1>2, BecomesTyped
<1> HIDE DEF r
<1>4. Current(p)'
  BY <1>2, <1>3 DEF Current, WithFile, AfterWrite
<1> QED BY <1>3, <1>4, MarksUnchanged DEF Find, Outside

LEMMA ParseMetaCurrent ==
  ASSUME IInv, NothingStale, Alone, NEW p \in Procs, p = TheOne, ParseMeta(p)
  PROVE  NothingStale'
<1> DEFINE batch == IF "tight" \in env THEN First(proc[p].todo, Limit) ELSE proc[p].todo
           seen == [f \in Files |-> IF f \in batch THEN meta[f].cursor ELSE 0]
           r == [proc[p] EXCEPT !.pc = "next", !.todo = batch, !.stale = seen]
<1>1. proc[p] \in Process /\ TypeOK /\ Knows(p) /\ proc[p].pc = "parse"
  BY DEF IInv, TypeOK, ParseMeta
<1>2. batch \subseteq proc[p].todo /\ batch \subseteq Files
  BY <1>1 DEF Process, First
<1>3. seen \in [Files -> 0 .. MaxLines]
  BY <1>1, BoundsNat DEF TypeOK, Marks
<1>4. r \in Process /\ r.pc = "next" /\ r.todo = batch /\ r.stale = seen
  BY <1>1, <1>2, <1>3 DEF Process
<1>0. StartBatch(p, meta)
  BY ParsedMarks DEF ParseMeta
<1>5. proc'[p] = r /\ \A q \in Procs : q # p => proc'[q] = proc[q]
  BY <1>0, <1>1, <1>4, BecomesTyped DEF StartBatch
<1>6. UNCHANGED <<env, meta, exists>>
  BY DEF ParseMeta, Outside
<1>7. \A f \in batch : meta[f].status # "sealed" /\ seen[f] = meta[f].cursor
  BY <1>1, <1>2 DEF Knows
<1> HIDE DEF r, seen, batch
<1>8. InHand(p)' = batch
  BY <1>4, <1>5 DEF InHand, WithFile, AfterWrite
<1>9. Current(p)'
  BY <1>4, <1>5, <1>6, <1>7, <1>8 DEF Current, WithFile, AfterWrite
<1> QED BY <1>5, <1>6, <1>9, MarksUnchanged

LEMMA NextFileCurrent ==
  ASSUME IInv, NothingStale, Alone, NEW p \in Procs, p = TheOne, NextFile(p)
  PROVE  NothingStale'
<1>1. PICK f \in proc[p].todo :
        Becomes(p, [proc[p] EXCEPT !.file = f, !.todo = @ \ {f},
                      !.pc = IF quiet[f] /\ ~Huge(f) THEN "whole" ELSE "window"])
  BY DEF NextFile
<1> DEFINE r == [proc[p] EXCEPT !.file = f, !.todo = @ \ {f},
                   !.pc = IF quiet[f] /\ ~Huge(f) THEN "whole" ELSE "window"]
<1>2. proc[p] \in Process /\ TypeOK /\ Current(p) /\ proc[p].pc = "next"
  BY DEF IInv, TypeOK, NothingStale, NextFile
<1>3. /\ f \in Files /\ r \in Process
      /\ r.file = f /\ r.stale = proc[p].stale /\ r.todo = proc[p].todo \ {f}
      /\ r.pc \in {"whole", "window"}
  BY <1>2 DEF Process
<1>4. proc'[p] = r /\ \A q \in Procs : q # p => proc'[q] = proc[q]
  BY <1>1, <1>2, <1>3, BecomesTyped
<1>5. UNCHANGED <<env, meta, exists>>
  BY DEF NextFile, Outside
<1> HIDE DEF r
<1>6. InHand(p)' \subseteq InHand(p)
  BY <1>3, <1>4 DEF InHand, WithFile, AfterWrite
<1>7. \A g \in InHand(p) : meta[g].status # "sealed" /\ proc[p].stale[g] = meta[g].cursor
  BY <1>2 DEF Current
<1>8. Current(p)'
  BY <1>3, <1>4, <1>5, <1>6, <1>7 DEF Current, WithFile, AfterWrite
<1> QED BY <1>4, <1>5, <1>8, MarksUnchanged

LEMMA BackToIdle ==
  ASSUME IInv, NothingStale, Alone, NEW p \in Procs, p = TheOne, Becomes(p, Idle),
         UNCHANGED <<env, meta, exists>>
  PROVE  NothingStale'
<1>1. proc'[p] = Idle /\ \A q \in Procs : q # p => proc'[q] = proc[q]
  BY IdleTyped, BecomesTyped DEF IInv
<1>2. Current(p)'
  BY <1>1 DEF Current, Idle, WithFile, AfterWrite
<1> QED BY <1>1, <1>2, MarksUnchanged

\* A round's last turn is beyond the cursor it starts from.
LEMMA ReadWindowCurrent ==
  ASSUME IInv, NothingStale, Alone, NEW p \in Procs, p = TheOne, ReadWindow(p)
  PROVE  NothingStale'
<1> DEFINE f == proc[p].file
           lines == Round(f, proc[p].stale[f])
<1>1. /\ UNCHANGED <<env, meta, exists>> /\ proc[p].pc = "window"
      /\ proc[p].pc \in WithFile /\ proc[p].pc \notin {"idle", "parse"}
  BY DEF ReadWindow, Outside, WithFile
<1>2. CASE Passes(p)
  BY <1>1, <1>2, PassingCurrent
<1>3. CASE ~Passes(p)
  <2>1. PICK last \in lines :
          Becomes(p, [proc[p] EXCEPT !.pc = "write", !.status = "active",
                        !.lines = lines, !.cursor = last])
    BY <1>3 DEF ReadWindow
  <2> DEFINE r == [proc[p] EXCEPT !.pc = "write", !.status = "active",
                     !.lines = lines, !.cursor = last]
  <2>2. proc[p] \in Process /\ TypeOK /\ f \in Files
    BY <1>1 DEF IInv, TypeOK, HasFile
  <2>3. proc[p].stale[f] \in 0 .. MaxLines /\ lines \subseteq Lines
    BY <2>2, LinesTyped DEF Process
  <2>4. last \in 0 .. MaxLines /\ last > proc[p].stale[f]
    BY <2>2, <2>3, BoundsNat DEF Lines, Round, Turns
  <2>5. /\ r \in Process /\ r.file = f /\ r.stale = proc[p].stale /\ r.todo = proc[p].todo
        /\ r.pc = "write" /\ r.cursor = last
    BY <2>2, <2>3, <2>4 DEF Process
  <2>6. proc'[p] = r /\ \A q \in Procs : q # p => proc'[q] = proc[q]
    BY <2>1, <2>2, <2>5, BecomesTyped
  <2>7. "write" \in WithFile
    BY DEF WithFile
  <2> HIDE DEF r, lines
  <2> QED BY <1>1, <2>4, <2>5, <2>6, <2>7, SameFile
<1> QED BY <1>2, <1>3

LEMMA ReadWholeCurrent ==
  ASSUME IInv, NothingStale, Alone, NEW p \in Procs, p = TheOne, ReadWhole(p)
  PROVE  NothingStale'
<1> DEFINE f == proc[p].file
           lines == Turns(f, 1, Len(log[f]))
           r == [proc[p] EXCEPT !.pc = "last", !.lines = lines]
<1>1. /\ UNCHANGED <<env, meta, exists>> /\ proc[p].pc = "whole"
      /\ proc[p].pc \in WithFile /\ proc[p].pc \notin {"idle", "parse"}
  BY DEF ReadWhole, Outside, WithFile
<1>2. CASE Passes(p)
  BY <1>1, <1>2, PassingCurrent
<1>3. CASE ~Passes(p)
  <2>1. proc[p] \in Process /\ TypeOK /\ f \in Files
    BY <1>1 DEF IInv, TypeOK, HasFile
  <2>2. lines \subseteq Lines
    BY <2>1, LinesTyped
  <2>3. /\ r \in Process /\ r.file = f /\ r.stale = proc[p].stale /\ r.todo = proc[p].todo
        /\ r.pc = "last"
    BY <2>1, <2>2 DEF Process
  <2>4. proc'[p] = r /\ \A q \in Procs : q # p => proc'[q] = proc[q]
    BY <1>3, <2>1, <2>3, BecomesTyped DEF ReadWhole
  <2>5. "last" \in WithFile /\ "last" \notin AfterWrite \cup {"write", "create", "replace"}
    BY DEF WithFile, AfterWrite
  <2> HIDE DEF r, lines
  <2> QED BY <1>1, <2>3, <2>4, <2>5, SameFile
<1> QED BY <1>2, <1>3

LEMMA ReadLastCurrent ==
  ASSUME IInv, NothingStale, Alone, NEW p \in Procs, p = TheOne, ReadLast(p)
  PROVE  NothingStale'
<1> DEFINE f == proc[p].file
           r == [proc[p] EXCEPT !.pc = "write", !.status = "sealed", !.cursor = Len(log[f])]
<1>1. UNCHANGED <<env, meta, exists>> /\ proc[p].pc = "last" /\ proc[p].pc \in WithFile
  BY DEF ReadLast, Outside, WithFile
<1>2. proc[p] \in Process /\ TypeOK /\ f \in Files
  BY <1>1 DEF IInv, TypeOK, HasFile
<1>3. Len(log[f]) \in 0 .. MaxLines
  BY <1>2, LinesTyped
<1>4. /\ r \in Process /\ r.file = f /\ r.stale = proc[p].stale /\ r.todo = proc[p].todo
      /\ r.pc = "write" /\ r.status = "sealed"
  BY <1>2, <1>3 DEF Process
<1>5. proc'[p] = r /\ \A q \in Procs : q # p => proc'[q] = proc[q]
  BY <1>2, <1>4, BecomesTyped DEF ReadLast
<1>6. "write" \in WithFile
  BY DEF WithFile
<1> HIDE DEF r
<1> QED BY <1>1, <1>4, <1>5, <1>6, SameFile

\* Only a process that found the file missing creates it, and nobody else does.
LEMMA CreateMetaCurrent ==
  ASSUME IInv, NothingStale, Alone, NEW p \in Procs, p = TheOne, CreateMeta(p)
  PROVE  meta' = meta /\ NothingStale'
<1>1. TypeOK /\ proc[p] \in Process /\ Current(p) /\ proc[p].pc = "create"
  BY DEF IInv, TypeOK, NothingStale, CreateMeta
<1>2. meta' = meta
  BY <1>1 DEF NothingStale, Current, CreateMeta
<1>3. /\ proc'[p] = [proc[p] EXCEPT !.pc = "lock"]
      /\ \A q \in Procs : q # p => proc'[q] = proc[q]
  BY <1>1, GoesTyped DEF CreateMeta
<1>4. /\ proc'[p].pc = "lock" /\ proc'[p].file = proc[p].file
      /\ proc'[p].status = proc[p].status
      /\ proc'[p].cursor = proc[p].cursor /\ proc'[p].stale = proc[p].stale
      /\ proc'[p].todo = proc[p].todo
  BY <1>1, <1>3 DEF Process
<1>5. InHand(p)' = InHand(p)
  BY <1>1, <1>4 DEF InHand, WithFile, AfterWrite
<1>6. Current(p)'
  BY <1>1, <1>2, <1>4, <1>5 DEF CreateMeta, Current, WithFile, AfterWrite
<1> QED BY <1>2, <1>3, <1>6, CurrentStep DEF CreateMeta, Outside

LEMMA ReadMetaCurrent ==
  ASSUME IInv, NothingStale, Alone, NEW p \in Procs, p = TheOne, ReadMeta(p)
  PROVE  NothingStale'
<1> DEFINE r == [proc[p] EXCEPT !.pc = "replace", !.copy = meta]
<1>1. TypeOK /\ proc[p] \in Process /\ Current(p)
  BY DEF IInv, TypeOK, NothingStale
<1>2. UNCHANGED <<env, meta, exists>> /\ proc[p].pc = "read"
      /\ proc[p].pc \in WithFile /\ proc[p].pc \in AfterWrite
  BY DEF ReadMeta, Outside, WithFile, AfterWrite
<1>3. /\ r \in Process /\ r.pc = "replace" /\ r.file = proc[p].file
      /\ r.status = proc[p].status /\ r.cursor = proc[p].cursor
      /\ r.stale = proc[p].stale /\ r.todo = proc[p].todo /\ r.copy = meta
  BY <1>1 DEF Process, TypeOK
<1>4. proc'[p] = r /\ \A q \in Procs : q # p => proc'[q] = proc[q]
  BY <1>1, <1>3, BecomesTyped DEF ReadMeta
<1>5. /\ proc[p].status = "active" => proc[p].cursor > proc[p].stale[proc[p].file]
      /\ exists
  BY <1>1, <1>2 DEF Current
<1>6. "replace" \in WithFile
  BY DEF WithFile, AfterWrite
<1> HIDE DEF r
<1> QED BY <1>2, <1>3, <1>4, <1>5, <1>6, SameFile

\* What a mark and the compaction after it change.
LEMMA MarkChanges ==
  ASSUME NEW marks \in [Files -> Marks], NEW f \in Files,
         NEW cursor \in 0 .. MaxLines, NEW status \in Statuses, NEW g \in Files
  PROVE  LET new == Compacted(Marked(marks, f, cursor, status)) IN
           /\ g = f => new[g].status = status
           /\ g = f /\ status # "sealed" => new[g].cursor = cursor
           /\ g # f => new[g].status = marks[g].status
           /\ g # f /\ marks[g].status # "sealed" => new[g] = marks[g]
<1> DEFINE mid == Marked(marks, f, cursor, status)
           new == Compacted(mid)
<1>1. mid \in [Files -> Marks]
  BY MarksTyped
<1>2. mid[g] \in Marks
  BY <1>1
<1>3. /\ g = f => mid[g].status = status /\ mid[g].cursor = cursor
      /\ g # f => mid[g] = marks[g]
  BY DEF Marked
<1>4. \/ new[g] = mid[g]
      \/ mid[g].status = "sealed" /\ new[g] = [mid[g] EXCEPT !.cursor = 0, !.full = FALSE]
  BY DEF Compacted
<1> HIDE DEF mid, new
<1>5. new[g].status = mid[g].status
  BY <1>2, <1>4 DEF Marks
<1>6. mid[g].status # "sealed" => new[g] = mid[g]
  BY <1>4
<1>7. /\ g = f => new[g].status = status
      /\ g = f /\ status # "sealed" => new[g].cursor = cursor
      /\ g # f => new[g].status = marks[g].status
      /\ g # f /\ marks[g].status # "sealed" => new[g] = marks[g]
  BY <1>3, <1>5, <1>6
<1> QED BY <1>7 DEF new, mid

\* The marks of a step: what CursorsAdvance asks of it.
Advances ==
  \A f \in Files :
    {"two", "unreadable"} \cap env = {} /\ meta'[f] # meta[f]
    => /\ meta[f].status = "sealed" => meta'[f].status = "sealed"
       /\ meta'[f].status = "active" => meta'[f].cursor > meta[f].cursor

LEMMA ReplaceCurrent ==
  ASSUME IInv, NothingStale, Alone, NEW p \in Procs, p = TheOne, Replace(p)
  PROVE  NothingStale' /\ Advances
<1> DEFINE f == proc[p].file
           new == Compacted(Marked(proc[p].copy, f, proc[p].cursor, proc[p].status))
<1>1. /\ TypeOK /\ proc[p] \in Process /\ f \in Files /\ Current(p)
      /\ proc[p].status \in Statuses /\ proc[p].status # "none"
      /\ proc[p].copy = meta /\ meta \in [Files -> Marks] /\ proc[p].cursor \in 0 .. MaxLines
      /\ proc[p].pc = "replace" /\ proc[p].pc \in AfterWrite /\ proc[p].pc \in WithFile
      /\ proc[p].pc \notin {"idle", "parse"} /\ Passes(p)
  BY DEF IInv, NothingStale, TypeOK, Replace, HasFile, WithFile, AfterWrite, Process, Statuses,
         Current
<1>2. UNCHANGED <<env, exists>> /\ meta' \in {new, meta}
  BY DEF Replace, Writes, Outside
<1>3. CASE meta' = meta
  <2> HIDE DEF new
  <2>1. NothingStale'
    BY <1>1, <1>2, <1>3, PassingCurrent
  <2> QED BY <2>1, <1>3 DEF Advances
<1>4. CASE meta' = new
  <2>1. ASSUME NEW g \in Files
        PROVE  /\ g = f => meta'[g].status = proc[p].status
               /\ g = f /\ proc[p].status # "sealed" => meta'[g].cursor = proc[p].cursor
               /\ g # f => meta'[g].status = meta[g].status
               /\ g # f /\ meta[g].status # "sealed" => meta'[g] = meta[g]
    BY <1>1, <1>4, MarkChanges
  <2> HIDE DEF new
  <2>2. /\ \A g \in InHand(p) : meta[g].status # "sealed" /\ proc[p].stale[g] = meta[g].cursor
        /\ f \in InHand(p) /\ f \notin proc[p].todo /\ proc[p].todo \subseteq InHand(p)
        /\ proc[p].todo \subseteq Files
        /\ proc[p].status = "active" => proc[p].cursor > proc[p].stale[f]
    BY <1>1 DEF Current, InHand, Process
  <2>3. Advances
    <3> SUFFICES ASSUME NEW g \in Files, meta'[g] # meta[g]
                 PROVE  /\ meta[g].status = "sealed" => meta'[g].status = "sealed"
                        /\ meta'[g].status = "active" => meta'[g].cursor > meta[g].cursor
      BY DEF Advances
    <3>1. CASE g = f
      BY <2>1, <2>2, <3>1
    <3>2. CASE g # f /\ meta[g].status = "sealed"
      BY <2>1, <3>2
    <3>3. CASE g # f /\ meta[g].status # "sealed"
      BY <2>1, <3>3
    <3> QED BY <3>1, <3>2, <3>3
  <2>4. \A g \in proc[p].todo : meta'[g].status = meta[g].status /\ meta'[g].cursor = meta[g].cursor
    BY <2>1, <2>2
  <2>5. Current(p)' /\ \A q \in Procs : q # p => proc'[q] = proc[q]
    BY <1>1, <2>4, PassesCurrent, PassesTyped
  <2>6. exists
    BY <1>1 DEF Current
  <2> QED BY <1>2, <2>3, <2>5, <2>6, CurrentStep
<1> QED BY <1>2, <1>3, <1>4

LEMMA StepCurrent ==
  ASSUME IInv, NothingStale, Alone, NEW p \in Procs, Step(p) \/ Crash(p)
  PROVE  NothingStale' /\ Advances
<1>1. p = TheOne
  BY AloneAlways
<1>2. TypeOK /\ Current(p)
  BY DEF IInv, NothingStale
<1>3. CASE Find(p)
  BY <1>1, <1>3, FindCurrent DEF Find, Advances
<1>4. CASE ParseMeta(p)
  BY <1>1, <1>4, ParseMetaCurrent DEF ParseMeta, Advances
<1>5. CASE NextFile(p)
  BY <1>1, <1>5, NextFileCurrent DEF NextFile, Advances
<1>6. CASE BatchEnds(p)
  BY <1>1, <1>6, BackToIdle DEF BatchEnds, Advances, Outside
<1>7. CASE ReadWindow(p)
  BY <1>1, <1>7, ReadWindowCurrent DEF ReadWindow, Advances
<1>8. CASE ReadWhole(p)
  BY <1>1, <1>8, ReadWholeCurrent DEF ReadWhole, Advances
<1>9. CASE ReadLast(p)
  BY <1>1, <1>9, ReadLastCurrent DEF ReadLast, Advances
<1>10. CASE WriteOutput(p)
  <2>1. proc[p].pc \in AfterWrite \cup {"write"} /\ UNCHANGED <<env, meta, exists>>
    BY <1>10 DEF WriteOutput, Outside
  <2> QED BY <1>1, <1>10, <2>1, GoingCurrent DEF WriteOutput, Advances
<1>11. CASE LookForMeta(p)
  <2>1. proc[p].pc \in AfterWrite \cup {"write"} /\ UNCHANGED <<env, meta, exists>>
    BY <1>11 DEF LookForMeta, Outside, AfterWrite
  <2>2. CASE exists
    BY <1>1, <1>11, <2>1, <2>2, GoingCurrent DEF LookForMeta, Advances
  <2>3. CASE ~exists
    BY <1>1, <1>11, <2>1, <2>3, GoingCurrent DEF LookForMeta, Advances
  <2> QED BY <2>2, <2>3
<1>12. CASE CreateMeta(p)
  BY <1>1, <1>12, CreateMetaCurrent DEF Advances
<1>13. CASE Lock(p)
  <2>1. /\ proc[p].pc \in AfterWrite \cup {"write"} /\ UNCHANGED <<env, meta, exists>>
        /\ exists
    BY <1>2, <1>13 DEF Lock, Outside, AfterWrite, Current
  <2> QED BY <1>1, <1>13, <2>1, GoingCurrent DEF Lock, Advances
<1>14. CASE LockFails(p)
  <2>1. /\ proc[p].pc \in AfterWrite \cup {"write"} /\ UNCHANGED <<env, meta, exists>>
        /\ exists /\ proc[p].pc \notin {"idle", "parse"}
    BY <1>2, <1>14 DEF LockFails, Outside, AfterWrite, Current
  <2>2. CASE Passes(p)
    BY <1>1, <2>1, <2>2, PassingCurrent DEF Advances
  <2>3. CASE Goes(p, "read")
    BY <1>1, <2>1, <2>3, GoingCurrent DEF Advances
  <2> QED BY <1>14, <2>2, <2>3 DEF LockFails
<1>15. CASE ReadMeta(p)
  BY <1>1, <1>15, ReadMetaCurrent DEF ReadMeta, Advances
<1>16. CASE Replace(p)
  BY <1>1, <1>16, ReplaceCurrent
<1>17. CASE Crash(p)
  BY <1>1, <1>17, BackToIdle DEF Crash, Advances
<1> QED BY <1>3, <1>4, <1>5, <1>6, <1>7, <1>8, <1>9, <1>10, <1>11, <1>12, <1>13, <1>14,
           <1>15, <1>16, <1>17 DEF Step

LEMMA NextCurrent == IInv /\ NothingStale /\ [Next]_vars => NothingStale' /\ Advances
<1> SUFFICES ASSUME IInv, NothingStale, [Next]_vars PROVE NothingStale' /\ Advances
  OBVIOUS
<1>1. CASE UNCHANGED <<env, meta, exists, proc>>
  BY <1>1 DEF NothingStale, Alone, Current, InHand, Advances
<1>2. CASE ~UNCHANGED <<env, meta, exists, proc>>
  <2>1. PICK p \in Procs : Step(p) \/ Crash(p)
    BY <1>2 DEF Next, vars, Says, GoesQuiet
  <2>2. env' = env
    BY <2>1 DEF Step, Crash, Find, ParseMeta, NextFile, BatchEnds, ReadWindow, ReadWhole, ReadLast,
                WriteOutput, LookForMeta, CreateMeta, Lock, LockFails, ReadMeta, Replace, Outside
  <2>3. CASE Alone
    BY <2>1, <2>3, StepCurrent
  <2>4. CASE ~Alone
    BY <2>2, <2>4 DEF Alone, NothingStale, Advances
  <2> QED BY <2>3, <2>4
<1> QED BY <1>1, <1>2

-----------------------------------------------------------------------------
(* The theorems.                                                           *)

\* dream-prep only ever stores marks, cursors and batches that its files can
\* carry, whatever the transcripts, the caps and the troubles.
THEOREM TypeCorrect == Spec => []TypeOK
<1>1. IInv => TypeOK
  BY DEF IInv
<1> QED BY <1>1, InitIInv, NextIInv, PTL DEF Spec

\* What dream_meta.md calls read has been read, for any number of transcripts
\* and processes, any caps, and any crashes and failures.
THEOREM WhatIsMarkedIsPrepared == Spec => []ReadBeforeCursor
<1>1. IInv => ReadBeforeCursor
  BY DEF IInv, MarksHold, Holds, ReadBeforeCursor, Calm, Alone
<1> QED BY <1>1, InitIInv, NextIInv, PTL DEF Spec

\* With one process at a time, which can read the marks, a round's mark is beyond the one before it, and
\* a sealed transcript stays sealed, whatever fails or dies: what the process
\* has read of the marks is what the file still says when it replaces it.
THEOREM MarksAdvance == Spec => CursorsAdvance
<1>1. Init => NothingStale
  BY DEF Init, NothingStale, Current, Idle, WithFile, AfterWrite
<1>2. IInv /\ NothingStale /\ [Next]_vars
        => [\A f \in Files :
             {"two", "unreadable"} \cap env = {} /\ meta'[f] # meta[f]
             => /\ meta[f].status = "sealed" => meta'[f].status = "sealed"
                /\ meta'[f].status = "active" => meta'[f].cursor > meta[f].cursor]_vars
  BY NextCurrent DEF Advances
<1> QED BY <1>1, <1>2, InitIInv, NextIInv, NextCurrent, PTL DEF Spec, CursorsAdvance
=============================================================================
