-------------------------- MODULE ProviderRunProofs --------------------------
(***************************************************************************)
(* What holds of every provider run, for any lines, descendants, callers   *)
(* and reconcilers and in any environment: the event file of a published   *)
(* result ends with its event, a confirmed cancel leaves nothing of what   *)
(* it looked at alive, a failed start leaves no provider, a judgement that *)
(* began on a final file is exact, and the table overtakes no event.       *)
(***************************************************************************)
EXTENDS ProviderRun, SequenceTheorems, FiniteSetTheorems, WellFoundedInduction, TLAPS

-----------------------------------------------------------------------------
(* Sequences.                                                              *)

LEMMA AppendFacts ==
  ASSUME NEW S, NEW s \in Seq(S), NEW e \in S
  PROVE  /\ Append(s, e) \in Seq(S) /\ Append(s, e) # <<>>
         /\ Len(Append(s, e)) = Len(s) + 1 /\ Last(Append(s, e)) = e
         /\ \A i \in 1..Len(s) : Append(s, e)[i] = s[i]
         /\ Append(s, e)[Len(s) + 1] = e
  BY DEF Last

LEMMA LastIn ==
  ASSUME NEW S, NEW s \in Seq(S), s # <<>>
  PROVE  Last(s) \in S
<1>1. Len(s) \in Nat /\ Len(s) # 0
  BY EmptySeq
<1> QED BY <1>1, ElementOfSeq DEF Last

LEMMA TailFacts ==
  ASSUME NEW S, NEW s \in Seq(S), s # <<>>
  PROVE  /\ Head(s) \in S /\ Head(s) = s[1] /\ Tail(s) \in Seq(S)
         /\ Len(s) \in Nat \ {0} /\ Len(Tail(s)) = Len(s) - 1
         /\ \A i \in 1..Len(Tail(s)) : Tail(s)[i] = s[i + 1]
<1>1. Len(s) \in Nat /\ Len(s) # 0
  BY EmptySeq
<1> QED BY <1>1

-----------------------------------------------------------------------------
(* The supervisor after the edits of its steps.                            *)

Now(q, pc, why, family, stopped, streams, status) ==
  /\ q \in Supervisors
  /\ q.pc = pc /\ q.why = why /\ q.family = family /\ q.stopped = stopped
  /\ q.streams = streams /\ q.status = status

LEMMA NoneNow == Now(NoSupervisor, "none", None, {}, TRUE, 0, None)
  BY DEF Now, NoSupervisor, Supervisors, SupervisorPc, Procs

LEMMA SupNow ==
  ASSUME NEW s \in Supervisors
  PROVE  /\ Now(s, s.pc, s.why, s.family, s.stopped, s.streams, s.status)
         /\ s.pc \in SupervisorPc /\ s.why \in {None, "prompt", "cancelled", "timed_out"}
         /\ s.family \in SUBSET Procs /\ s.streams \in 0..2
         /\ s.observed \in {None, "failed", "usage_limited"}
         /\ s.status \in Statuses \cup {None}
  BY DEF Now, Supervisors

LEMMA StepNow ==
  ASSUME NEW s \in Supervisors, NEW p \in SupervisorPc
  PROVE  Now([s EXCEPT !.pc = p], p, s.why, s.family, s.stopped, s.streams, s.status)
<1> DEFINE q == [s EXCEPT !.pc = p]
<1>1. q \in Supervisors
  BY DEF Supervisors
<1>2. q.pc = p /\ q.why = s.why /\ q.family = s.family /\ q.stopped = s.stopped
      /\ q.streams = s.streams /\ q.status = s.status
  BY DEF Supervisors
<1> QED BY <1>1, <1>2 DEF Now

LEMMA WhyNow ==
  ASSUME NEW s \in Supervisors, NEW p \in SupervisorPc,
         NEW w \in {"prompt", "cancelled", "timed_out"}
  PROVE  Now([s EXCEPT !.pc = p, !.why = w], p, w, s.family, s.stopped, s.streams, s.status)
<1> DEFINE q == [s EXCEPT !.pc = p, !.why = w]
<1>1. q \in Supervisors
  BY DEF Supervisors
<1>2. q.pc = p /\ q.why = w /\ q.family = s.family /\ q.stopped = s.stopped
      /\ q.streams = s.streams /\ q.status = s.status
  BY DEF Supervisors
<1> QED BY <1>1, <1>2 DEF Now

LEMMA StreamsNow ==
  ASSUME NEW s \in Supervisors, NEW p \in SupervisorPc, s.streams + 1 \in 0..2
  PROVE  Now([s EXCEPT !.pc = p, !.streams = @ + 1],
             p, s.why, s.family, s.stopped, s.streams + 1, s.status)
<1> DEFINE q == [s EXCEPT !.pc = p, !.streams = @ + 1]
<1>1. q \in Supervisors
  BY DEF Supervisors
<1>2. q.pc = p /\ q.why = s.why /\ q.family = s.family /\ q.stopped = s.stopped
      /\ q.streams = s.streams + 1 /\ q.status = s.status
  BY DEF Supervisors
<1> QED BY <1>1, <1>2 DEF Now

LEMMA StrangeNow ==
  ASSUME NEW s \in Supervisors, NEW p \in SupervisorPc
  PROVE  Now([s EXCEPT !.pc = p, !.strange = TRUE],
             p, s.why, s.family, s.stopped, s.streams, s.status)
<1> DEFINE q == [s EXCEPT !.pc = p, !.strange = TRUE]
<1>1. q \in Supervisors
  BY DEF Supervisors
<1>2. q.pc = p /\ q.why = s.why /\ q.family = s.family /\ q.stopped = s.stopped
      /\ q.streams = s.streams /\ q.status = s.status
  BY DEF Supervisors
<1> QED BY <1>1, <1>2 DEF Now

LEMMA ObservedNow ==
  ASSUME NEW s \in Supervisors, NEW p \in SupervisorPc,
         NEW o \in {None, "failed", "usage_limited"}
  PROVE  Now([s EXCEPT !.pc = p, !.understood = TRUE, !.observed = o],
             p, s.why, s.family, s.stopped, s.streams, s.status)
<1> DEFINE q == [s EXCEPT !.pc = p, !.understood = TRUE, !.observed = o]
<1>1. q \in Supervisors
  BY DEF Supervisors
<1>2. q.pc = p /\ q.why = s.why /\ q.family = s.family /\ q.stopped = s.stopped
      /\ q.streams = s.streams /\ q.status = s.status
  BY DEF Supervisors
<1> QED BY <1>1, <1>2 DEF Now

LEMMA StoppedNow ==
  ASSUME NEW s \in Supervisors, NEW p \in SupervisorPc, NEW b \in BOOLEAN
  PROVE  Now([s EXCEPT !.stopped = b, !.pc = p],
             p, s.why, s.family, b, s.streams, s.status)
<1> DEFINE q == [s EXCEPT !.stopped = b, !.pc = p]
<1>1. q \in Supervisors
  BY DEF Supervisors
<1>2. q.pc = p /\ q.why = s.why /\ q.family = s.family /\ q.stopped = b
      /\ q.streams = s.streams /\ q.status = s.status
  BY DEF Supervisors
<1> QED BY <1>1, <1>2 DEF Now

LEMMA FamilyNow ==
  ASSUME NEW s \in Supervisors, NEW p \in SupervisorPc, NEW f \in SUBSET Procs
  PROVE  Now([s EXCEPT !.pc = p, !.family = f],
             p, s.why, f, s.stopped, s.streams, s.status)
<1> DEFINE q == [s EXCEPT !.pc = p, !.family = f]
<1>1. q \in Supervisors
  BY DEF Supervisors
<1>2. q.pc = p /\ q.why = s.why /\ q.family = f /\ q.stopped = s.stopped
      /\ q.streams = s.streams /\ q.status = s.status
  BY DEF Supervisors
<1> QED BY <1>1, <1>2 DEF Now

LEMMA StatusNow ==
  ASSUME NEW s \in Supervisors, NEW p \in SupervisorPc, NEW t \in Statuses
  PROVE  Now([s EXCEPT !.status = t, !.pc = p],
             p, s.why, s.family, s.stopped, s.streams, t)
<1> DEFINE q == [s EXCEPT !.status = t, !.pc = p]
<1>1. q \in Supervisors
  BY DEF Supervisors
<1>2. q.pc = p /\ q.why = s.why /\ q.family = s.family /\ q.stopped = s.stopped
      /\ q.streams = s.streams /\ q.status = t
  BY DEF Supervisors
<1> QED BY <1>1, <1>2 DEF Now

-----------------------------------------------------------------------------
(* The parts of the typing.                                                *)

ProcessTyped ==
  /\ tree \in [Procs -> {"none", "live", "dead"}]
  /\ deaf \subseteq Procs /\ traits \subseteq TraitKinds /\ signalled \subseteq Procs
  /\ code \in {0, 1} /\ written \in 0..MaxLines /\ ended \in 0..2
  /\ lines \in Seq(Lines \cup {"end"})

HostTyped ==
  /\ env \in Envs /\ worker \in {"live", "dead"}
  /\ started \in {"no", "ready", "spawned", "undelivered", "running", "failed"}
  /\ cancelled \in BOOLEAN /\ expired \in BOOLEAN /\ registered \in BOOLEAN
  /\ client \in [Clients -> ClientRecords]

SupTyped ==
  /\ sup \in Supervisors
  /\ file \in Seq(Kinds) /\ writing \in Kinds \cup {None}
  /\ closed \in BOOLEAN /\ result \in Statuses \cup {None}

StoreTyped ==
  /\ row \in [state : RowStates, offset : 0..Len(file), settled : BOOLEAN]
  /\ table \in Seq(1..Len(file))
  /\ reader \in [Readers -> ReaderRecords]

LEMMA TypeParts == TypeOK <=> ProcessTyped /\ HostTyped /\ SupTyped /\ StoreTyped
  BY DEF TypeOK, ProcessTyped, HostTyped, SupTyped, StoreTyped

LEMMA InvParts ==
  ASSUME IInv
  PROVE  /\ ProcessTyped /\ HostTyped /\ SupTyped /\ StoreTyped
         /\ StartInv /\ SupervisionInv /\ FamilyInv /\ QueueInv /\ DeliveryInv
  BY TypeParts DEF IInv

-----------------------------------------------------------------------------
(* What the steps of the supervising thread make of the supervisor.        *)

Same(q, p) == Now(q, p, sup.why, sup.family, sup.stopped, sup.streams, sup.status)

LEMMA SameStep ==
  ASSUME SupTyped, NEW p \in SupervisorPc
  PROVE  Same([sup EXCEPT !.pc = p], p)
  BY StepNow DEF SupTyped, Same

LEMMA FlushNow ==
  ASSUME SupTyped, Flush
  PROVE  Same(sup', IF sup.status = None THEN "check" ELSE "close")
<1> DEFINE p == IF sup.status = None THEN "check" ELSE "close"
<1>1. p \in SupervisorPc /\ sup' = [sup EXCEPT !.pc = p]
  BY DEF Flush, SupervisorPc
<1> HIDE DEF p
<1>2. Same(sup', p)
  BY <1>1, SameStep
<1> QED BY <1>2 DEF p

LEMMA CheckNow ==
  ASSUME SupTyped, Check
  PROVE  \/ tree["root"] = "dead" /\ Same(sup', "judge")
         \/ /\ tree["root"] = "live"
            /\ \E w \in {"cancelled", "timed_out"} :
                 Now(sup', "signal", w, sup.family, sup.stopped, sup.streams, sup.status)
         \/ Same(sup', "get")
<1>p. {"judge", "signal", "get"} \subseteq SupervisorPc
  BY DEF SupervisorPc
<1>1. CASE tree["root"] = "dead" /\ sup' = [sup EXCEPT !.pc = "judge"]
  BY <1>1, <1>p, SameStep
<1>2. ASSUME NEW w \in {"cancelled", "timed_out"}, tree["root"] = "live",
             sup' = [sup EXCEPT !.pc = "signal", !.why = w]
      PROVE  Now(sup', "signal", w, sup.family, sup.stopped, sup.streams, sup.status)
  BY <1>2, <1>p, WhyNow DEF SupTyped
<1>3. CASE sup' = [sup EXCEPT !.pc = "get"]
  BY <1>3, <1>p, SameStep
<1> QED BY <1>1, <1>2, <1>3 DEF Check

LEMMA ConsumeNow ==
  ASSUME SupTyped, NEW line \in Lines, Consume(line)
  PROVE  \/ Same(sup', "check") /\ writing' = writing
         \/ Same(sup', "write") /\ writing' \in Kinds
<1>p. {"check", "write"} \subseteq SupervisorPc
  BY DEF SupervisorPc
<1>1. CASE line = "junk"
  BY <1>1, <1>p, StrangeNow DEF SupTyped, Consume, Same
<1>2. CASE line # "junk"
  <2> DEFINE o == CASE line = "failed" -> "failed"
                    [] line = "limited" -> "usage_limited"
                    [] OTHER -> sup.observed
  <2>1. o \in {None, "failed", "usage_limited"}
    BY SupNow DEF SupTyped
  <2>2. sup' = [sup EXCEPT !.pc = "write", !.understood = TRUE, !.observed = o]
    BY <1>2 DEF Consume
  <2> HIDE DEF o
  <2>3. Same(sup', "write")
    BY <2>1, <2>2, <1>p, ObservedNow DEF SupTyped, Same
  <2>4. writing' \in Kinds
    BY <1>2, LinesAssumption DEF Consume, NormalizeLine, LineKinds, Kinds
  <2> QED BY <2>3, <2>4
<1> QED BY <1>1, <1>2

LEMMA GetNow ==
  ASSUME SupTyped, ProcessTyped, GetLine, sup.streams + 1 \in 0..2 \/ lines = <<>> \/ Head(lines) # "end"
  PROVE  \/ /\ lines = <<>> /\ lines' = lines /\ writing' = writing
            /\ Same(sup', "check")
         \/ /\ lines # <<>> /\ lines' = Tail(lines) /\ Head(lines) = "end" /\ writing' = writing
            /\ Now(sup', "check", sup.why, sup.family, sup.stopped, sup.streams + 1, sup.status)
         \/ /\ lines # <<>> /\ lines' = Tail(lines) /\ Head(lines) # "end"
            /\ \/ Same(sup', "check") /\ writing' = writing
               \/ Same(sup', "write") /\ writing' \in Kinds
<1>p. "check" \in SupervisorPc
  BY DEF SupervisorPc
<1>1. CASE lines = <<>>
  BY <1>1, <1>p, SameStep DEF GetLine
<1>2. CASE lines # <<>> /\ Head(lines) = "end"
  <2>1. sup' = [sup EXCEPT !.pc = "check", !.streams = @ + 1]
        /\ lines' = Tail(lines) /\ writing' = writing
    BY <1>2 DEF GetLine
  <2> QED BY <1>2, <2>1, <1>p, StreamsNow DEF SupTyped
<1>3. CASE lines # <<>> /\ Head(lines) # "end"
  <2>1. Head(lines) \in Lines
    BY <1>3, TailFacts DEF ProcessTyped
  <2>2. Consume(Head(lines)) /\ lines' = Tail(lines)
    BY <1>3 DEF GetLine
  <2> QED BY <1>3, <2>1, <2>2, ConsumeNow
<1> QED BY <1>1, <1>2, <1>3

LEMMA TerminatedNow ==
  ASSUME SupTyped, NEW b \in BOOLEAN
  PROVE  Now(Terminated(b), IF sup.why = "prompt" THEN "reap" ELSE "get",
             sup.why, sup.family, b, sup.streams, sup.status)
<1> DEFINE p == IF sup.why = "prompt" THEN "reap" ELSE "get"
<1>1. p \in SupervisorPc /\ Terminated(b) = [sup EXCEPT !.stopped = b, !.pc = p]
  BY DEF Terminated, SupervisorPc
<1> HIDE DEF p
<1>2. Now(Terminated(b), p, sup.why, sup.family, b, sup.streams, sup.status)
  BY <1>1, StoppedNow DEF SupTyped
<1> QED BY <1>2 DEF p

LEMMA SignalNow ==
  ASSUME SupTyped, Signal
  PROVE  \/ /\ tree["root"] = "dead"
            /\ Now(sup', IF sup.why = "prompt" THEN "reap" ELSE "get",
                   sup.why, sup.family, TRUE, sup.streams, sup.status)
         \/ tree["root"] # "dead" /\ Same(sup', "family")
  BY TerminatedNow, SameStep DEF Signal, SupervisorPc

LEMMA FindNow ==
  ASSUME SupTyped, FindFamily
  PROVE  \E f \in SUBSET Procs :
           /\ \A p \in f : p \in Live /\ p # "root"
           /\ tree["root"] # "live" => f = {}
           /\ Now(sup', "grace", sup.why, f, sup.stopped, sup.streams, sup.status)
<1> DEFINE f == IF tree["root"] = "live" THEN Live \ {"root"} ELSE {}
<1>1. f \in SUBSET Procs /\ (\A p \in f : p \in Live /\ p # "root")
      /\ (tree["root"] # "live" => f = {})
  BY DEF Live
<1>2. sup' = [sup EXCEPT !.pc = "grace", !.family = f]
  BY DEF FindFamily
<1> HIDE DEF f
<1>3. Now(sup', "grace", sup.why, f, sup.stopped, sup.streams, sup.status)
  BY <1>1, <1>2, FamilyNow DEF SupTyped, SupervisorPc
<1> QED BY <1>1, <1>3

LEMMA SettleNow ==
  ASSUME SupTyped, Settle
  PROVE  \E b \in BOOLEAN :
           /\ b => tree["root"] = "dead" /\ sup.family \cap Live = {}
           /\ Now(sup', IF sup.why = "prompt" THEN "reap" ELSE "get",
                  sup.why, sup.family, b, sup.streams, sup.status)
<1>1. CASE tree["root"] = "dead" /\ sup.family \cap Live = {}
  <2>1. sup' = Terminated(TRUE)
    BY <1>1 DEF Settle
  <2> QED BY <1>1, <2>1, TerminatedNow
<1>2. CASE ~(tree["root"] = "dead" /\ sup.family \cap Live = {})
  <2>1. sup' = Terminated(FALSE)
    BY <1>2 DEF Settle
  <2> QED BY <1>2, <2>1, TerminatedNow
<1> QED BY <1>1, <1>2

LEMMA VerdictIs ==
  ASSUME SupTyped, sup.why # "prompt"
  PROVE  Verdict \in Statuses
<1>1. sup.why \in {None, "cancelled", "timed_out"}
      /\ sup.observed \in {None, "failed", "usage_limited"}
  BY SupNow DEF SupTyped
<1> QED BY <1>1 DEF Verdict, Statuses

LEMMA KindIs ==
  ASSUME NEW s \in Statuses
  PROVE  TerminalKind(s) \in TerminalKinds /\ TerminalKind(s) \in Kinds
  BY DEF Statuses, TerminalKind, TerminalKinds, Kinds

LEMMA JudgeNow ==
  ASSUME SupTyped, Judge, sup.why # "prompt"
  PROVE  \E t \in Statuses :
           \/ /\ Last(file) = TerminalKind(t) /\ writing' = None
              /\ Now(sup', "close", sup.why, sup.family, sup.stopped, sup.streams, t)
           \/ /\ writing' = TerminalKind(t)
              /\ Now(sup', "write", sup.why, sup.family, sup.stopped, sup.streams, t)
<1> DEFINE t == Verdict
<1>1. t \in Statuses
  BY VerdictIs
<1>2. CASE Last(file) = TerminalKind(t)
  <2>1. sup' = [sup EXCEPT !.status = t, !.pc = "close"] /\ writing' = None
    BY <1>2 DEF Judge
  <2> HIDE DEF t
  <2>2. Now(sup', "close", sup.why, sup.family, sup.stopped, sup.streams, t)
    BY <1>1, <2>1, StatusNow DEF SupTyped, SupervisorPc
  <2> QED BY <1>1, <1>2, <2>1, <2>2
<1>3. CASE Last(file) # TerminalKind(t)
  <2>1. sup' = [sup EXCEPT !.status = t, !.pc = "write"] /\ writing' = TerminalKind(t)
    BY <1>3 DEF Judge
  <2> HIDE DEF t
  <2>2. Now(sup', "write", sup.why, sup.family, sup.stopped, sup.streams, t)
    BY <1>1, <2>1, StatusNow DEF SupTyped, SupervisorPc
  <2> QED BY <1>1, <2>1, <2>2
<1> QED BY <1>2, <1>3

LEMMA OthersNow ==
  ASSUME SupTyped
  PROVE  /\ Grace => Same(sup', "settle")
         /\ CloseFile => Same(sup', "publish")
         /\ PublishResult => Same(sup', "done")
         /\ Reap => Same(sup', "none")
  BY SameStep DEF Grace, CloseFile, PublishResult, Reap, SupervisorPc

LEMMA DeliverNow ==
  ASSUME SupTyped, DeliverPrompt
  PROVE  \/ /\ started' = "running" /\ writing' = "started" /\ Same(sup', "write")
         \/ /\ started' = "undelivered" /\ writing' = writing
            /\ Now(sup', "signal", "prompt", sup.family, sup.stopped, sup.streams, sup.status)
<1>1. CASE started' = "running" /\ writing' = "started" /\ sup' = [sup EXCEPT !.pc = "write"]
  BY <1>1, SameStep DEF SupervisorPc
<1>2. CASE /\ started' = "undelivered" /\ writing' = writing
           /\ sup' = [sup EXCEPT !.pc = "signal", !.why = "prompt"]
  BY <1>2, WhyNow DEF SupTyped, SupervisorPc
<1> QED BY <1>1, <1>2 DEF DeliverPrompt

-----------------------------------------------------------------------------
(* Typing of a step.                                                       *)

Callers == \E c \in Clients : Call(c)
Reconcilers == \E r \in Readers : Reconcile(r)

LEMMA ProcessTypedStep ==
  ASSUME IInv, Next
  PROVE  ProcessTyped'
<1>t. ProcessTyped
  BY InvParts
<1> USE DEF ProcessTyped
<1>e. ASSUME NEW e \in Lines \cup {"end"} PROVE Append(lines, e) \in Seq(Lines \cup {"end"})
  BY <1>t, AppendFacts
<1>1. CASE SpawnChild
  <2>1. PICK t \in ChildTraits :
          /\ traits' = t
          /\ deaf' = IF "deaf" \in t THEN deaf \cup {"child"} ELSE deaf
    BY <1>1 DEF SpawnChild
  <2>2. traits' \subseteq TraitKinds /\ deaf' \subseteq Procs
    BY <1>t, <2>1, TraitsAssumption DEF Procs
  <2> QED BY <1>1, <1>t, <2>2 DEF SpawnChild
<1>2. CASE WriteLine
  BY <1>2, <1>t, <1>e, BoundsAssumption DEF WriteLine
<1>3. ASSUME NEW p \in Procs, Exits(p) PROVE ProcessTyped'
  BY <1>3, <1>t DEF Exits
<1>4. CASE ReaderThreadEnds
  BY <1>4, <1>t, <1>e DEF ReaderThreadEnds
<1>5. CASE WorkerEnds
  BY <1>5, <1>t, EmptySeq DEF WorkerEnds
<1>6. CASE Spawn
  BY <1>6, <1>t DEF Spawn, Procs
<1>7. CASE GetLine
  <2>1. lines' = lines \/ (lines # <<>> /\ lines' = Tail(lines))
    BY <1>7 DEF GetLine
  <2> QED BY <1>7, <1>t, <2>1, TailFacts DEF GetLine, Supervised
<1>8. CASE Signal \/ FindFamily
  BY <1>8, <1>t DEF Signal, FindFamily, Group, Live, Procs
<1>9. CASE Grace
  BY <1>9, <1>t DEF Grace
<1>10. CASE UNCHANGED process
  BY <1>10, <1>t DEF process
<1>11. CASE Callers \/ Reconcilers \/ HandOver \/ Diagnose \/ DeliverPrompt
  BY <1>11, <1>10 DEF Callers, Call, Cancel, Confirm, Join, Conclude, CallerStep, Reconcilers,
     Reconcile, ReadRow, RecoverRun, Watch, AppendEvents, LastEvent, SaveRow, ReconcilerStep,
     HandOver, Diagnose, DeliverPrompt
<1>12. CASE DeadlinePasses \/ \E r \in Others : ReaderDies(r)
  BY <1>12, <1>10 DEF DeadlinePasses, ReaderDies, ReconcilerStep
<1>13. CASE Flush \/ Check \/ Settle \/ Judge \/ CloseFile \/ PublishResult \/ Reap
  BY <1>13, <1>10 DEF Flush, Check, Settle, Judge, CloseFile, PublishResult, Reap
<1> QED BY <1>1, <1>2, <1>3, <1>4, <1>5, <1>6, <1>7, <1>8, <1>9, <1>11, <1>12, <1>13
        DEF Next, Start, Supervise, Environment, Callers, Reconcilers

LEMMA ClientTyped ==
  ASSUME HostTyped, NEW c \in Clients, Call(c)
  PROVE  client' \in [Clients -> ClientRecords]
<1>s. client[c] \in ClientRecords
  BY DEF HostTyped
<1>p. ASSUME NEW p \in {"asked", "unknown", "wait", "error", "done"},
             client' = [client EXCEPT ![c].pc = p]
      PROVE  client' \in [Clients -> ClientRecords]
  <2>1. [client[c] EXCEPT !.pc = p] \in ClientRecords
    BY <1>s DEF ClientRecords
  <2> QED BY <1>p, <2>1 DEF HostTyped
<1>1. CASE Cancel(c)
  BY <1>1, <1>p DEF Cancel
<1>2. CASE Confirm(c)
  <2> DEFINE stopped == result # None /\ sup.stopped /\ tree["root"] = "dead"
             q == [pc |-> "join", stopped |-> stopped, confirmed |-> stopped /\ closed]
  <2>1. q \in ClientRecords
    <3>1. stopped \in BOOLEAN /\ (stopped /\ closed) \in BOOLEAN
      OBVIOUS
    <3> HIDE DEF stopped
    <3> QED BY <3>1 DEF ClientRecords
  <2>2. client' = [client EXCEPT ![c] = q]
    BY <1>2 DEF Confirm
  <2> HIDE DEF q
  <2> QED BY <2>1, <2>2 DEF HostTyped
<1>3. CASE Join(c)
  BY <1>3, <1>p DEF Join
<1>4. CASE Conclude(c)
  BY <1>4, <1>p DEF Conclude
<1> QED BY <1>1, <1>2, <1>3, <1>4 DEF Call

LEMMA HostTypedStep ==
  ASSUME IInv, Next
  PROVE  HostTyped'
<1>t. HostTyped
  BY InvParts
<1>1. CASE Start
  BY <1>1, <1>t DEF HostTyped, Start, Diagnose, Spawn, DeliverPrompt, HandOver
<1>2. CASE Reap
  BY <1>2, <1>t DEF HostTyped, Reap
<1>3. CASE Supervise /\ ~Reap
  <2>1. Supervised
    BY <1>3 DEF Supervise, Flush, Check, GetLine, Signal, FindFamily, Grace, Settle, Judge,
       CloseFile, PublishResult
  <2> QED BY <2>1, <1>t DEF HostTyped, Supervised
<1>4. ASSUME NEW c \in Clients, Call(c) PROVE HostTyped'
  <2>1. client' \in [Clients -> ClientRecords]
    BY <1>4, <1>t, ClientTyped
  <2>2. /\ UNCHANGED <<env, worker, started, expired>>
        /\ cancelled' \in {TRUE, cancelled} /\ registered' \in {FALSE, registered}
    BY <1>4 DEF Call, Cancel, Confirm, Join, Conclude, CallerStep
  <2> QED BY <1>t, <2>1, <2>2 DEF HostTyped
<1>5. CASE WorkerEnds
  <2>1. IdleClient \in ClientRecords
    BY DEF IdleClient, ClientRecords
  <2> QED BY <1>5, <1>t, <2>1 DEF HostTyped, WorkerEnds
<1>6. CASE UNCHANGED <<env, worker, started, cancelled, registered, client>>
           /\ expired' \in {TRUE, expired}
  BY <1>6, <1>t DEF HostTyped
<1>7. CASE SpawnChild \/ WriteLine \/ (\E p \in Procs : Exits(p)) \/ ReaderThreadEnds
           \/ DeadlinePasses
  BY <1>7, <1>6 DEF SpawnChild, WriteLine, Exits, ReaderThreadEnds, DeadlinePasses
<1>8. CASE Reconcilers \/ \E r \in Others : ReaderDies(r)
  BY <1>8, <1>6 DEF Reconcilers, Reconcile, ReadRow, RecoverRun, Watch, AppendEvents, LastEvent,
     SaveRow, ReconcilerStep, ReaderDies
<1> QED BY <1>1, <1>2, <1>3, <1>4, <1>5, <1>7, <1>8 DEF Next, Environment, Reconcilers

\* Only what was put behind everything else ends a pipe.
LEMMA GetBound ==
  ASSUME IInv, GetLine
  PROVE  sup.streams + 1 \in 0..2 \/ lines = <<>> \/ Head(lines) # "end"
<1>t. ProcessTyped /\ SupTyped /\ QueueInv
  BY InvParts
<1> SUFFICES ASSUME lines # <<>>, Head(lines) = "end" PROVE sup.streams + 1 \in 0..2
  OBVIOUS
<1>1. Len(lines) \in Nat \ {0} /\ lines[1] = "end"
  BY <1>t, TailFacts DEF ProcessTyped
<1>2. worker = "live" /\ sup.streams \in 0..2 /\ ended \in 0..2
  BY <1>t, SupNow DEF GetLine, Supervises, ProcessTyped, SupTyped
<1>3. lines[1] = "end" <=> 1 > Len(lines) - (ended - sup.streams)
  BY <1>t, <1>1, <1>2 DEF QueueInv
<1>4. ended - sup.streams >= 1
  BY <1>1, <1>2, <1>3
<1> QED BY <1>2, <1>4

LEMMA SupTypedStep ==
  ASSUME IInv, Next
  PROVE  SupTyped'
<1>t. SupTyped /\ ProcessTyped /\ SupervisionInv
  BY InvParts
<1>n. ASSUME NEW p, NEW w, NEW f, NEW b, NEW n, NEW t, Now(sup', p, w, f, b, n, t)
      PROVE  sup' \in Supervisors
  BY <1>n DEF Now
<1>1. CASE Flush
  <2>1. sup' \in Supervisors
    BY <1>1, <1>t, FlushNow DEF Same, Now
  <2>2. file' = Append(file, writing) /\ writing \in Kinds
    BY <1>1, <1>t DEF Flush, Supervises, SupervisionInv
  <2>3. file' \in Seq(Kinds)
    BY <1>t, <2>2, AppendFacts DEF SupTyped
  <2> QED BY <1>1, <1>t, <2>1, <2>3 DEF Flush, SupTyped
<1>2. CASE Check \/ Signal \/ FindFamily \/ Settle \/ Grace \/ CloseFile
  <2>1. sup' \in Supervisors
    BY <1>2, <1>t, CheckNow, SignalNow, FindNow, SettleNow, OthersNow DEF Same, Now
  <2>2. UNCHANGED <<file, writing, result>> /\ closed' \in {TRUE, closed}
    BY <1>2 DEF Check, Signal, FindFamily, Settle, Grace, CloseFile
  <2> QED BY <1>t, <2>1, <2>2 DEF SupTyped
<1>3. CASE GetLine
  <2>1. sup' \in Supervisors /\ writing' \in Kinds \cup {None}
    BY <1>3, <1>t, GetNow, GetBound DEF Same, Now, SupTyped
  <2> QED BY <1>3, <1>t, <2>1 DEF GetLine, SupTyped
<1>4. CASE Judge
  <2>1. sup.why # "prompt"
    BY <1>4, <1>t DEF Judge, Supervises, SupervisionInv
  <2>2. sup' \in Supervisors /\ writing' \in Kinds \cup {None}
    BY <1>4, <1>t, <2>1, JudgeNow, KindIs DEF Now
  <2> QED BY <1>4, <1>t, <2>2 DEF Judge, SupTyped
<1>5. CASE PublishResult
  <2>1. sup' \in Supervisors /\ sup.status \in Statuses \cup {None}
    BY <1>5, <1>t, OthersNow, SupNow DEF Same, Now, SupTyped
  <2> QED BY <1>5, <1>t, <2>1 DEF PublishResult, SupTyped
<1>6. CASE Reap
  <2>1. sup' \in Supervisors
    BY <1>6, <1>t, OthersNow DEF Same, Now
  <2> QED BY <1>6, <1>t, <2>1 DEF Reap, SupTyped
<1>7. CASE DeliverPrompt
  <2>1. sup' \in Supervisors /\ writing' \in Kinds \cup {None}
    BY <1>7, <1>t, DeliverNow DEF Same, Now, SupTyped, Kinds
  <2> QED BY <1>7, <1>t, <2>1 DEF DeliverPrompt, SupTyped
<1>8. CASE WorkerEnds
  <2>1. sup' \in Supervisors
    BY <1>8, NoneNow DEF WorkerEnds, Now
  <2> QED BY <1>8, <1>t, <2>1 DEF WorkerEnds, SupTyped
<1>9. CASE UNCHANGED supervision
  BY <1>9, <1>t DEF supervision, SupTyped
<1>10. CASE SpawnChild \/ WriteLine \/ (\E p \in Procs : Exits(p)) \/ ReaderThreadEnds
            \/ DeadlinePasses \/ Diagnose \/ Spawn \/ HandOver
  BY <1>10, <1>9
  DEF SpawnChild, WriteLine, Exits, ReaderThreadEnds, DeadlinePasses, Diagnose, Spawn, HandOver
<1>11. CASE Callers \/ Reconcilers \/ \E r \in Others : ReaderDies(r)
  BY <1>11, <1>9 DEF Callers, Call, Cancel, Confirm, Join, Conclude, CallerStep, Reconcilers,
     Reconcile, ReadRow, RecoverRun, Watch, AppendEvents, LastEvent, SaveRow, ReconcilerStep,
     ReaderDies
<1> QED BY <1>1, <1>2, <1>3, <1>4, <1>5, <1>6, <1>7, <1>8, <1>10, <1>11
        DEF Next, Start, Supervise, Environment, Callers, Reconcilers

-----------------------------------------------------------------------------
(* The reconcilers after their steps.                                      *)

At(q, pc, offset, gone, settled, upto, last) ==
  /\ q \in ReaderRecords
  /\ q.pc = pc /\ q.offset = offset /\ q.gone = gone /\ q.settled = settled
  /\ q.upto = upto /\ q.last = last

LEMMA IdleAt == At(IdleReader, "idle", 0, FALSE, FALSE, 0, None)
  BY DEF At, IdleReader, ReaderRecords

LEMMA ReaderAt ==
  ASSUME NEW q \in ReaderRecords
  PROVE  /\ At(q, q.pc, q.offset, q.gone, q.settled, q.upto, q.last)
         /\ q.pc \in {"idle", "observe", "watch", "append", "last", "save"}
         /\ q.offset \in Nat /\ q.gone \in BOOLEAN /\ q.settled \in BOOLEAN
         /\ q.upto \in Nat /\ q.last \in Kinds \cup {None}
  BY DEF At, ReaderRecords

LEMMA BecomesIs ==
  ASSUME StoreTyped, NEW r \in Readers, NEW q \in ReaderRecords, Becomes(r, q)
  PROVE  /\ reader' \in [Readers -> ReaderRecords] /\ reader'[r] = q
         /\ \A o \in Readers \ {r} : reader'[o] = reader[o]
  BY DEF StoreTyped, Becomes

LEMMA ReadRowAt ==
  ASSUME StoreTyped, NEW r \in Readers, ReadRow(r)
  PROVE  \E q : Becomes(r, q) /\ At(q, "observe", row.offset, FALSE, FALSE, 0, None)
<1> DEFINE q == [IdleReader EXCEPT !.pc = "observe", !.offset = row.offset]
<1>1. row.offset \in Nat
  BY DEF StoreTyped
<1>2. q \in ReaderRecords /\ q.pc = "observe" /\ q.offset = row.offset /\ q.gone = FALSE
      /\ q.settled = FALSE /\ q.upto = 0 /\ q.last = None
  BY <1>1 DEF IdleReader, ReaderRecords
<1>3. Becomes(r, q)
  BY DEF ReadRow
<1> HIDE DEF q
<1> QED BY <1>2, <1>3 DEF At

LEMMA RecoverAt ==
  ASSUME StoreTyped, NEW r \in Readers, RecoverRun(r)
  PROVE  \E q, g, s : /\ Becomes(r, q)
                      /\ At(q, "watch", reader[r].offset, g, s, reader[r].upto, reader[r].last)
                      /\ s <=> Final
<1> DEFINE c == reader[r]
           g == tree["root"] = "dead"
           s == result # None \/ worker = "dead"
           q == [c EXCEPT !.pc = "watch", !.gone = g, !.settled = s]
<1>1. c \in ReaderRecords
  BY DEF StoreTyped
<1>2. Becomes(r, q)
  BY DEF RecoverRun
<1>3. g \in BOOLEAN /\ s \in BOOLEAN /\ (s <=> Final)
  BY DEF Final
<1> HIDE DEF g, s
<1> SUFFICES At(q, "watch", c.offset, g, s, c.upto, c.last)
  BY <1>2, <1>3
<1> HIDE DEF c
<1>4. q \in ReaderRecords
  BY <1>1, <1>3 DEF ReaderRecords
<1>5. q.pc = "watch" /\ q.offset = c.offset /\ q.gone = g
      /\ q.settled = s /\ q.upto = c.upto /\ q.last = c.last
  BY <1>1 DEF ReaderRecords
<1> QED BY <1>4, <1>5 DEF At

LEMMA WatchAt ==
  ASSUME StoreTyped, SupTyped, NEW r \in Readers, Watch(r)
  PROVE  \E q : /\ Becomes(r, q)
                /\ At(q, "append", reader[r].offset, reader[r].gone, reader[r].settled,
                      Len(file), reader[r].last)
<1> DEFINE c == reader[r]
           n == Len(file)
           q == [c EXCEPT !.pc = "append", !.upto = n]
<1>1. c \in ReaderRecords /\ n \in Nat
  BY LenProperties DEF StoreTyped, SupTyped
<1>2. Becomes(r, q)
  BY DEF Watch
<1> HIDE DEF n
<1> SUFFICES At(q, "append", c.offset, c.gone, c.settled, n, c.last)
  BY <1>2 DEF n
<1> HIDE DEF c
<1>4. q \in ReaderRecords
  BY <1>1 DEF ReaderRecords
<1>5. q.pc = "append" /\ q.offset = c.offset /\ q.gone = c.gone
      /\ q.settled = c.settled /\ q.upto = n /\ q.last = c.last
  BY <1>1 DEF ReaderRecords
<1> QED BY <1>4, <1>5 DEF At

LEMMA AppendAt ==
  ASSUME StoreTyped, NEW r \in Readers, AppendEvents(r)
  PROVE  \E q : /\ Becomes(r, q)
                /\ At(q, IF reader[r].gone THEN "last" ELSE "save", reader[r].offset,
                      reader[r].gone, reader[r].settled, reader[r].upto, reader[r].last)
<1> DEFINE c == reader[r]
           p == IF c.gone THEN "last" ELSE "save"
           q == [c EXCEPT !.pc = p]
<1>1. c \in ReaderRecords /\ p \in {"last", "save"}
  BY DEF StoreTyped
<1>2. Becomes(r, q)
  BY DEF AppendEvents
<1> SUFFICES At(q, p, c.offset, c.gone, c.settled, c.upto, c.last)
  BY <1>2
<1> HIDE DEF c, p
<1>4. q \in ReaderRecords
  BY <1>1 DEF ReaderRecords
<1>5. q.pc = p /\ q.offset = c.offset /\ q.gone = c.gone
      /\ q.settled = c.settled /\ q.upto = c.upto /\ q.last = c.last
  BY <1>1 DEF ReaderRecords
<1> QED BY <1>4, <1>5 DEF At

LEMMA LastAt ==
  ASSUME StoreTyped, SupTyped, NEW r \in Readers, LastEvent(r)
  PROVE  \E q : /\ Becomes(r, q)
                /\ At(q, "save", reader[r].offset, reader[r].gone, reader[r].settled,
                      reader[r].upto, LastKind)
<1> DEFINE c == reader[r]
           q == [c EXCEPT !.pc = "save", !.last = LastKind]
<1>1. c \in ReaderRecords /\ LastKind \in Kinds \cup {None}
  BY LastIn DEF StoreTyped, SupTyped, LastKind
<1>2. Becomes(r, q)
  BY DEF LastEvent, LastKind
<1> SUFFICES At(q, "save", c.offset, c.gone, c.settled, c.upto, LastKind)
  BY <1>2
<1> HIDE DEF c
<1>4. q \in ReaderRecords
  BY <1>1 DEF ReaderRecords
<1>5. q.pc = "save" /\ q.offset = c.offset /\ q.gone = c.gone
      /\ q.settled = c.settled /\ q.upto = c.upto /\ q.last = LastKind
  BY <1>1 DEF ReaderRecords
<1> QED BY <1>4, <1>5 DEF At

\* A batch is the stretch of the file between an offset and the end of a reading.
LEMMA AppendFile ==
  ASSUME StoreTyped, SupTyped, NEW r \in Readers, AppendEvents(r), CopyInv(reader[r])
  PROVE  LET a == reader[r].offset
             b == reader[r].upto IN
         /\ a \in Nat /\ b \in Nat /\ a <= b /\ b <= Len(file)
         /\ table' \in Seq(1..Len(file)) /\ Len(table) \in Nat
         /\ Len(table') = Len(table) + (b - a)
         /\ \A k \in 1..Len(table) : table'[k] = table[k]
         /\ \A i \in 1..b - a : table'[Len(table) + i] = a + i
<1> DEFINE a == reader[r].offset
           b == reader[r].upto
           batch == [i \in 1..b - a |-> a + i]
<1>1. a \in Nat /\ b \in Nat /\ Len(file) \in Nat
  BY LenProperties DEF StoreTyped, SupTyped, ReaderRecords
<1>2. a <= b /\ b <= Len(file)
  BY DEF AppendEvents, CopyInv
<1>3. table' = table \o batch
  BY DEF AppendEvents
<1>4. table \in Seq(1..Len(file))
  BY DEF StoreTyped
<1> HIDE DEF a, b
<1>5. batch \in [1..b - a -> 1..Len(file)] /\ b - a \in Nat
  BY <1>1, <1>2
<1>6. batch \in Seq(1..Len(file)) /\ DOMAIN batch = 1..b - a
  BY <1>5, SeqDef
<1>7. Len(batch) = b - a
  BY <1>5, <1>6, LenProperties
<1>8. \A i \in 1..b - a : batch[i] = a + i
  OBVIOUS
<1> HIDE DEF batch
<1>9. Len(table) \in Nat
  BY <1>4, LenProperties
<1>10. /\ table' \in Seq(1..Len(file)) /\ Len(table') = Len(table) + (b - a)
       /\ \A i \in 1..Len(table) + (b - a) :
            table'[i] = IF i <= Len(table) THEN table[i] ELSE batch[i - Len(table)]
  BY <1>3, <1>4, <1>6, <1>7, ConcatProperties
<1>11. \A k \in 1..Len(table) : table'[k] = table[k]
  BY <1>5, <1>9, <1>10
<1>12. \A i \in 1..b - a : table'[Len(table) + i] = a + i
  <2> TAKE i \in 1..b - a
  <2>1. Len(table) + i \in 1..Len(table) + (b - a) /\ ~(Len(table) + i <= Len(table))
        /\ Len(table) + i - Len(table) = i
    BY <1>5, <1>9
  <2> QED BY <2>1, <1>8, <1>10
<1> QED BY <1>1, <1>2, <1>9, <1>10, <1>11, <1>12 DEF a, b

LEMMA FileGrows ==
  ASSUME IInv, Next
  PROVE  \/ file' = file
         \/ /\ Flush /\ file' = Append(file, writing) /\ writing \in Kinds
            /\ Len(file') = Len(file) + 1
<1>1. CASE Flush
  BY <1>1, InvParts, AppendFacts DEF Flush, Supervises, SupervisionInv, SupTyped
<1>2. CASE Supervise /\ ~Flush
  BY <1>2 DEF Supervise, Check, GetLine, Signal, FindFamily, Grace, Settle, Judge, CloseFile,
     PublishResult, Reap
<1>3. CASE Start
  BY <1>3 DEF Start, Diagnose, Spawn, DeliverPrompt, HandOver, supervision
<1>4. CASE Callers \/ Reconcilers
  BY <1>4 DEF Callers, Call, Cancel, Confirm, Join, Conclude, CallerStep, Reconcilers,
     Reconcile, ReadRow, RecoverRun, Watch, AppendEvents, LastEvent, SaveRow, ReconcilerStep,
     supervision
<1>5. CASE Environment
  BY <1>5 DEF Environment, SpawnChild, WriteLine, Exits, ReaderThreadEnds, DeadlinePasses,
     WorkerEnds, ReaderDies, ReconcilerStep, supervision
<1> QED BY <1>1, <1>2, <1>3, <1>4, <1>5 DEF Next, Callers, Reconcilers

LEMMA StoreTypedStep ==
  ASSUME IInv, Next
  PROVE  StoreTyped'
<1>t. StoreTyped /\ SupTyped /\ DeliveryInv
  BY InvParts
<1>l. Len(file) \in Nat /\ Len(file') \in Nat /\ Len(file) <= Len(file')
  <2>1. SupTyped'
    BY SupTypedStep
  <2> QED BY <1>t, <2>1, FileGrows, LenProperties DEF SupTyped
<1>m. ASSUME NEW s \in Seq(1..Len(file)) PROVE s \in Seq(1..Len(file'))
  <2>1. 1..Len(file) \subseteq 1..Len(file')
    BY <1>l
  <2> QED BY <2>1, SeqMonotonic
<1>s. CASE UNCHANGED store /\ reader' \in [Readers -> ReaderRecords]
  <2>1. row' \in [state : RowStates, offset : 0..Len(file'), settled : BOOLEAN]
    BY <1>s, <1>t, <1>l DEF store, StoreTyped
  <2>2. table' \in Seq(1..Len(file'))
    BY <1>s, <1>t, <1>m DEF store, StoreTyped
  <2> QED BY <1>s, <2>1, <2>2 DEF StoreTyped
<1>b. ASSUME NEW r \in Readers, NEW q, NEW pc, NEW o, NEW g, NEW s, NEW u, NEW l,
             Becomes(r, q), At(q, pc, o, g, s, u, l)
      PROVE  reader' \in [Readers -> ReaderRecords]
  BY <1>b, <1>t, BecomesIs DEF At
<1>1. CASE HandOver
  <2>1. reader' \in [Readers -> ReaderRecords] /\ UNCHANGED <<file, table>>
    BY <1>1, <1>t DEF HandOver, StoreTyped, supervision
  <2>2. row' \in [state : RowStates, offset : 0..Len(file), settled : BOOLEAN]
    BY <1>1, <1>t DEF HandOver, StoreTyped, RowStates
  <2> QED BY <1>t, <2>1, <2>2 DEF StoreTyped
<1>2. ASSUME NEW r \in Readers, ReadRow(r) \/ RecoverRun(r) \/ Watch(r) \/ LastEvent(r)
      PROVE  StoreTyped'
  <2>1. reader' \in [Readers -> ReaderRecords]
    BY <1>2, <1>t, <1>b, ReadRowAt, RecoverAt, WatchAt, LastAt
  <2> QED BY <1>2, <1>s, <2>1 DEF ReadRow, RecoverRun, Watch, LastEvent
<1>3. ASSUME NEW r \in Readers, AppendEvents(r) PROVE StoreTyped'
  <2>1. reader' \in [Readers -> ReaderRecords]
    BY <1>3, <1>t, <1>b, AppendAt
  <2>2. table' \in Seq(1..Len(file))
    BY <1>3, <1>t, AppendFile DEF DeliveryInv
  <2>3. row' = row /\ file' = file
    BY <1>3 DEF AppendEvents, ReconcilerStep, supervision
  <2> QED BY <1>t, <2>1, <2>2, <2>3 DEF StoreTyped
<1>4. ASSUME NEW r \in Readers, SaveRow(r) PROVE StoreTyped'
  <2>1. reader' \in [Readers -> ReaderRecords]
    BY <1>4, <1>t, <1>b, IdleAt DEF SaveRow
  <2>2. table' = table /\ file' = file
    BY <1>4 DEF SaveRow, ReconcilerStep, supervision
  <2>3. reader[r].upto \in 0..Len(file) /\ reader[r].settled \in BOOLEAN
    BY <1>4, <1>t, <1>l, ReaderAt DEF SaveRow, StoreTyped, DeliveryInv, CopyInv
  <2>4. (IF reader[r].gone THEN TerminalByEvent(reader[r].last) ELSE "running") \in RowStates
    BY DEF TerminalByEvent, RowStates
  <2>5. row' \in [state : RowStates, offset : 0..Len(file), settled : BOOLEAN]
    BY <1>4, <2>3, <2>4 DEF SaveRow
  <2> QED BY <1>t, <2>1, <2>2, <2>5 DEF StoreTyped
<1>5. ASSUME NEW r \in Readers, Becomes(r, IdleReader), UNCHANGED store PROVE StoreTyped'
  BY <1>5, <1>t, <1>b, <1>s, IdleAt
<1>6. CASE WorkerEnds \/ \E r \in Others : ReaderDies(r)
  BY <1>6, <1>5 DEF WorkerEnds, ReaderDies, Readers
<1>7. CASE UNCHANGED <<store, reader>>
  BY <1>7, <1>s, <1>t DEF StoreTyped
<1>8. CASE Supervise
  <2>1. Supervised \/ Reap
    BY <1>8 DEF Supervise, Flush, Check, GetLine, Signal, FindFamily, Grace, Settle, Judge,
       CloseFile, PublishResult
  <2> QED BY <2>1, <1>7 DEF Supervised, Reap
<1>9. CASE Diagnose \/ Spawn \/ DeliverPrompt \/ Callers
  BY <1>9, <1>7 DEF Diagnose, Spawn, DeliverPrompt, Callers, Call, Cancel, Confirm, Join,
     Conclude, CallerStep
<1>10. CASE SpawnChild \/ WriteLine \/ (\E p \in Procs : Exits(p)) \/ ReaderThreadEnds
            \/ DeadlinePasses
  BY <1>10, <1>7 DEF SpawnChild, WriteLine, Exits, ReaderThreadEnds, DeadlinePasses
<1> QED BY <1>1, <1>2, <1>3, <1>4, <1>6, <1>8, <1>9, <1>10
        DEF Next, Start, Environment, Callers, Reconcile

LEMMA TypeStep ==
  ASSUME IInv, Next
  PROVE  TypeOK'
<1>1. (TypeOK <=> ProcessTyped /\ HostTyped /\ SupTyped /\ StoreTyped)'
  BY TypeParts, PTL
<1> QED BY <1>1, ProcessTypedStep, HostTypedStep, SupTypedStep, StoreTypedStep

LEMMA TypeInit == Init => TypeOK
<1> SUFFICES ASSUME Init PROVE ProcessTyped /\ HostTyped /\ SupTyped /\ StoreTyped
  BY TypeParts
<1>1. ProcessTyped
  BY BoundsAssumption, EmptySeq DEF Init, ProcessTyped
<1>2. HostTyped
  BY DEF Init, HostTyped, IdleClient, ClientRecords
<1>3. SupTyped
  BY NoneNow, EmptySeq DEF Init, SupTyped, Now
<1>4. StoreTyped
  <2>1. row \in [state : RowStates, offset : 0..Len(file), settled : BOOLEAN]
    BY EmptySeq DEF Init, RowStates
  <2>2. table \in Seq(1..Len(file)) /\ reader \in [Readers -> ReaderRecords]
    BY EmptySeq, IdleAt DEF Init, At
  <2> QED BY <2>1, <2>2 DEF StoreTyped
<1> QED BY <1>1, <1>2, <1>3, <1>4

-----------------------------------------------------------------------------
(* The start and the supervision.                                          *)

Still == UNCHANGED <<started, tree, worker, sup, file, writing, closed, result>>

LEMMA StepShapes ==
  ASSUME Next
  PROVE  \/ Still
         \/ SpawnChild \/ (\E p \in Procs : Exits(p)) \/ WorkerEnds
         \/ Diagnose \/ Spawn \/ DeliverPrompt \/ Reap
         \/ Supervise /\ ~Reap
<1>1. CASE WriteLine \/ ReaderThreadEnds \/ DeadlinePasses \/ HandOver
  BY <1>1 DEF WriteLine, ReaderThreadEnds, DeadlinePasses, HandOver, Still, supervision, process
<1>2. CASE Callers \/ Reconcilers \/ \E r \in Others : ReaderDies(r)
  BY <1>2 DEF Callers, Call, Cancel, Confirm, Join, Conclude, CallerStep, Reconcilers, Reconcile,
     ReadRow, RecoverRun, Watch, AppendEvents, LastEvent, SaveRow, ReconcilerStep, ReaderDies,
     Still, supervision, process
<1> QED BY <1>1, <1>2 DEF Next, Start, Environment, Callers, Reconcilers

LEMMA SuperviseKeeps ==
  ASSUME IInv, Supervise, ~Reap
  PROVE  /\ worker = "live" /\ UNCHANGED <<worker, started>> /\ sup.pc # "none"
         /\ sup'.pc # "none" /\ (sup'.why = "prompt" <=> sup.why = "prompt")
         /\ sup.why = "prompt" => UNCHANGED <<file, writing, closed, result>>
         /\ tree'["root"] # tree["root"] => tree["root"] = "live"
<1>t. SupTyped /\ ProcessTyped /\ SupervisionInv
  BY InvParts
<1>1. CASE Flush
  BY <1>1, <1>t, FlushNow DEF Flush, Supervises, Supervised, process, SupervisionInv, Same, Now
<1>2. CASE Check
  BY <1>2, <1>t, CheckNow DEF Check, Supervises, Supervised, process, SupervisionInv, Same, Now
<1>3. CASE GetLine
  <2>1. sup'.pc # "none" /\ sup'.why = sup.why
    BY <1>3, <1>t, GetNow, GetBound DEF Same, Now
  <2> QED BY <2>1, <1>3, <1>t DEF GetLine, Supervises, Supervised, SupervisionInv
<1>4. CASE Signal \/ FindFamily \/ Settle
  <2>1. sup'.pc # "none" /\ sup'.why = sup.why
    BY <1>4, <1>t, SignalNow, FindNow, SettleNow DEF Same, Now
  <2> QED BY <2>1, <1>4, <1>t DEF Signal, FindFamily, Settle, Supervises, Supervised, process
<1>5. CASE Grace
  <2>1. sup'.pc # "none" /\ sup'.why = sup.why
    BY <1>5, <1>t, OthersNow DEF Same, Now
  <2> QED BY <2>1, <1>5, <1>t DEF Grace, Supervises, Supervised
<1>6. CASE CloseFile \/ PublishResult
  <2>1. sup'.pc # "none" /\ sup'.why = sup.why
    BY <1>6, <1>t, OthersNow DEF Same, Now
  <2> QED BY <2>1, <1>6, <1>t
          DEF CloseFile, PublishResult, Supervises, Supervised, process, SupervisionInv
<1>7. CASE Judge
  <2>0. sup.why # "prompt"
    BY <1>7, <1>t DEF Judge, Supervises, SupervisionInv
  <2>1. sup'.pc # "none" /\ sup'.why = sup.why
    BY <1>7, <1>t, <2>0, JudgeNow DEF Same, Now
  <2> QED BY <2>0, <2>1, <1>7 DEF Judge, Supervises, Supervised, process
<1> QED BY <1>1, <1>2, <1>3, <1>4, <1>5, <1>6, <1>7 DEF Supervise

LEMMA StartStep ==
  ASSUME IInv, Next
  PROVE  StartInv'
<1>t. ProcessTyped /\ SupTyped /\ StartInv /\ SupervisionInv
  BY InvParts
<1> USE DEF StartInv
<1>n. NoSupervisor.pc = "none" /\ NoSupervisor.why = None /\ None # "prompt"
  BY NoneAssumption DEF NoSupervisor
<1>1. CASE Still
  BY <1>1, <1>t DEF Still
<1>2. CASE SpawnChild
  BY <1>2, <1>t DEF SpawnChild, supervision, ProcessTyped, Procs
<1>3. ASSUME NEW p \in Procs, Exits(p) PROVE StartInv'
  <2>1. tree'["root"] # tree["root"] => tree["root"] = "live" /\ tree'["root"] = "dead"
    BY <1>3, <1>t DEF Exits, ProcessTyped, Live, Procs
  <2> QED BY <2>1, <1>3, <1>t DEF Exits, supervision
<1>4. CASE WorkerEnds
  BY <1>4, <1>t, <1>n DEF WorkerEnds
<1>5. CASE Diagnose
  BY <1>5, <1>t, <1>n DEF Diagnose, process, supervision
<1>6. CASE Spawn
  BY <1>6, <1>t, <1>n DEF Spawn, supervision, ProcessTyped, Procs
<1>7. CASE DeliverPrompt
  <2>1. sup.why = None
    BY <1>7, <1>t, <1>n DEF DeliverPrompt
  <2>2. CASE started' = "running" /\ Same(sup', "write")
    BY <2>1, <2>2, <1>7, <1>t, <1>n DEF DeliverPrompt, process, Same, Now
  <2>3. CASE /\ started' = "undelivered" /\ writing' = writing
             /\ Now(sup', "signal", "prompt", sup.family, sup.stopped, sup.streams, sup.status)
    BY <2>3, <1>7, <1>t, <1>n DEF DeliverPrompt, process, Now
  <2> QED BY <2>2, <2>3, <1>7, <1>t, DeliverNow
<1>8. CASE Reap
  <2>1. sup'.pc = "none" /\ sup.why = "prompt" /\ started = "undelivered"
    BY <1>8, <1>t, OthersNow DEF Reap, SupervisionInv, Same, Now
  <2> QED BY <2>1, <1>8, <1>t DEF Reap, process
<1>9. CASE Supervise /\ ~Reap
  BY <1>9, <1>t, SuperviseKeeps
<1> QED BY <1>1, <1>2, <1>3, <1>4, <1>5, <1>6, <1>7, <1>8, <1>9, StepShapes

LEMMA NoneKind ==
  /\ None \notin Kinds /\ None \notin Statuses /\ None # "prompt"
  BY NoneAssumption DEF Kinds, Statuses

\* A file with a new last event.
LEMMA Flushed ==
  ASSUME SupTyped, SupervisionInv, Flush
  PROVE  file' # <<>> /\ Last(file') = writing /\ writing \in Kinds
  BY AppendFacts DEF Flush, Supervises, SupTyped, SupervisionInv

LEMMA SupervisionStep ==
  ASSUME IInv, Next
  PROVE  SupervisionInv'
<1>t. SupTyped /\ StartInv /\ SupervisionInv
  BY InvParts
<1> USE DEF SupervisionInv, TerminalEventMatches
<1>1. CASE UNCHANGED <<worker, sup, writing, file, closed, result>>
  BY <1>1, <1>t
<1>2. CASE Still \/ SpawnChild \/ (\E p \in Procs : Exits(p)) \/ Diagnose \/ Spawn
  BY <1>2, <1>1 DEF Still, SpawnChild, Exits, Diagnose, Spawn, supervision
<1>3. CASE WorkerEnds
  <2>1. sup'.pc = "none" /\ sup'.why = None /\ sup'.status = None
    BY <1>3 DEF WorkerEnds, NoSupervisor
  <2> QED BY <2>1, <1>3, <1>t, NoneKind DEF WorkerEnds
<1>4. CASE DeliverPrompt
  <2>0. /\ sup.why = None /\ sup.status = None /\ sup.pc = "none" /\ result = None
        /\ writing = None
    BY <1>4, <1>t DEF DeliverPrompt, StartInv, NoSupervisor
  <2>1. UNCHANGED <<file, closed, result, worker>>
    BY <1>4 DEF DeliverPrompt
  <2>2. CASE writing' = "started" /\ Same(sup', "write")
    BY <2>0, <2>1, <2>2, <1>t, NoneKind DEF Same, Now, Kinds
  <2>3. CASE /\ writing' = writing
             /\ Now(sup', "signal", "prompt", sup.family, sup.stopped, sup.streams, sup.status)
    BY <2>0, <2>1, <2>3, <1>t, NoneKind DEF Now
  <2> QED BY <2>2, <2>3, <1>4, <1>t, DeliverNow
<1>5. CASE Reap
  <2>1. Same(sup', "none") /\ sup.pc = "reap"
    BY <1>5, <1>t, OthersNow DEF Reap
  <2> QED BY <2>1, <1>5, <1>t DEF Reap, Same, Now
<1>6. CASE Flush
  <2>1. Same(sup', IF sup.status = None THEN "check" ELSE "close")
    BY <1>6, <1>t, FlushNow
  <2>2. /\ writing' = None /\ UNCHANGED <<worker, closed, result>> /\ sup.pc = "write"
        /\ worker = "live" /\ result = None
    BY <1>6, <1>t DEF Flush, Supervised, Supervises
  <2> QED BY <2>1, <2>2, <1>6, <1>t, Flushed DEF Same, Now
<1>7. CASE Check
  <2>1. UNCHANGED <<worker, file, writing, closed, result>> /\ sup.pc = "check" /\ worker = "live"
    BY <1>7 DEF Check, Supervised, Supervises
  <2> QED BY <2>1, <1>7, <1>t, CheckNow DEF Same, Now
<1>8. CASE GetLine
  <2>1. UNCHANGED <<worker, file, closed, result>> /\ sup.pc = "get" /\ worker = "live"
    BY <1>8 DEF GetLine, Supervised, Supervises
  <2>2. /\ sup'.why = sup.why /\ sup'.status = sup.status
        /\ \/ sup'.pc = "check" /\ writing' = writing
           \/ sup'.pc = "write" /\ writing' \in Kinds
    BY <1>8, <1>t, GetNow, GetBound, InvParts DEF Same, Now
  <2> QED BY <2>1, <2>2, <1>t
<1>9. CASE Signal \/ FindFamily \/ Grace \/ Settle
  <2>1. /\ UNCHANGED <<worker, file, writing, closed, result>> /\ worker = "live"
        /\ sup.pc \in {"signal", "family", "grace", "settle"}
    BY <1>9 DEF Signal, FindFamily, Grace, Settle, Supervised, Supervises
  <2>2. /\ sup'.why = sup.why /\ sup'.status = sup.status
        /\ \/ sup'.pc \in {"family", "grace", "settle"}
           \/ sup'.pc = IF sup.why = "prompt" THEN "reap" ELSE "get"
    BY <1>9, <1>t, SignalNow, FindNow, OthersNow, SettleNow DEF Same, Now
  <2> QED BY <2>1, <2>2, <1>t
<1>10. CASE Judge
  <2>1. /\ UNCHANGED <<worker, file, closed, result>> /\ worker = "live" /\ sup.pc = "judge"
    BY <1>10 DEF Judge, Supervised, Supervises
  <2>2. PICK t \in Statuses :
          \/ /\ Last(file) = TerminalKind(t) /\ writing' = None
             /\ Now(sup', "close", sup.why, sup.family, sup.stopped, sup.streams, t)
          \/ /\ writing' = TerminalKind(t)
             /\ Now(sup', "write", sup.why, sup.family, sup.stopped, sup.streams, t)
    BY <1>10, <1>t, <2>1, JudgeNow
  <2> QED BY <2>1, <2>2, <1>t, KindIs, NoneKind DEF Now
<1>11. CASE CloseFile
  <2>1. /\ UNCHANGED <<worker, file, writing, result>> /\ closed' = TRUE /\ worker = "live"
        /\ sup.pc = "close" /\ Same(sup', "publish")
    BY <1>11, <1>t, OthersNow DEF CloseFile, Supervised, Supervises
  <2> QED BY <2>1, <1>t DEF Same, Now
<1>12. CASE PublishResult
  <2>1. /\ UNCHANGED <<worker, file, writing, closed>> /\ result' = sup.status /\ worker = "live"
        /\ sup.pc = "publish" /\ Same(sup', "done")
    BY <1>12, <1>t, OthersNow DEF PublishResult, Supervised, Supervises
  <2> QED BY <2>1, <1>t DEF Same, Now
<1> QED BY <1>2, <1>3, <1>4, <1>5, <1>6, <1>7, <1>8, <1>9, <1>10, <1>11, <1>12, StepShapes
        DEF Supervise

-----------------------------------------------------------------------------
(* The processes and what was terminated of them.                          *)

\* Grace kills, among others, the provider.
LEMMA GraceKills ==
  ASSUME ProcessTyped, Grace
  PROVE  /\ tree'["root"] = "dead"
         /\ \A p \in Procs : tree'[p] = tree[p] \/ (tree'[p] = "dead" /\ tree[p] = "live")
<1>1. CASE tree["root"] = "dead" /\ tree' = tree
  BY <1>1
<1>2. CASE /\ tree["root"] = "live"
           /\ tree' = [p \in Procs |->
                         IF p \in Group \cup (sup.family \cap Live) THEN "dead" ELSE tree[p]]
  <2>1. "root" \in Group
    BY <1>2 DEF Group, Live, Procs
  <2>2. \A p \in Group \cup (sup.family \cap Live) : tree[p] = "live"
    BY DEF Group, Live
  <2> QED BY <1>2, <2>1, <2>2 DEF Procs
<1> QED BY <1>1, <1>2 DEF Grace

\* Nobody comes back to life, and who was there leaves a trace.
LEMMA TreeStep ==
  ASSUME IInv, Next, NEW p \in Procs
  PROVE  /\ tree[p] # "none" => tree'[p] # "none"
         /\ tree[p] = "dead" => tree'[p] = "dead"
<1>t. ProcessTyped /\ StartInv
  BY InvParts
<1>1. CASE SpawnChild
  BY <1>1, <1>t DEF SpawnChild, ProcessTyped, Procs
<1>2. ASSUME NEW o \in Procs, Exits(o)
      PROVE  tree' = [tree EXCEPT ![o] = "dead"]
  BY <1>2 DEF Exits
<1>3. CASE \E o \in Procs : Exits(o)
  BY <1>2, <1>3, <1>t DEF ProcessTyped
<1>4. CASE Spawn
  BY <1>4, <1>t DEF Spawn, StartInv, ProcessTyped, Procs
<1>5. CASE Grace
  BY <1>5, <1>t, GraceKills
<1>6. CASE Still \/ WorkerEnds \/ Diagnose \/ DeliverPrompt \/ Reap
  BY <1>6 DEF Still, WorkerEnds, Diagnose, DeliverPrompt, Reap, process
<1>7. CASE Supervise /\ ~Reap /\ ~Grace
  BY <1>7 DEF Supervise, Flush, Check, GetLine, Signal, FindFamily, Settle, Judge,
     CloseFile, PublishResult, process
<1> QED BY <1>1, <1>3, <1>4, <1>5, <1>6, <1>7, StepShapes

LEMMA LiveStep ==
  ASSUME IInv, Next, NEW f \in SUBSET Procs, \A p \in f : tree[p] # "none"
  PROVE  /\ f \cap Live' \subseteq f \cap Live
         /\ \A p \in f : tree'[p] # "none"
<1>t. ProcessTyped
  BY InvParts
<1>1. ASSUME NEW p \in f PROVE tree'[p] # "none" /\ (tree'[p] = "live" => tree[p] = "live")
  BY <1>1, <1>t, TreeStep DEF ProcessTyped
<1> QED BY <1>1 DEF Live

\* Who confirms has seen the result of a provider that is gone.
LEMMA ConfirmedStep ==
  ASSUME IInv, Next, NEW c \in Clients, client'[c].confirmed
  PROVE  /\ ~WorkerEnds
         /\ \/ client[c].confirmed
            \/ /\ result # None /\ sup.stopped /\ tree["root"] = "dead" /\ closed
               /\ worker = "live" /\ Still
<1>t. client \in [Clients -> ClientRecords]
  BY InvParts DEF HostTyped
<1> DEFINE Seen == \/ client[c].confirmed
                   \/ /\ result # None /\ sup.stopped /\ tree["root"] = "dead" /\ closed
                      /\ worker = "live" /\ Still
<1>1. ~WorkerEnds
  BY <1>t DEF WorkerEnds, IdleClient
<1> SUFFICES Seen
  BY <1>1
<1>2. CASE UNCHANGED client
  BY <1>2
<1>3. ASSUME NEW d \in Clients, Cancel(d) \/ Join(d) \/ Conclude(d)
      PROVE  client'[c].confirmed = client[c].confirmed
  <2>1. PICK p : client' = [client EXCEPT ![d].pc = p]
    BY <1>3 DEF Cancel, Join, Conclude
  <2> QED BY <2>1, <1>t DEF ClientRecords
<1>4. ASSUME NEW d \in Clients, Confirm(d), d # c PROVE client'[c] = client[c]
  BY <1>4, <1>t DEF Confirm
<1>5. CASE Confirm(c)
  <2> DEFINE stopped == result # None /\ sup.stopped /\ tree["root"] = "dead"
  <2>1. client'[c] = [pc |-> "join", stopped |-> stopped, confirmed |-> stopped /\ closed]
    BY <1>5, <1>t DEF Confirm
  <2>2. stopped /\ closed
    <3> DEFINE said == stopped /\ closed
    <3>1. said \in BOOLEAN /\ client'[c].confirmed = said
      <4>1. client'[c] = [pc |-> "join", stopped |-> stopped, confirmed |-> said]
        BY <2>1
      <4>2. said \in BOOLEAN
        OBVIOUS
      <4> HIDE DEF said
      <4> QED BY <4>1, <4>2
    <3>2. said
      <4> HIDE DEF said
      <4> QED BY <3>1
    <3> QED BY <3>2
  <2>3. Still /\ worker = "live"
    BY <1>5 DEF Confirm, CallerStep, Still, process, supervision
  <2> QED BY <2>2, <2>3
<1>6. CASE Callers
  BY <1>6, <1>3, <1>4, <1>5 DEF Callers, Call
<1>7. CASE Reconcilers \/ \E r \in Others : ReaderDies(r)
  BY <1>7, <1>2 DEF Reconcilers, Reconcile, ReadRow, RecoverRun, Watch, AppendEvents, LastEvent,
     SaveRow, ReconcilerStep, ReaderDies
<1>8. CASE Start
  BY <1>8, <1>2 DEF Start, Diagnose, Spawn, DeliverPrompt, HandOver
<1>9. CASE Supervise
  <2>1. Supervised \/ Reap
    BY <1>9 DEF Supervise, Flush, Check, GetLine, Signal, FindFamily, Grace, Settle, Judge,
       CloseFile, PublishResult
  <2> QED BY <2>1, <1>2 DEF Supervised, Reap
<1>10. CASE SpawnChild \/ WriteLine \/ (\E p \in Procs : Exits(p)) \/ ReaderThreadEnds
            \/ DeadlinePasses
  BY <1>10, <1>2 DEF SpawnChild, WriteLine, Exits, ReaderThreadEnds, DeadlinePasses
<1> QED BY <1>1, <1>6, <1>7, <1>8, <1>9, <1>10 DEF Next, Environment, Callers, Reconcilers

\* A supervisor that has published stays where it is.
LEMMA PublishedStays ==
  ASSUME IInv, Next, ~WorkerEnds, worker = "live", result # None
  PROVE  UNCHANGED <<worker, sup, file, closed, result>>
<1>t. StartInv /\ SupervisionInv
  BY InvParts
<1>1. sup.pc = "done" /\ started = "running"
  BY <1>t DEF StartInv, SupervisionInv
<1>2. ~Supervise
  BY <1>1 DEF Supervise, Flush, Check, GetLine, Signal, FindFamily, Grace, Settle, Judge,
     CloseFile, PublishResult, Reap, Supervises
<1>3. ~DeliverPrompt /\ ~Reap
  BY <1>1 DEF DeliverPrompt, Reap
<1> QED BY <1>2, <1>3, StepShapes DEF Still, SpawnChild, Exits, Diagnose, Spawn, supervision

Family ==
  /\ \A p \in sup.family : tree[p] # "none"
  /\ sup.pc \in {"signal", "family"} => sup.family = {}
  /\ sup.family # {} => sup.pc = "grace" \/ tree["root"] = "dead"
  /\ sup.stopped /\ sup.pc \notin {"grace", "settle"} => sup.family \cap Live = {}

LEMMA FamilyStep ==
  ASSUME IInv, Next
  PROVE  Family'
<1>t. ProcessTyped /\ SupTyped /\ Family /\ StartInv
  BY InvParts DEF FamilyInv, Family
<1>f. sup.family \in SUBSET Procs
  BY <1>t, SupNow DEF SupTyped
<1>l. sup.family \cap Live' \subseteq sup.family \cap Live /\ \A p \in sup.family : tree'[p] # "none"
  BY <1>t, <1>f, LiveStep DEF Family
<1>d. tree["root"] = "dead" => tree'["root"] = "dead"
  BY TreeStep DEF Procs
<1> USE DEF Family
<1>0. CASE sup'.family = {}
  BY <1>0
<1>1. CASE sup' = sup
  BY <1>1, <1>t, <1>l, <1>d
<1>2. CASE Still \/ SpawnChild \/ (\E p \in Procs : Exits(p)) \/ Diagnose \/ Spawn
  BY <1>2, <1>1 DEF Still, SpawnChild, Exits, Diagnose, Spawn, supervision
<1>3. CASE WorkerEnds
  BY <1>3, <1>0 DEF WorkerEnds, NoSupervisor
<1>4. CASE DeliverPrompt
  <2>1. sup.family = {}
    BY <1>4, <1>t DEF DeliverPrompt, StartInv, NoSupervisor
  <2>2. sup'.family = sup.family
    BY <1>4, <1>t, DeliverNow DEF Same, Now
  <2> QED BY <2>1, <2>2, <1>0
<1>5. ASSUME NEW p, Same(sup', p), sup.pc \notin {"signal", "family", "grace", "settle"},
             p \notin {"signal", "family"}
      PROVE  Family'
  BY <1>5, <1>t, <1>l, <1>d DEF Same, Now
<1>6. CASE Reap \/ Flush \/ CloseFile \/ PublishResult
  BY <1>6, <1>5, <1>t, FlushNow, OthersNow DEF Reap, Flush, CloseFile, PublishResult, Supervises
<1>7. CASE Check
  <2>1. sup.pc = "check"
    BY <1>7 DEF Check, Supervises
  <2>2. CASE tree["root"] = "live" /\ sup'.family = sup.family
    <3>1. sup.family = {}
      BY <2>1, <2>2, <1>t
    <3> QED BY <3>1, <2>2, <1>0
  <2>3. CASE Same(sup', "judge") \/ Same(sup', "get")
    BY <2>1, <2>3, <1>5
  <2> QED BY <1>7, <1>t, <2>2, <2>3, CheckNow DEF Now
<1>8. CASE GetLine
  <2>1. sup.pc = "get" /\ tree' = tree
    BY <1>8 DEF GetLine, Supervises
  <2>2. /\ sup'.family = sup.family /\ sup'.stopped = sup.stopped
        /\ sup'.pc \in {"check", "write"}
    BY <1>8, <1>t, GetNow, GetBound DEF Same, Now
  <2> QED BY <2>1, <2>2, <1>t, <1>l
<1>9. CASE Signal
  <2>1. sup.family = {}
    BY <1>9, <1>t DEF Signal, Supervises
  <2>2. sup'.family = sup.family
    BY <1>9, <1>t, SignalNow DEF Same, Now
  <2> QED BY <2>1, <2>2, <1>0
<1>10. CASE FindFamily
  <2>1. tree' = tree
    BY <1>10 DEF FindFamily
  <2>2. PICK f \in SUBSET Procs :
          /\ \A p \in f : p \in Live /\ p # "root"
          /\ Now(sup', "grace", sup.why, f, sup.stopped, sup.streams, sup.status)
    BY <1>10, <1>t, FindNow
  <2> QED BY <2>1, <2>2 DEF Live, Now
<1>11. CASE Grace
  <2>1. Same(sup', "settle") /\ tree'["root"] = "dead"
    BY <1>11, <1>t, OthersNow, GraceKills
  <2> QED BY <2>1, <1>l DEF Same, Now
<1>12. CASE Settle
  <2>1. sup.pc = "settle" /\ tree' = tree
    BY <1>12 DEF Settle, Supervises, process
  <2>2. PICK b \in BOOLEAN :
           /\ b => tree["root"] = "dead" /\ sup.family \cap Live = {}
           /\ Now(sup', IF sup.why = "prompt" THEN "reap" ELSE "get",
                  sup.why, sup.family, b, sup.streams, sup.status)
    BY <1>12, <1>t, SettleNow
  <2>3. /\ sup'.family = sup.family /\ sup'.stopped = b /\ sup'.pc \in {"reap", "get"}
    BY <2>2 DEF Now
  <2> QED BY <2>1, <2>2, <2>3, <1>t, <1>l
<1>13. CASE Judge
  <2>0. sup.pc = "judge" /\ sup.why # "prompt" /\ tree' = tree
    BY <1>13, InvParts DEF Judge, Supervises, SupervisionInv, process
  <2>1. /\ sup'.family = sup.family /\ sup'.stopped = sup.stopped /\ sup'.pc \in {"close", "write"}
    BY <1>13, <1>t, <2>0, JudgeNow DEF Now
  <2> QED BY <2>0, <2>1, <1>t, <1>l
<1> QED BY <1>2, <1>3, <1>4, <1>6, <1>7, <1>8, <1>9, <1>10, <1>11, <1>12, <1>13, StepShapes
        DEF Supervise

LEMMA FamilyInvStep ==
  ASSUME IInv, Next
  PROVE  FamilyInv'
<1>t. ProcessTyped /\ SupTyped /\ FamilyInv /\ StartInv /\ SupervisionInv
  BY InvParts
<1>1. Family' /\ (Family => \A p \in sup.family : tree[p] # "none")
  BY FamilyStep DEF Family
<1>2. ASSUME NEW c \in Clients, client'[c].confirmed
      PROVE  /\ worker' = "live" /\ result' # None /\ tree'["root"] = "dead"
             /\ sup'.family \cap Live' = {} /\ closed' /\ IsTerminal(file')
  <2>1. /\ ~WorkerEnds /\ worker = "live" /\ result # None /\ tree["root"] = "dead"
        /\ sup.stopped \/ sup.family \cap Live = {}
    BY <1>2, <1>t, ConfirmedStep DEF FamilyInv, CancelConfirmed
  <2>2. UNCHANGED <<worker, sup, file, closed, result>>
    BY <2>1, PublishedStays
  <2>3. tree'["root"] = "dead"
    BY <2>1, TreeStep DEF Procs
  <2>4. sup.family \cap Live = {}
    BY <2>1, <1>t DEF FamilyInv, SupervisionInv
  <2>5. sup.family \cap Live' = {}
    <3>1. sup.family \in SUBSET Procs
      BY <1>t, SupNow DEF SupTyped
    <3> QED BY <3>1, <2>4, <1>t, LiveStep DEF FamilyInv
  <2>6. closed /\ IsTerminal(file)
    <3>1. result \in Statuses /\ closed /\ Last(file) = TerminalKind(result) /\ file # <<>>
      BY <2>1, <1>t DEF SupervisionInv, TerminalEventMatches, SupTyped
    <3> QED BY <3>1, KindIs DEF IsTerminal
  <2> QED BY <2>1, <2>2, <2>3, <2>5, <2>6
<1>3. CancelConfirmed'
  BY <1>2 DEF CancelConfirmed
<1>4. (\A c \in Clients : client[c].confirmed =>
         worker = "live" /\ result # None /\ tree["root"] = "dead")'
  BY <1>2
<1> QED BY <1>1, <1>3, <1>4 DEF FamilyInv, Family

-----------------------------------------------------------------------------
(* The queue.                                                              *)

EndsLast(queue, n) ==
  /\ 0 <= n /\ n <= Len(queue)
  /\ \A i \in 1..Len(queue) : queue[i] = "end" <=> i > Len(queue) - n

Queued == worker = "live" => EndsLast(lines, ended - sup.streams)

LEMMA QueueParts ==
  ASSUME ProcessTyped, SupTyped
  PROVE  QueueInv <=> (ended > 0 => tree["root"] = "dead" /\ Holders = {}) /\ Queued
<1>1. sup.streams \in 0..2 /\ ended \in 0..2
  BY SupNow DEF ProcessTyped, SupTyped
<1>2. 0 <= ended - sup.streams <=> sup.streams <= ended
  BY <1>1
<1> QED BY <1>2 DEF QueueInv, Queued, EndsLast

LEMMA HoldersStep ==
  ASSUME IInv, Next, tree["root"] = "dead"
  PROVE  Holders' \subseteq Holders
<1>t. ProcessTyped
  BY InvParts
<1>1. traits' = traits
  <2>1. ~SpawnChild
    BY DEF SpawnChild
  <2>2. CASE WriteLine \/ ReaderThreadEnds \/ DeadlinePasses \/ WorkerEnds \/ Start
    BY <2>2 DEF WriteLine, ReaderThreadEnds, DeadlinePasses, WorkerEnds, Start, Diagnose, Spawn,
       DeliverPrompt, HandOver, process
  <2>3. CASE Callers \/ Reconcilers \/ (\E r \in Others : ReaderDies(r)) \/ \E p \in Procs : Exits(p)
    BY <2>3 DEF Callers, Call, Cancel, Confirm, Join, Conclude, CallerStep, Reconcilers, Reconcile,
       ReadRow, RecoverRun, Watch, AppendEvents, LastEvent, SaveRow, ReconcilerStep, ReaderDies,
       Exits, process
  <2>4. CASE Supervise
    BY <2>4 DEF Supervise, Flush, Check, GetLine, Signal, FindFamily, Grace, Settle, Judge,
       CloseFile, PublishResult, Reap, process
  <2> QED BY <2>1, <2>2, <2>3, <2>4 DEF Next, Environment, Callers, Reconcilers
<1>2. ASSUME NEW p \in Live' PROVE p \in Live
  <2>1. p \in Procs /\ tree'[p] = "live"
    BY <1>2 DEF Live
  <2>2. tree[p] # "dead"
    BY <2>1, TreeStep
  <2>3. tree[p] # "none"
    <3>1. CASE SpawnChild \/ Spawn
      <4>1. ~Spawn /\ ~SpawnChild
        BY InvParts DEF SpawnChild, Spawn, StartInv
      <4> QED BY <3>1, <4>1
    <3>2. CASE Grace
      BY <3>2, <2>1, <1>t, GraceKills
    <3>3. CASE Still \/ (\E o \in Procs : Exits(o)) \/ WorkerEnds \/ Diagnose \/ DeliverPrompt \/ Reap
      BY <3>3, <2>1, <1>t DEF Still, Exits, WorkerEnds, Diagnose, DeliverPrompt, Reap, process,
         ProcessTyped
    <3>4. CASE Supervise /\ ~Reap /\ ~Grace
      BY <3>4, <2>1 DEF Supervise, Flush, Check, GetLine, Signal, FindFamily, Settle, Judge,
         CloseFile, PublishResult, process
    <3> QED BY <3>1, <3>2, <3>3, <3>4, StepShapes
  <2> QED BY <2>1, <2>2, <2>3, <1>t DEF Live, ProcessTyped
<1> QED BY <1>1, <1>2 DEF Holders

LEMMA QueueStep ==
  ASSUME IInv, Next
  PROVE  QueueInv'
<1>t. ProcessTyped /\ SupTyped /\ QueueInv /\ Queued
  BY InvParts, QueueParts
<1>p. (ProcessTyped /\ SupTyped)'
  BY ProcessTypedStep, SupTypedStep
<1>n. /\ sup.streams \in 0..2 /\ ended \in 0..2 /\ sup'.streams \in 0..2 /\ ended' \in 0..2
      /\ Len(lines) \in Nat
  <2>1. sup'.streams \in 0..2
    BY <1>p DEF SupTyped, Supervisors
  <2> QED BY <2>1, <1>t, <1>p, SupNow, LenProperties DEF ProcessTyped, SupTyped
<1>1. (ended > 0 => tree["root"] = "dead" /\ Holders = {})'
  <2>1. CASE ReaderThreadEnds
    BY <2>1 DEF ReaderThreadEnds, Holders, Live, supervision
  <2>2. CASE ended' = ended
    <3>1. CASE ended > 0
      BY <2>2, <3>1, <1>t, HoldersStep, TreeStep DEF QueueInv, Procs
    <3> QED BY <2>2, <3>1, <1>n
  <2>3. ReaderThreadEnds \/ ended' = ended
    <3>1. CASE WriteLine \/ SpawnChild \/ DeadlinePasses \/ WorkerEnds \/ Start
      BY <3>1 DEF WriteLine, SpawnChild, DeadlinePasses, WorkerEnds, Start, Diagnose, Spawn,
         DeliverPrompt, HandOver, process
    <3>2. CASE Callers \/ Reconcilers \/ (\E r \in Others : ReaderDies(r)) \/ \E p \in Procs : Exits(p)
      BY <3>2 DEF Callers, Call, Cancel, Confirm, Join, Conclude, CallerStep, Reconcilers,
         Reconcile, ReadRow, RecoverRun, Watch, AppendEvents, LastEvent, SaveRow, ReconcilerStep,
         ReaderDies, Exits, process
    <3>3. CASE Supervise
      BY <3>3 DEF Supervise, Flush, Check, GetLine, Signal, FindFamily, Grace, Settle, Judge,
         CloseFile, PublishResult, Reap, process
    <3> QED BY <3>1, <3>2, <3>3 DEF Next, Environment, Callers, Reconcilers
  <2> QED BY <2>1, <2>2, <2>3
<1>2. Queued'
  <2> SUFFICES ASSUME worker' = "live" PROVE EndsLast(lines', ended' - sup'.streams)
    BY DEF Queued
  <2>0. worker = "live" => EndsLast(lines, ended - sup.streams)
    BY <1>t DEF Queued
  <2>s. CASE UNCHANGED <<worker, lines, ended>> /\ sup'.streams = sup.streams
    BY <2>s, <2>0
  <2>1. CASE WriteLine
    <3>1. PICK line \in Lines : lines' = Append(lines, line)
      BY <2>1 DEF WriteLine
    <3>2. line # "end"
      BY LinesAssumption DEF LineKinds
    <3>3. ended = 0 /\ sup.streams = 0 /\ ended' = ended /\ sup' = sup /\ worker = "live"
      BY <2>1, <1>t, <1>n DEF WriteLine, QueueInv, supervision
    <3>4. /\ Len(lines') = Len(lines) + 1 /\ lines'[Len(lines) + 1] = line
          /\ \A i \in 1..Len(lines) : lines'[i] = lines[i]
      BY <1>t, <3>1, AppendFacts DEF ProcessTyped
    <3> QED BY <2>0, <3>2, <3>3, <3>4, <1>n DEF EndsLast
  <2>2. CASE ReaderThreadEnds
    <3>1. lines' = Append(lines, "end") /\ ended' = ended + 1 /\ sup' = sup /\ worker = "live"
      BY <2>2 DEF ReaderThreadEnds, supervision
    <3>2. /\ Len(lines') = Len(lines) + 1 /\ lines'[Len(lines) + 1] = "end"
          /\ \A i \in 1..Len(lines) : lines'[i] = lines[i]
      BY <1>t, <3>1, AppendFacts DEF ProcessTyped
    <3> QED BY <2>0, <3>1, <3>2, <1>n DEF EndsLast
  <2>3. CASE GetLine
    <3>0. worker = "live" /\ ended' = ended
      BY <2>3 DEF GetLine, Supervises
    <3>1. CASE lines' = lines /\ sup'.streams = sup.streams
      BY <2>0, <3>0, <3>1
    <3> DEFINE n == ended - sup.streams
    <3>2. ASSUME lines # <<>>, lines' = Tail(lines)
          PROVE  /\ Len(lines) \in Nat \ {0} /\ Len(lines') = Len(lines) - 1
                 /\ \A i \in 1..Len(lines') : lines'[i] = lines[i + 1]
                 /\ Head(lines) = "end" <=> n = Len(lines)
      <4>1. /\ Len(lines) \in Nat \ {0} /\ Len(lines') = Len(lines) - 1
            /\ (\A i \in 1..Len(lines') : lines'[i] = lines[i + 1]) /\ Head(lines) = lines[1]
        BY <3>2, <1>t, TailFacts DEF ProcessTyped
      <4> HIDE DEF n
      <4>2. n <= Len(lines) /\ (lines[1] = "end" <=> 1 > Len(lines) - n) /\ n \in Int
        BY <2>0, <3>0, <4>1, <1>n DEF EndsLast, n
      <4> QED BY <4>1, <4>2
    <3>3. CASE /\ lines # <<>> /\ lines' = Tail(lines) /\ Head(lines) = "end"
               /\ sup'.streams = sup.streams + 1
      BY <2>0, <3>0, <3>2, <3>3, <1>n DEF EndsLast
    <3>4. CASE /\ lines # <<>> /\ lines' = Tail(lines) /\ Head(lines) # "end"
               /\ sup'.streams = sup.streams
      BY <2>0, <3>0, <3>2, <3>4, <1>n DEF EndsLast
    <3> QED BY <2>3, <1>t, <3>1, <3>3, <3>4, GetNow, GetBound DEF Same, Now
  <2>4. CASE WorkerEnds
    BY <2>4 DEF WorkerEnds
  <2>5. CASE UNCHANGED <<worker, lines, ended, sup>>
    BY <2>5, <2>s
  <2>6. CASE Callers \/ Reconcilers \/ (\E r \in Others : ReaderDies(r)) \/ \E p \in Procs : Exits(p)
    BY <2>6, <2>5 DEF Callers, Call, Cancel, Confirm, Join, Conclude, CallerStep, Reconcilers,
       Reconcile, ReadRow, RecoverRun, Watch, AppendEvents, LastEvent, SaveRow, ReconcilerStep,
       ReaderDies, Exits, process, supervision
  <2>7. CASE SpawnChild \/ DeadlinePasses \/ Diagnose \/ Spawn \/ HandOver
    BY <2>7, <2>5 DEF SpawnChild, DeadlinePasses, Diagnose, Spawn, HandOver, process, supervision
  <2>8. CASE DeliverPrompt
    <3>1. sup'.streams = sup.streams
      BY <2>8, <1>t, DeliverNow DEF Same, Now
    <3> QED BY <3>1, <2>8, <2>s DEF DeliverPrompt, process
  <2>9. CASE Flush \/ Check \/ CloseFile \/ PublishResult \/ Reap
    <3>1. sup'.streams = sup.streams
      BY <2>9, <1>t, FlushNow, CheckNow, OthersNow DEF Same, Now
    <3> QED BY <3>1, <2>9, <2>s
            DEF Flush, Check, CloseFile, PublishResult, Reap, Supervised, process
  <2>10. CASE Signal \/ FindFamily \/ Grace \/ Settle
    <3>1. sup'.streams = sup.streams
      BY <2>10, <1>t, SignalNow, FindNow, OthersNow, SettleNow DEF Same, Now
    <3> QED BY <3>1, <2>10, <2>s DEF Signal, FindFamily, Grace, Settle, Supervised, process
  <2>11. CASE Judge
    <3>0. sup.why # "prompt"
      BY <2>11, InvParts DEF Judge, Supervises, SupervisionInv
    <3>1. sup'.streams = sup.streams
      BY <2>11, <1>t, <3>0, JudgeNow DEF Now
    <3> QED BY <3>1, <2>11, <2>s DEF Judge, Supervised, process
  <2> QED BY <2>1, <2>2, <2>3, <2>4, <2>6, <2>7, <2>8, <2>9, <2>10, <2>11
          DEF Next, Start, Supervise, Environment, Callers, Reconcilers
<1>3. (ProcessTyped /\ SupTyped =>
         (QueueInv <=> (ended > 0 => tree["root"] = "dead" /\ Holders = {}) /\ Queued))'
  BY QueueParts, PTL
<1> QED BY <1>1, <1>2, <1>3, <1>p

-----------------------------------------------------------------------------
(* The file, the table and the rows.                                       *)

Holds(t, n) == \A i \in 1..n : \E k \in 1..Len(t) : t[k] = i
KindOf(f) == IF f = <<>> THEN None ELSE Last(f)

Copied(r, t, f, final) ==
  /\ r.pc = "idle" => r = IdleReader
  /\ r.offset <= Len(f) /\ Holds(t, r.offset)
  /\ r.settled => final
  /\ r.pc \in {"append", "last", "save"} =>
       /\ r.offset <= r.upto /\ r.upto <= Len(f)
       /\ r.settled => r.upto = Len(f)
  /\ r.pc \in {"last", "save"} => Holds(t, r.upto)
  /\ r.pc = "save" /\ r.settled /\ r.gone => r.last = KindOf(f)

Recorded(w, t, f, final) ==
  /\ Holds(t, w.offset)
  /\ w.settled => final
  /\ w.settled /\ w.state \notin {"reserved", "running"} =>
       Holds(t, Len(f)) /\ w.state = TerminalByEvent(KindOf(f))

Unread(w, readers) ==
  w.state = "reserved" => ~w.settled /\ \A r \in Readers : readers[r].pc = "idle"

LEMMA DeliveryParts ==
  DeliveryInv <=> /\ Unread(row, reader) /\ Recorded(row, table, file, Final)
                  /\ NoEventOvertaken
                  /\ \A r \in Readers : Copied(reader[r], table, file, Final)
  BY DEF DeliveryInv, CopyInv, Stored, LastKind, Unread, Recorded, Copied, Holds, KindOf

\* The file is final when a result is out or nobody is left to write.
LEMMA FinalStep ==
  ASSUME IInv, Next, Final
  PROVE  Final' /\ file' = file
<1>t. SupervisionInv /\ SupTyped /\ StartInv
  BY InvParts
<1>1. CASE WorkerEnds
  BY <1>1 DEF WorkerEnds, Final
<1>2. CASE worker = "dead" /\ ~WorkerEnds
  <2>1. ~Supervise /\ ~Diagnose /\ ~Spawn /\ ~DeliverPrompt
    BY <1>2 DEF Supervise, Flush, Check, GetLine, Signal, FindFamily, Grace, Settle, Judge,
       CloseFile, PublishResult, Reap, Supervises, Diagnose, Spawn, DeliverPrompt
  <2>2. UNCHANGED <<worker, file, result>>
    BY <1>2, <2>1, StepShapes DEF Still, SpawnChild, Exits, Reap, Supervise, supervision
  <2> QED BY <2>2 DEF Final
<1>3. CASE worker = "live" /\ result # None /\ ~WorkerEnds
  BY <1>3, PublishedStays DEF Final
<1> QED BY <1>1, <1>2, <1>3, InvParts DEF Final, HostTyped

\* The table only grows.
LEMMA TableStep ==
  ASSUME IInv, Next
  PROVE  /\ Len(table) \in Nat /\ Len(table') \in Nat /\ Len(table) <= Len(table')
         /\ \A k \in 1..Len(table) : table'[k] = table[k]
<1>t. StoreTyped /\ SupTyped /\ DeliveryInv
  BY InvParts
<1>l. Len(table) \in Nat
  BY <1>t, LenProperties DEF StoreTyped
<1>0. CASE table' = table
  BY <1>0, <1>l
<1>1. ASSUME NEW r \in Readers, AppendEvents(r)
      PROVE  /\ Len(table') \in Nat /\ Len(table) <= Len(table')
             /\ \A k \in 1..Len(table) : table'[k] = table[k]
  BY <1>1, <1>t, <1>l, AppendFile DEF DeliveryInv
<1>2. CASE Supervise
  <2>1. Supervised \/ Reap
    BY <1>2 DEF Supervise, Flush, Check, GetLine, Signal, FindFamily, Grace, Settle, Judge,
       CloseFile, PublishResult
  <2> QED BY <2>1, <1>0 DEF Supervised, Reap, store
<1>3. CASE Start \/ Environment \/ Callers
  BY <1>3, <1>0 DEF Start, Diagnose, Spawn, DeliverPrompt, HandOver, Environment, SpawnChild,
     WriteLine, Exits, ReaderThreadEnds, DeadlinePasses, WorkerEnds, ReaderDies, Callers, Call,
     Cancel, Confirm, Join, Conclude, CallerStep, store
<1>4. ASSUME NEW r \in Readers, Reconcile(r), ~AppendEvents(r) PROVE table' = table
  BY <1>4 DEF Reconcile, ReadRow, RecoverRun, Watch, LastEvent, SaveRow, store
<1> QED BY <1>0, <1>1, <1>2, <1>3, <1>4, <1>l DEF Next, Callers

LEMMA HoldsStep ==
  ASSUME IInv, Next, NEW n, Holds(table, n)
  PROVE  Holds(table', n)
<1> SUFFICES ASSUME NEW i \in 1..n PROVE \E k \in 1..Len(table') : table'[k] = i
  BY DEF Holds
<1>1. PICK k \in 1..Len(table) : table[k] = i
  BY DEF Holds
<1>2. k \in 1..Len(table') /\ table'[k] = i
  BY <1>1, TableStep
<1> QED BY <1>2

LEMMA FileStep ==
  ASSUME IInv, Next
  PROVE  Len(file) \in Nat /\ Len(file') \in Nat /\ Len(file) <= Len(file')
<1>1. SupTyped /\ SupTyped'
  BY InvParts, SupTypedStep
<1> QED BY <1>1, FileGrows, LenProperties DEF SupTyped

LEMMA CopiedStep ==
  ASSUME IInv, Next, NEW r \in ReaderRecords, Copied(r, table, file, Final)
  PROVE  Copied(r, table', file', Final')
<1>1. /\ Holds(table', r.offset) /\ r.offset \in Nat /\ r.upto \in Nat
      /\ r.pc \in {"last", "save"} => Holds(table', r.upto)
  BY HoldsStep, ReaderAt DEF Copied
<1>2. CASE Final
  BY <1>1, <1>2, FinalStep DEF Copied
<1>3. CASE ~Final
  BY <1>1, <1>3, FileStep DEF Copied
<1> QED BY <1>2, <1>3

LEMMA RecordedStep ==
  ASSUME IInv, Next, Recorded(row, table, file, Final)
  PROVE  Recorded(row, table', file', Final')
<1>1. Holds(table', row.offset)
  BY HoldsStep DEF Recorded
<1>2. CASE row.settled
  <2>1. Final' /\ file' = file
    BY <1>2, FinalStep DEF Recorded
  <2> QED BY <1>1, <2>1, HoldsStep DEF Recorded
<1>3. CASE ~row.settled
  BY <1>1, <1>3 DEF Recorded
<1> QED BY <1>2, <1>3

\* Of a batch each event follows the one in front of it, in the table or before.
LEMMA OrderStep ==
  ASSUME IInv, Next
  PROVE  NoEventOvertaken'
<1>t. StoreTyped /\ SupTyped /\ NoEventOvertaken /\ \A r \in Readers : CopyInv(reader[r])
  BY InvParts DEF DeliveryInv
<1>l. Len(table) \in Nat
  BY TableStep
<1>1. ASSUME NEW r \in Readers, AppendEvents(r) PROVE NoEventOvertaken'
  <2> DEFINE a == reader[r].offset
             b == reader[r].upto
  <2>1. /\ a \in Nat /\ b \in Nat /\ a <= b
        /\ Len(table') = Len(table) + (b - a)
        /\ \A k \in 1..Len(table) : table'[k] = table[k]
        /\ \A i \in 1..b - a : table'[Len(table) + i] = a + i
    BY <1>1, <1>t, AppendFile
  <2>2. \A i \in 1..a : \E k \in 1..Len(table) : table[k] = i
    BY <1>t DEF CopyInv, Stored
  <2> HIDE DEF a, b
  <2> SUFFICES ASSUME NEW k \in 1..Len(table'), NEW n \in 1..table'[k] - 1
               PROVE  \E j \in 1..k - 1 : table'[j] = n
    BY DEF NoEventOvertaken
  <2>3. CASE k \in 1..Len(table)
    <3>1. table'[k] = table[k]
      BY <2>1, <2>3
    <3>2. PICK j \in 1..k - 1 : table[j] = n
      BY <2>3, <3>1, <1>t DEF NoEventOvertaken
    <3>3. j \in 1..Len(table)
      BY <2>3, <1>l
    <3> QED BY <3>2, <3>3, <2>1
  <2>4. CASE k \notin 1..Len(table)
    <3> DEFINE i == k - Len(table)
    <3>1. i \in 1..b - a /\ k = Len(table) + i
      BY <2>4, <2>1, <1>l
    <3>2. table'[k] = a + i
      BY <3>1, <2>1
    <3>3. n \in Nat /\ 1 <= n /\ n <= a + i - 1
      BY <3>1, <3>2, <2>1
    <3>4. CASE n <= a
      <4>1. PICK j \in 1..Len(table) : table[j] = n
        BY <2>1, <2>2, <3>3, <3>4
      <4>2. j \in 1..k - 1
        BY <3>1, <1>l, <2>1
      <4> QED BY <4>1, <4>2, <2>1
    <3>5. CASE n > a
      <4> DEFINE m == n - a
                 j == Len(table) + m
      <4>1. m \in 1..b - a /\ m < i /\ a + m = n
        BY <3>1, <3>3, <3>5, <2>1
      <4>2. table'[j] = n
        BY <4>1, <2>1
      <4>3. j \in 1..k - 1
        BY <4>1, <3>1, <1>l, <2>1
      <4> QED BY <4>2, <4>3
    <3> QED BY <3>3, <3>4, <3>5, <2>1
  <2> QED BY <2>3, <2>4
<1>2. CASE table' = table
  BY <1>2, <1>t DEF NoEventOvertaken
<1>3. CASE Supervise
  <2>1. Supervised \/ Reap
    BY <1>3 DEF Supervise, Flush, Check, GetLine, Signal, FindFamily, Grace, Settle, Judge,
       CloseFile, PublishResult
  <2> QED BY <2>1, <1>2 DEF Supervised, Reap, store
<1>4. CASE Start \/ Environment \/ Callers
  BY <1>4, <1>2 DEF Start, Diagnose, Spawn, DeliverPrompt, HandOver, Environment, SpawnChild,
     WriteLine, Exits, ReaderThreadEnds, DeadlinePasses, WorkerEnds, ReaderDies, Callers, Call,
     Cancel, Confirm, Join, Conclude, CallerStep, store
<1>5. ASSUME NEW r \in Readers, Reconcile(r), ~AppendEvents(r) PROVE NoEventOvertaken'
  BY <1>5, <1>2 DEF Reconcile, ReadRow, RecoverRun, Watch, LastEvent, SaveRow, store
<1> QED BY <1>1, <1>3, <1>4, <1>5 DEF Next, Callers

\* What a reconciler that moved holds is again a stretch of the file.
LEMMA ReaderMoves ==
  ASSUME IInv, Next, NEW r \in Readers, Reconcile(r)
  PROVE  \E q \in ReaderRecords :
           /\ Becomes(r, q) /\ Copied(q, table', file', Final')
           /\ SaveRow(r) => q = IdleReader
<1>t. StoreTyped /\ SupTyped /\ Recorded(row, table, file, Final)
      /\ Copied(reader[r], table, file, Final) /\ reader[r] \in ReaderRecords
  BY InvParts, DeliveryParts DEF StoreTyped
<1>l. Len(file) \in Nat
  BY FileStep
<1>n. /\ reader[r].offset \in Nat /\ reader[r].upto \in Nat
      /\ row.offset \in Nat /\ row.offset <= Len(file)
  BY <1>t, ReaderAt DEF StoreTyped
<1>s. file' = file /\ Final' = Final
  BY DEF Reconcile, ReadRow, RecoverRun, Watch, AppendEvents, LastEvent, SaveRow, ReconcilerStep,
     supervision, Final
<1>h. ASSUME NEW n, Holds(table, n) PROVE Holds(table', n)
  BY <1>h, HoldsStep
<1>1. CASE ReadRow(r)
  <2>1. PICK q : Becomes(r, q) /\ At(q, "observe", row.offset, FALSE, FALSE, 0, None)
    BY <1>1, <1>t, ReadRowAt
  <2>2. Copied(q, table', file', Final')
    BY <2>1, <1>t, <1>n, <1>s, <1>h DEF At, Copied, Recorded
  <2> QED BY <2>1, <2>2, <1>1 DEF At, ReadRow, SaveRow
<1>2. CASE RecoverRun(r)
  <2>1. PICK q, g, s : /\ Becomes(r, q)
                       /\ At(q, "watch", reader[r].offset, g, s, reader[r].upto, reader[r].last)
                       /\ s <=> Final
    BY <1>2, <1>t, RecoverAt
  <2>2. Copied(q, table', file', Final')
    BY <2>1, <1>t, <1>s, <1>h DEF At, Copied
  <2> QED BY <2>1, <2>2, <1>2 DEF At, RecoverRun, SaveRow
<1>3. CASE Watch(r)
  <2>1. PICK q : /\ Becomes(r, q)
                 /\ At(q, "append", reader[r].offset, reader[r].gone, reader[r].settled,
                       Len(file), reader[r].last)
    BY <1>3, <1>t, WatchAt
  <2>2. Copied(q, table', file', Final')
    BY <2>1, <1>t, <1>l, <1>s, <1>h DEF At, Copied
  <2> QED BY <2>1, <2>2, <1>3 DEF At, Watch, SaveRow
<1>4. CASE AppendEvents(r)
  <2> DEFINE a == reader[r].offset
             b == reader[r].upto
             p == IF reader[r].gone THEN "last" ELSE "save"
  <2>1. PICK q : /\ Becomes(r, q)
                 /\ At(q, p, a, reader[r].gone, reader[r].settled, b, reader[r].last)
    BY <1>4, <1>t, AppendAt
  <2>2. CopyInv(reader[r])
    BY InvParts DEF DeliveryInv
  <2>3. /\ Len(table) \in Nat /\ Len(table') = Len(table) + (b - a)
        /\ a \in Nat /\ b \in Nat /\ a <= b
        /\ \A i \in 1..b - a : table'[Len(table) + i] = a + i
    BY <1>4, <1>t, <2>2, AppendFile
  <2>4. Holds(table', a)
    BY <1>t, <1>h DEF Copied
  <2>5. Holds(table', b)
    <3> HIDE DEF a, b
    <3> SUFFICES ASSUME NEW i \in 1..b PROVE \E k \in 1..Len(table') : table'[k] = i
      BY DEF Holds
    <3>1. CASE i <= a
      BY <3>1, <2>3, <2>4 DEF Holds
    <3>2. CASE i > a
      <4> DEFINE m == i - a
      <4>1. m \in 1..b - a /\ a + m = i /\ Len(table) + m \in 1..Len(table')
        BY <3>2, <2>3
      <4>2. table'[Len(table) + m] = i
        BY <4>1, <2>3
      <4> QED BY <4>1, <4>2
    <3> QED BY <3>1, <3>2, <2>3
  <2>6. reader[r].pc = "append" /\ p \in {"last", "save"} /\ (p = "save" => ~reader[r].gone)
    BY <1>4 DEF AppendEvents
  <2>7. Copied(q, table', file', Final')
    <3> HIDE DEF a, b, p
    <3> QED BY <2>1, <2>4, <2>5, <2>6, <1>t, <1>s DEF At, Copied, a, b
  <2> QED BY <2>1, <2>6, <2>7 DEF At, SaveRow
<1>5. CASE LastEvent(r)
  <2>1. PICK q : /\ Becomes(r, q)
                 /\ At(q, "save", reader[r].offset, reader[r].gone, reader[r].settled,
                       reader[r].upto, LastKind)
    BY <1>5, <1>t, LastAt
  <2>2. reader[r].pc = "last"
    BY <1>5 DEF LastEvent
  <2>3. Copied(q, table', file', Final')
    BY <2>1, <2>2, <1>t, <1>s, <1>h DEF At, Copied, LastKind, KindOf
  <2> QED BY <2>1, <2>2, <2>3 DEF At, SaveRow
<1>6. CASE SaveRow(r)
  <2>1. Holds(table', 0)
    BY DEF Holds
  <2>2. Copied(IdleReader, table', file', Final')
    BY <2>1, <1>l, <1>s, IdleAt DEF At, Copied
  <2> QED BY <2>2, <1>6, IdleAt DEF At, SaveRow
<1> QED BY <1>1, <1>2, <1>3, <1>4, <1>5, <1>6 DEF Reconcile

\* The steps that touch no row and no reader but to end one.
LEMMA LeavesStore ==
  ASSUME Next
  PROVE  \/ UNCHANGED <<row, reader>>
         \/ HandOver
         \/ \E r \in Readers : Becomes(r, IdleReader) /\ row' = row
         \/ Reconcilers
<1>1. CASE Supervise
  <2>1. Supervised \/ Reap
    BY <1>1 DEF Supervise, Flush, Check, GetLine, Signal, FindFamily, Grace, Settle, Judge,
       CloseFile, PublishResult
  <2> QED BY <2>1 DEF Supervised, Reap, store
<1>2. CASE Diagnose \/ Spawn \/ DeliverPrompt \/ Callers
  BY <1>2 DEF Diagnose, Spawn, DeliverPrompt, Callers, Call, Cancel, Confirm, Join, Conclude,
     CallerStep, store
<1>3. CASE SpawnChild \/ WriteLine \/ (\E p \in Procs : Exits(p)) \/ ReaderThreadEnds
           \/ DeadlinePasses
  BY <1>3 DEF SpawnChild, WriteLine, Exits, ReaderThreadEnds, DeadlinePasses, store
<1>4. CASE WorkerEnds \/ \E r \in Others : ReaderDies(r)
  BY <1>4 DEF WorkerEnds, ReaderDies, store, Readers
<1> QED BY <1>1, <1>2, <1>3, <1>4 DEF Next, Start, Environment, Callers, Reconcilers

LEMMA IdleCopied ==
  ASSUME IInv, Next
  PROVE  Copied(IdleReader, table', file', Final')
<1>1. Holds(table', 0)
  BY DEF Holds
<1> QED BY <1>1, FileStep, IdleAt DEF At, Copied

LEMMA CopiesStep ==
  ASSUME IInv, Next, NEW o \in Readers
  PROVE  Copied(reader'[o], table', file', Final')
<1>t. StoreTyped /\ Copied(reader[o], table, file, Final) /\ reader[o] \in ReaderRecords
  BY InvParts, DeliveryParts DEF StoreTyped
<1>k. Copied(reader[o], table', file', Final')
  BY <1>t, CopiedStep
<1>1. ASSUME NEW r \in Readers, NEW q \in ReaderRecords, Becomes(r, q),
             Copied(q, table', file', Final')
      PROVE  Copied(reader'[o], table', file', Final')
  <2>1. reader'[o] = q \/ reader'[o] = reader[o]
    BY <1>1, <1>t, BecomesIs
  <2> QED BY <2>1, <1>1, <1>k
<1>2. CASE UNCHANGED reader
  BY <1>2, <1>k
<1>3. CASE Reconcilers
  BY <1>3, <1>1, ReaderMoves DEF Reconcilers
<1>4. CASE \E r \in Readers : Becomes(r, IdleReader)
  BY <1>4, <1>1, IdleAt, IdleCopied DEF At
<1>5. HandOver => UNCHANGED reader
  BY DEF HandOver
<1> QED BY <1>2, <1>3, <1>4, <1>5, LeavesStore

LEMMA RowStep ==
  ASSUME IInv, Next
  PROVE  Recorded(row', table', file', Final') /\ Unread(row', reader')
<1>t. /\ StoreTyped /\ SupTyped /\ Unread(row, reader) /\ Recorded(row, table, file, Final)
      /\ \A r \in Readers : Copied(reader[r], table, file, Final)
  BY InvParts, DeliveryParts
<1>k. Recorded(row, table', file', Final')
  BY <1>t, RecordedStep
<1>1. CASE UNCHANGED <<row, reader>>
  BY <1>1, <1>k, <1>t DEF Unread
<1>2. CASE HandOver
  <2>1. /\ row' = [row EXCEPT !.state = "running"] \/ row' = [row EXCEPT !.state = "failed"]
        /\ row.state = "reserved" /\ UNCHANGED reader
    BY <1>2 DEF HandOver
  <2>2. row'.state # "reserved" /\ row'.offset = row.offset /\ row'.settled = row.settled
        /\ ~row.settled
    BY <2>1, <1>t DEF StoreTyped, Unread
  <2> QED BY <2>2, <1>k DEF Recorded, Unread
<1>3. ASSUME NEW r \in Readers, Becomes(r, IdleReader), row' = row
      PROVE  Recorded(row', table', file', Final') /\ Unread(row', reader')
  <2>1. \A o \in Readers : reader'[o] = reader[o] \/ reader'[o] = IdleReader
    BY <1>3, <1>t, BecomesIs, IdleAt DEF At
  <2> QED BY <2>1, <1>3, <1>k, <1>t, IdleAt DEF Unread, At
<1>4. ASSUME NEW r \in Readers, Reconcile(r), ~SaveRow(r)
      PROVE  Recorded(row', table', file', Final') /\ Unread(row', reader')
  <2>1. row' = row /\ (reader[r].pc # "idle" \/ row.state = "running")
    BY <1>4 DEF Reconcile, ReadRow, RecoverRun, Watch, AppendEvents, LastEvent, store
  <2>2. row.state # "reserved"
    BY <2>1, <1>t DEF Unread
  <2> QED BY <2>1, <2>2, <1>k DEF Unread
<1>5. ASSUME NEW r \in Readers, SaveRow(r)
      PROVE  Recorded(row', table', file', Final') /\ Unread(row', reader')
  <2> DEFINE c == reader[r]
             s == IF c.gone THEN TerminalByEvent(c.last) ELSE "running"
  <2>1. /\ row' = [state |-> s, offset |-> c.upto, settled |-> c.settled] /\ c.pc = "save"
        /\ table' = table
    BY <1>5 DEF SaveRow
  <2>2. file' = file /\ Final' = Final
    BY <1>5 DEF SaveRow, ReconcilerStep, supervision, Final
  <2>3. s # "reserved" /\ (s # "running" => c.gone /\ s = TerminalByEvent(c.last))
    BY DEF TerminalByEvent
  <2>4. Copied(c, table, file, Final)
    BY <1>t
  <2> HIDE DEF c, s
  <2>5. row'.state = s /\ row'.offset = c.upto /\ row'.settled = c.settled
    BY <2>1
  <2>6. Holds(table, c.upto) /\ (c.settled => Final /\ c.upto = Len(file))
        /\ (c.settled /\ c.gone => c.last = KindOf(file))
    BY <2>1, <2>4 DEF Copied
  <2> QED BY <2>1, <2>2, <2>3, <2>5, <2>6 DEF Recorded, Unread
<1> QED BY <1>1, <1>2, <1>3, <1>4, <1>5, LeavesStore DEF Reconcilers

LEMMA DeliveryStep ==
  ASSUME IInv, Next
  PROVE  DeliveryInv'
<1>1. (DeliveryInv <=> /\ Unread(row, reader) /\ Recorded(row, table, file, Final)
                       /\ NoEventOvertaken
                       /\ \A r \in Readers : Copied(reader[r], table, file, Final))'
  BY DeliveryParts, PTL
<1>2. (\A r \in Readers : Copied(reader[r], table, file, Final))'
  BY CopiesStep
<1>3. (Unread(row, reader) /\ Recorded(row, table, file, Final))'
  BY RowStep
<1> QED BY <1>1, <1>2, <1>3, OrderStep

-----------------------------------------------------------------------------
(* The invariant and the theorems.                                         *)

LEMMA InvInit == Init => IInv
<1> SUFFICES ASSUME Init PROVE IInv
  OBVIOUS
<1>0. TypeOK
  BY TypeInit
<1>s. NoSupervisor.pc = "none" /\ NoSupervisor.why = None /\ NoSupervisor.family = {}
      /\ NoSupervisor.status = None /\ NoSupervisor.streams = 0
  BY DEF NoSupervisor
<1>1. StartInv
  BY <1>s, NoneKind DEF Init, StartInv, Procs
<1>2. SupervisionInv
  BY <1>s, NoneKind DEF Init, SupervisionInv, TerminalEventMatches
<1>3. FamilyInv
  BY <1>s DEF Init, FamilyInv, CancelConfirmed, IdleClient
<1>4. QueueInv
  BY <1>s, EmptySeq DEF Init, QueueInv
<1>5. DeliveryInv
  <2>1. Len(file) = 0 /\ Len(table) = 0
    BY EmptySeq DEF Init
  <2>2. Holds(table, 0) /\ NoEventOvertaken
    BY <2>1 DEF Holds, NoEventOvertaken
  <2>3. Copied(IdleReader, table, file, Final)
    BY <2>1, <2>2, IdleAt DEF At, Copied
  <2>4. \A r \in Readers : reader[r] = IdleReader
    BY DEF Init
  <2>5. Unread(row, reader) /\ Recorded(row, table, file, Final)
    BY <2>2, <2>4, IdleAt DEF Init, At, Unread, Recorded
  <2> QED BY <2>2, <2>3, <2>4, <2>5, DeliveryParts
<1> QED BY <1>0, <1>1, <1>2, <1>3, <1>4, <1>5 DEF IInv

LEMMA InvStep == IInv /\ [Next]_vars => IInv'
<1>1. ASSUME IInv, Next PROVE IInv'
  BY <1>1, TypeStep, StartStep, SupervisionStep, FamilyInvStep, QueueStep, DeliveryStep DEF IInv
<1>2. ASSUME IInv, UNCHANGED vars PROVE IInv'
  <2>1. UNCHANGED process /\ UNCHANGED supervision /\ UNCHANGED store
        /\ UNCHANGED <<env, worker, started, cancelled, expired, registered, client, reader>>
    BY <1>2 DEF vars
  <2>2. TypeOK'
    BY <1>2, <2>1 DEF IInv, TypeOK, process, supervision, store
  <2>3. StartInv' /\ SupervisionInv'
    BY <1>2, <2>1 DEF IInv, StartInv, SupervisionInv, TerminalEventMatches, process, supervision
  <2>4. FamilyInv' /\ QueueInv'
    BY <1>2, <2>1 DEF IInv, FamilyInv, CancelConfirmed, QueueInv, Live, Holders, process, supervision
  <2>5. DeliveryInv'
    BY <1>2, <2>1 DEF IInv, DeliveryInv, NoEventOvertaken, CopyInv, Stored, LastKind, Final,
       supervision, store
  <2> QED BY <2>2, <2>3, <2>4, <2>5 DEF IInv
<1> QED BY <1>1, <1>2

\* The inductive invariant holds in every behaviour of a provider run.
THEOREM InvCorrect == Spec => []IInv
  BY InvInit, InvStep, PTL DEF Spec

\* Every variable stays in its range: no step of start, supervision, callers or
\* reconcilers meets a value it has no meaning for.
THEOREM TypeCorrect == Spec => []TypeOK
<1>1. IInv => TypeOK
  BY DEF IInv
<1> QED BY <1>1, InvCorrect, PTL

\* A published result stands behind a closed file that ends with its event,
\* whichever way _supervise came to its verdict.
THEOREM TerminalCorrect == Spec => []TerminalEventMatches
<1>1. IInv => TerminalEventMatches
  BY DEF IInv, SupervisionInv
<1> QED BY <1>1, InvCorrect, PTL

\* "a caller never reports a cancellation the operating system did not finish":
\* behind every confirmed cancel the terminated processes are dead and the file
\* is closed with a terminal event.
THEOREM CancelCorrect == Spec => []CancelConfirmed
<1>1. IInv => CancelConfirmed
  BY DEF IInv, FamilyInv
<1> QED BY <1>1, InvCorrect, PTL

\* A start that failed leaves no provider alive, at whatever step it failed.
THEOREM FailedStartCorrect == Spec => []FailedStartLeavesNoProvider
<1>1. IInv => FailedStartLeavesNoProvider
  BY DEF IInv, StartInv, FailedStartLeavesNoProvider
<1> QED BY <1>1, InvCorrect, PTL

\* A judgement that began on a final file stores the whole file and records what
\* its last event says, however many reconcilers were at it.
THEOREM LateCorrect == Spec => []LateJudgementIsExact
<1>1. IInv => LateJudgementIsExact
  <2> SUFFICES ASSUME IInv, row.settled, row.state \notin {"reserved", "running"}
               PROVE  /\ ToSet(table) = 1..Len(file)
                      /\ row.state = TerminalByEvent(IF file = <<>> THEN None ELSE Last(file))
    BY DEF LateJudgementIsExact
  <2>1. Stored(Len(file)) /\ row.state = TerminalByEvent(LastKind) /\ StoreTyped
    BY InvParts DEF DeliveryInv
  <2>2. DOMAIN table = 1..Len(table) /\ \A k \in 1..Len(table) : table[k] \in 1..Len(file)
    BY <2>1, LenProperties, ElementOfSeq DEF StoreTyped
  <2>3. ToSet(table) = 1..Len(file)
    BY <2>1, <2>2 DEF ToSet, Stored
  <2> QED BY <2>1, <2>3 DEF LastKind
<1> QED BY <1>1, InvCorrect, PTL

\* Overlapping reconcilers, stale rows written back and deaths between append and
\* save store an event twice at worst: none is overtaken by a later one.
THEOREM OrderCorrect == Spec => []NoEventOvertaken
<1>1. IInv => NoEventOvertaken
  BY DEF IInv, DeliveryInv
<1> QED BY <1>1, InvCorrect, PTL

-----------------------------------------------------------------------------
(* What the readers of the table have seen.                                *)

LEMMA LeastOf ==
  ASSUME NEW T, T \subseteq Nat, T # {}
  PROVE  \E x \in T : \A y \in T : x <= y
<1>1. PICK x \in T : \A y \in T : <<y, x>> \notin OpToRel(<, Nat)
  BY NatLessThanWellFounded, WFMin
<1>2. ASSUME NEW y \in T PROVE x <= y
  <2>1. <<y, x>> \notin {ss \in Nat \X Nat : ss[1] < ss[2]}
    BY <1>1 DEF OpToRel
  <2> QED BY <2>1
<1> QED BY <1>2

LEMMA GreatestOf ==
  ASSUME NEW n \in Nat, NEW T, T \subseteq 1..n, T # {}
  PROVE  \E x \in T : \A y \in T : y <= x
<1> DEFINE U == {n - x : x \in T}
<1>1. U \subseteq Nat /\ U # {}
  OBVIOUS
<1>2. PICK u \in U : \A v \in U : u <= v
  BY <1>1, LeastOf
<1>3. PICK x \in T : u = n - x
  OBVIOUS
<1>4. ASSUME NEW y \in T PROVE y <= x
  <2>1. n - x <= n - y
    BY <1>2, <1>3
  <2> QED BY <2>1
<1> QED BY <1>4

Seen(v) == \E k \in 1..Len(table) : table[k] = v

\* Every event that is in the table has a first row.
LEMMA FirstRow ==
  ASSUME StoreTyped, NEW v, Seen(v)
  PROVE  \E k \in Firsts : table[k] = v
<1> DEFINE T == {k \in 1..Len(table) : table[k] = v}
<1>1. Len(table) \in Nat
  BY LenProperties DEF StoreTyped
<1>2. T \subseteq Nat /\ T # {}
  BY DEF Seen
<1>3. PICK k \in T : \A j \in T : k <= j
  BY <1>2, LeastOf
<1>4. k \in Firsts
  <2> SUFFICES ASSUME NEW j \in 1..k - 1 PROVE table[j] # v
    BY <1>3 DEF Firsts
  <2>1. j \in 1..Len(table) /\ ~(k <= j)
    BY <1>1, <1>3
  <2> QED BY <2>1, <1>3
<1> QED BY <1>3, <1>4

\* Since no event is overtaken, the rank of a first row is its event.
LEMMA RankIsEvent ==
  ASSUME StoreTyped, SupTyped, NoEventOvertaken, NEW k \in Firsts
  PROVE  /\ Rank(k) = table[k] /\ table[k] \in 1..Len(file)
         /\ \A j \in Firsts : j <= k => table[j] <= table[k]
<1> DEFINE V == table[k]
           S == {j \in Firsts : j <= k}
           f == [j \in S |-> table[j]]
<1>1. Len(table) \in Nat /\ Len(file) \in Nat
  BY LenProperties DEF StoreTyped, SupTyped
<1>2. \A j \in 1..Len(table) : table[j] \in 1..Len(file)
  BY ElementOfSeq DEF StoreTyped
<1>3. Firsts \subseteq 1..Len(table) /\ V \in 1..Len(file)
  BY <1>2 DEF Firsts
<1>4. ASSUME NEW j \in S PROVE table[j] \in 1..V
  <2>1. table[j] \in 1..Len(file) /\ j \in 1..Len(table)
    BY <1>2, <1>3
  <2>2. CASE table[j] > V
    <3>1. V \in 1..table[j] - 1
      BY <1>1, <1>3, <2>1, <2>2
    <3>2. PICK i \in 1..j - 1 : table[i] = V
      BY <2>1, <3>1 DEF NoEventOvertaken
    <3>3. i \in 1..k - 1
      BY <1>1, <1>3, <2>1
    <3> QED BY <3>2, <3>3 DEF Firsts
  <2> QED BY <1>1, <1>3, <2>1, <2>2
<1>5. ASSUME NEW v \in 1..V PROVE \E j \in S : table[j] = v
  <2>1. PICK i \in 1..k : table[i] = v
    <3>1. CASE v = V
      BY <3>1, <1>1, <1>3
    <3>2. CASE v # V
      <4>1. v \in 1..table[k] - 1 /\ k \in 1..Len(table)
        BY <3>2, <1>1, <1>3
      <4>2. PICK i \in 1..k - 1 : table[i] = v
        BY <4>1 DEF NoEventOvertaken
      <4> QED BY <4>1, <4>2, <1>1
    <3> QED BY <3>1, <3>2
  <2>2. i \in 1..Len(table) /\ k \in 1..Len(table)
    BY <1>1, <1>3
  <2>3. PICK j \in Firsts : table[j] = v
    BY <2>1, <2>2, FirstRow DEF Seen
  <2>4. j <= i
    <3>1. j \in 1..Len(table)
      BY <1>3
    <3>2. \A o \in 1..j - 1 : table[o] # table[j]
      BY DEF Firsts
    <3>3. ~(i \in 1..j - 1)
      BY <3>2, <2>1, <2>3
    <3> QED BY <3>1, <3>3, <2>2, <1>1
  <2> QED BY <2>2, <2>3, <2>4, <1>1, <1>3
<1>6. ASSUME NEW i \in S, NEW j \in S, i # j PROVE table[i] # table[j]
  <2>1. i \in 1..Len(table) /\ j \in 1..Len(table)
    BY <1>3
  <2>2. i \in 1..j - 1 \/ j \in 1..i - 1
    BY <2>1, <1>1, <1>6
  <2> QED BY <2>2 DEF Firsts
<1>7. f \in Bijection(S, 1..V)
  <2>1. f \in [S -> 1..V]
    BY <1>4
  <2>2. f \in Injection(S, 1..V)
    BY <2>1, <1>6 DEF Injection, IsInjective
  <2>3. f \in Surjection(S, 1..V)
    BY <2>1, <1>5 DEF Surjection
  <2> QED BY <2>2, <2>3 DEF Bijection
<1>8. IsFiniteSet(S)
  <2>1. IsFiniteSet(1..Len(table))
    BY <1>1, FS_Interval
  <2>2. S \in SUBSET (1..Len(table))
    BY <1>3
  <2> QED BY <2>1, <2>2, FS_Subset
<1>9. Cardinality(S) = V
  <2>1. Cardinality(1..V) = Cardinality(S)
    BY <1>7, <1>8, FS_Bijection DEF ExistsBijection
  <2>2. V \in Int /\ V >= 1
    BY <1>1, <1>3
  <2>3. Cardinality(1..V) = V
    <3> HIDE DEF V
    <3> QED BY <2>2, FS_Interval
  <2> QED BY <2>1, <2>3
<1> QED BY <1>3, <1>4, <1>9, <1>1 DEF Rank

\* The table holds a beginning of the file, and that is what its readers see.
LEMMA SeenIsPrefix ==
  ASSUME StoreTyped, SupTyped, NoEventOvertaken
  PROVE  \E m \in 0..Len(file) :
           /\ FirstSeen = [n \in 1..m |-> file[n]]
           /\ \A v : Seen(v) <=> v \in 1..m
<1>1. Len(table) \in Nat /\ Len(file) \in Nat
  BY LenProperties DEF StoreTyped, SupTyped
<1>2. Firsts \subseteq 1..Len(table)
  BY DEF Firsts
<1>3. PICK m \in 0..Len(file) : Cardinality(Firsts) = m /\ \A v : Seen(v) <=> v \in 1..m
  <2>1. CASE Firsts = {}
    <3>1. Cardinality(Firsts) = 0
      BY <2>1, FS_EmptySet
    <3>2. \A v : ~Seen(v)
      BY <2>1, FirstRow
    <3> QED BY <3>1, <3>2, <1>1
  <2>2. CASE Firsts # {}
    <3>1. PICK k \in Firsts : \A j \in Firsts : j <= k
      BY <2>2, <1>1, <1>2, GreatestOf
    <3>2. Cardinality(Firsts) = table[k] /\ table[k] \in 1..Len(file)
      <4>1. {j \in Firsts : j <= k} = Firsts
        BY <3>1
      <4> QED BY <4>1, RankIsEvent DEF Rank
    <3>3. ASSUME NEW v, Seen(v) PROVE v \in 1..table[k]
      <4>1. PICK j \in Firsts : table[j] = v
        BY <3>3, FirstRow
      <4>2. table[j] \in 1..Len(file) /\ table[j] <= table[k]
        BY <3>1, RankIsEvent
      <4> QED BY <4>1, <4>2, <3>2, <1>1
    <3>4. ASSUME NEW v \in 1..table[k] PROVE Seen(v)
      <4>1. k \in 1..Len(table)
        BY <1>2
      <4>2. CASE v = table[k]
        BY <4>1, <4>2 DEF Seen
      <4>3. CASE v # table[k]
        <5>1. v \in 1..table[k] - 1
          BY <4>3, <3>2, <1>1
        <5>2. PICK j \in 1..k - 1 : table[j] = v
          BY <4>1, <5>1 DEF NoEventOvertaken
        <5>3. j \in 1..Len(table)
          BY <4>1, <1>1
        <5> QED BY <5>2, <5>3 DEF Seen
      <4> QED BY <4>2, <4>3
    <3> QED BY <3>2, <3>3, <3>4, <1>1
  <2> QED BY <2>1, <2>2
<1>4. ASSUME NEW n \in 1..m PROVE file[table[CHOOSE k \in Firsts : Rank(k) = n]] = file[n]
  <2>1. \E k \in Firsts : Rank(k) = n
    BY <1>3, FirstRow, RankIsEvent
  <2>2. Rank(CHOOSE k \in Firsts : Rank(k) = n) = n
        /\ (CHOOSE k \in Firsts : Rank(k) = n) \in Firsts
    BY <2>1
  <2> QED BY <2>2, RankIsEvent
<1>5. FirstSeen = [n \in 1..m |-> file[n]]
  BY <1>3, <1>4 DEF FirstSeen
<1> QED BY <1>3, <1>5

LEMMA PrefixIs ==
  ASSUME NEW f \in Seq(Kinds), NEW m \in 0..Len(f)
  PROVE  /\ SubSeq(f, 1, m) = [n \in 1..m |-> f[n]]
         /\ Len([n \in 1..m |-> f[n]]) = m
<1>1. Len(f) \in Nat
  BY LenProperties
<1> DEFINE p == [n \in 1..m |-> f[n]]
<1>2. p \in Seq(Kinds) /\ Len(p) = m
  <2>1. m \in Nat /\ \A n \in 1..m : f[n] \in Kinds
    BY <1>1, ElementOfSeq
  <2>2. p \in [1..m -> Kinds] /\ DOMAIN p = 1..m
    BY <2>1
  <2>3. p \in Seq(Kinds)
    BY <2>1, <2>2, SeqDef
  <2> HIDE DEF p
  <2> QED BY <2>1, <2>2, <2>3, LenProperties
<1>3. /\ SubSeq(f, 1, m) \in Seq(Kinds) /\ Len(SubSeq(f, 1, m)) = m
      /\ \A i \in 1..m : SubSeq(f, 1, m)[i] = f[i]
  <2>1. 1 \in 1..Len(f) + 1 /\ m \in 1 - 1..Len(f)
    BY <1>1
  <2> QED BY <1>1, <2>1, SubSeqProperties
<1>4. \A i \in 1..m : p[i] = f[i]
  OBVIOUS
<1> HIDE DEF p
<1>5. SubSeq(f, 1, m) = p
  BY <1>2, <1>3, <1>4, SeqEqual
<1> QED BY <1>2, <1>5 DEF p

-----------------------------------------------------------------------------
(* The feed of events.                                                     *)

Sealed == closed \/ worker = "dead"

LEMMA SealedStays ==
  ASSUME IInv, Next, Sealed
  PROVE  Sealed'
<1>1. CASE Still \/ SpawnChild \/ (\E p \in Procs : Exits(p)) \/ Diagnose \/ Spawn
           \/ DeliverPrompt \/ Reap
  BY <1>1 DEF Still, SpawnChild, Exits, Diagnose, Spawn, DeliverPrompt, Reap, supervision, Sealed
<1>2. CASE WorkerEnds
  BY <1>2 DEF WorkerEnds, Sealed
<1>3. CASE Supervise
  BY <1>3 DEF Supervise, Flush, Check, GetLine, Signal, FindFamily, Grace, Settle, Judge,
     CloseFile, PublishResult, Reap, Supervised, Sealed
<1> QED BY <1>1, <1>2, <1>3, StepShapes

LEMMA FeedInit == Init => Feed!Init
<1> SUFFICES ASSUME Init PROVE file = <<>> /\ (closed \/ worker = "dead") = FALSE /\ FirstSeen = <<>>
  BY DEF Feed!Init
<1>1. file = <<>> /\ (closed \/ worker = "dead") = FALSE /\ Len(file) = 0
  BY EmptySeq DEF Init
<1>2. PICK m \in 0..Len(file) : FirstSeen = [n \in 1..m |-> file[n]]
  BY InvInit, InvParts, SeenIsPrefix DEF DeliveryInv
<1>3. file \in Seq(Kinds) /\ SubSeq(file, 1, m) = FirstSeen
  BY <1>2, InvInit, InvParts, PrefixIs DEF SupTyped
<1>4. FirstSeen \in Seq(Kinds) /\ Len(FirstSeen) = 0
  <2>1. m = 0
    BY <1>1
  <2>2. FirstSeen \in [1..0 -> Kinds] /\ Len(FirstSeen) = 0
    BY <1>2, <1>3, <2>1, PrefixIs
  <2> QED BY <2>2, SeqDef
<1> QED BY <1>1, <1>4, EmptySeq

\* What the readers see, in the states the invariant allows.
LEMMA SeenNow ==
  IInv => /\ file \in Seq(Kinds)
          /\ \E h \in 0..Len(file) : /\ FirstSeen = [n \in 1..h |-> file[n]]
                                    /\ \A v : Seen(v) <=> v \in 1..h
  BY InvParts, SeenIsPrefix DEF DeliveryInv, SupTyped

\* A step writes into the file, or delivers from it, or seals it, or does nothing
\* its readers could tell.
LEMMA FeedStep ==
  ASSUME IInv, Next, IInv'
  PROVE  [Feed!Next]_<<file, closed \/ worker = "dead", FirstSeen>>
<1>1. PICK m \in 0..Len(file) : /\ FirstSeen = [n \in 1..m |-> file[n]]
                                /\ \A v : Seen(v) <=> v \in 1..m
  BY SeenNow
<1>p. (/\ file \in Seq(Kinds)
       /\ \E h \in 0..Len(file) : /\ FirstSeen = [n \in 1..h |-> file[n]]
                                 /\ \A v : Seen(v) <=> v \in 1..h)'
  <2>1. (IInv => /\ file \in Seq(Kinds)
                 /\ \E h \in 0..Len(file) : /\ FirstSeen = [n \in 1..h |-> file[n]]
                                           /\ \A v : Seen(v) <=> v \in 1..h)'
    BY SeenNow, PTL
  <2> QED BY <2>1
<1>2. PICK l \in 0..Len(file') : /\ FirstSeen' = [n \in 1..l |-> file'[n]]
                                 /\ \A v : Seen(v)' <=> v \in 1..l
  BY <1>p
<1>3. Len(file) \in Nat /\ Len(file') \in Nat /\ Len(file) <= Len(file') /\ file \in Seq(Kinds)
  BY FileStep, SeenNow
<1>4. m <= l
  <2> SUFFICES ASSUME m > 0 PROVE m <= l
    BY <1>3
  <2>0. m \in 1..m
    BY <1>3
  <2>1. PICK k \in 1..Len(table) : table[k] = m
    BY <2>0, <1>1 DEF Seen
  <2>2. k \in 1..Len(table') /\ table'[k] = m
    BY <2>1, TableStep
  <2>3. Seen(m)'
    BY <2>2 DEF Seen
  <2> QED BY <2>3, <1>2
<1>5. Len(FirstSeen) = m /\ FirstSeen' = SubSeq(file', 1, l)
  BY <1>1, <1>2, <1>p, <1>3, PrefixIs
<1>6. ASSUME table' = table PROVE l = m
  <2>1. \A v : Seen(v)' <=> Seen(v)
    BY <1>6 DEF Seen
  <2>2. l \in 1..l => l \in 1..m
    BY <2>1, <1>1, <1>2
  <2> QED BY <2>2, <1>4, <1>3
<1>7. CASE table' = table /\ file' = file
  <2>1. FirstSeen' = FirstSeen
    BY <1>1, <1>2, <1>6, <1>7
  <2>2. (closed \/ worker = "dead") => (closed \/ worker = "dead")'
    BY SealedStays DEF Sealed
  <2>3. CASE (closed \/ worker = "dead")' /\ ~(closed \/ worker = "dead")
    <3>1. Feed!Seal
      BY <1>7, <2>1, <2>3 DEF Feed!Seal
    <3> QED BY <3>1 DEF Feed!Next
  <2>4. CASE (closed \/ worker = "dead")' <=> (closed \/ worker = "dead")
    BY <1>7, <2>1, <2>4
  <2> QED BY <2>2, <2>3, <2>4
<1>8. CASE Flush
  <2>1. table' = table /\ closed' = closed /\ worker' = worker /\ file' = Append(file, writing)
    BY <1>8 DEF Flush, Supervised, store
  <2>2. writing \in Kinds /\ ~(closed \/ worker = "dead")
    BY <1>8, InvParts DEF Flush, Supervises, SupervisionInv
  <2>3. FirstSeen' = FirstSeen
    <3>1. \A n \in 1..m : file'[n] = file[n]
      BY <2>1, <2>2, <1>3, AppendFacts
    <3> QED BY <3>1, <2>1, <1>1, <1>2, <1>6
  <2>4. Feed!Record(writing)
    BY <2>1, <2>2, <2>3 DEF Feed!Record
  <2> QED BY <2>2, <2>4 DEF Feed!Next
<1>9. ASSUME NEW r \in Readers, AppendEvents(r)
      PROVE  [Feed!Next]_<<file, closed \/ worker = "dead", FirstSeen>>
  <2>1. file' = file /\ closed' = closed /\ worker' = worker
    BY <1>9 DEF AppendEvents, ReconcilerStep, supervision
  <2>2. FirstSeen' = SubSeq(file, 1, l) /\ l \in Len(FirstSeen)..Len(file)
    BY <2>1, <1>3, <1>4, <1>5
  <2>3. Feed!Deliver
    BY <2>1, <2>2 DEF Feed!Deliver
  <2> QED BY <2>3 DEF Feed!Next
<1>10. Flush \/ (\E r \in Readers : AppendEvents(r)) \/ (table' = table /\ file' = file)
  <2> SUFFICES ASSUME ~Flush, ~\E r \in Readers : AppendEvents(r) PROVE table' = table
    BY FileGrows
  <2>1. CASE Supervise
    <3>1. Supervised \/ Reap
      BY <2>1 DEF Supervise, Flush, Check, GetLine, Signal, FindFamily, Grace, Settle, Judge,
         CloseFile, PublishResult
    <3> QED BY <3>1 DEF Supervised, Reap, store
  <2>2. CASE Start \/ Environment \/ Callers
    BY <2>2 DEF Start, Diagnose, Spawn, DeliverPrompt, HandOver, Environment, SpawnChild,
       WriteLine, Exits, ReaderThreadEnds, DeadlinePasses, WorkerEnds, ReaderDies, ReconcilerStep,
       Callers, Call, Cancel, Confirm, Join, Conclude, CallerStep, store
  <2>3. CASE Reconcilers
    BY <2>3 DEF Reconcilers, Reconcile, ReadRow, RecoverRun, Watch, LastEvent, SaveRow, store
  <2> QED BY <2>1, <2>2, <2>3 DEF Next, Callers, Reconcilers
<1> QED BY <1>7, <1>8, <1>9, <1>10

\* The file and what the readers of the table see of it are an event feed: a log
\* that only grows until it is sealed and a prefix of it that never shrinks.
THEOREM FeedCorrect == Spec => FeedSpec
<1>1. Init => Feed!Init
  BY FeedInit
<1>2. IInv /\ IInv' /\ [Next]_vars => [Feed!Next]_<<file, closed \/ worker = "dead", FirstSeen>>
  <2>1. ASSUME IInv, IInv', Next
        PROVE  [Feed!Next]_<<file, closed \/ worker = "dead", FirstSeen>>
    BY <2>1, FeedStep
  <2>2. ASSUME UNCHANGED vars
        PROVE  UNCHANGED <<file, closed \/ worker = "dead", FirstSeen>>
    <3>1. file' = file /\ table' = table /\ closed' = closed /\ worker' = worker
      BY <2>2 DEF vars, supervision, store
    <3> QED BY <3>1 DEF FirstSeen, Firsts, Rank
  <2> QED BY <2>1, <2>2
<1> QED BY <1>1, <1>2, InvCorrect, PTL DEF Spec, FeedSpec, Feed!Spec
=============================================================================
