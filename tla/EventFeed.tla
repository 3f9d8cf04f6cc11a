----------------------------- MODULE EventFeed -----------------------------
(***************************************************************************)
(* What the event file of a run promises its readers: a log that only      *)
(* grows, that nobody extends once it is sealed, and a copy of it that is  *)
(* always a prefix and never shrinks.                                      *)
(***************************************************************************)
EXTENDS Sequences, Naturals

CONSTANT Kinds  \* the kinds of events

VARIABLES
  log,     \* the events written so far
  sealed,  \* whether the log is final
  copy     \* the events its reader has

Init == log = <<>> /\ sealed = FALSE /\ copy = <<>>

Record(kind) ==
  /\ ~sealed
  /\ log' = Append(log, kind)
  /\ UNCHANGED <<sealed, copy>>

Seal == sealed' = TRUE /\ UNCHANGED <<log, copy>>

Deliver ==
  /\ \E n \in Len(copy)..Len(log) : copy' = SubSeq(log, 1, n)
  /\ UNCHANGED <<log, sealed>>

Next == (\E kind \in Kinds : Record(kind)) \/ Seal \/ Deliver

Spec == Init /\ [][Next]_<<log, sealed, copy>>
=============================================================================
