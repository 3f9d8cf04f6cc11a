---------------------------- MODULE MCJobDaemon ----------------------------
(* Instances of JobDaemon for TLC.                                         *)
EXTENDS JobDaemon

CONSTANTS p1, p2, t1, t2, dream, build, watch, main_group, side_group, l1, l2, l3

JobOrderValue == <<dream, build, watch>>
FirstGroupValue == [n \in {dream, build, watch} |->
                      IF n = watch THEN side_group ELSE main_group]
QuotaValue == [n \in {dream, build, watch} |-> IF n = dream THEN 1 ELSE 0]

\* One concern each: their interplay is what a concern consists of.
EnvsValue ==
  { {"time", "window", "conditions"}, {"time", "window", "crash"}, {"missing"}, {"time", "migrate"},
    {"migrate", "file"}, {"install"}, {"edit", "time"}, {"stop", "time"}, {"once"},
    {"window", "stop", "unreadable"} }
=============================================================================
