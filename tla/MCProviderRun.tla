---------------------------- MODULE MCProviderRun ----------------------------
(* Small instances of ProviderRun for TLC.                                 *)
EXTENDS ProviderRun, TLC

CONSTANTS w, o1, o2, c1

\* A descendant that obeys, one that does not, one that also left the group,
\* and one that does not even hold the pipes.
Children == {{}, {"deaf"}, {"deaf", "detached"}, {"deaf", "quiet"}}

Environments == {
  \* a silent provider with a descendant is cancelled, or fails to start
  {"refuse", "deaf", "family", "callers"},
  \* it talks until it ends, is cancelled or runs out of time
  {"talks", "deaf", "deadline"},
  {"talks", "callers"},
  \* the row is reconciled while the run ends or its worker dies
  {"talks", "readers", "workerdies", "readerdies"},
  {"readers", "workerdies"}}
FairSpec == Spec /\ Fairness

\* Nothing but the worker itself.
Undisturbed == {{"readers"}}
=============================================================================
