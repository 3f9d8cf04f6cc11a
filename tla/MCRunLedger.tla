---------------------------- MODULE MCRunLedger ----------------------------
(* Small instances of RunLedger for TLC.                                   *)
EXTENDS RunLedger, TLC

CONSTANT Dispatcher

FairSpec == Spec /\ Fairness(Dispatcher)

Symmetry == Permutations(Clients)
=============================================================================
