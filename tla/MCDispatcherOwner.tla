------------------------- MODULE MCDispatcherOwner -------------------------
(* Instances of DispatcherOwner for TLC.                                   *)
EXTENDS DispatcherOwner, TLC

CONSTANT Daemon   \* the client that ensures a dispatcher in every cycle

FairSpec == Spec /\ Fairness(Daemon)

=============================================================================
