---------------------------- MODULE SingleOwner ----------------------------
(***************************************************************************)
(* What claim_dispatcher promises: "exactly one detached process" owns     *)
(* repeat scheduling on this device.  An owner goes before another comes.  *)
(***************************************************************************)
CONSTANTS Servers, NoOwner

VARIABLE owner

Acquire(s) == owner = NoOwner /\ owner' = s

Yield == owner # NoOwner /\ owner' = NoOwner

Init == owner = NoOwner

Next == Yield \/ \E s \in Servers : Acquire(s)

Spec == Init /\ [][Next]_owner

=============================================================================
