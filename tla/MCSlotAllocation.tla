-------------------------- MODULE MCSlotAllocation --------------------------
(* Small instances of SlotAllocation for TLC.                              *)
EXTENDS SlotAllocation, TLC

CONSTANTS p1, p2, planner, developer

OneProject == <<p1>>
TwoProjects == <<p1, p2>>
TwoRoles == <<planner, developer>>
OneRole == <<developer>>

AllOf(S, n) == [e \in S |-> n]

EachProject1 == AllOf({p1, p2}, 1)
Project2 == AllOf({p1}, 2)
Project1 == AllOf({p1}, 1)
Roles1 == AllOf({planner, developer}, 1)
\* The developer stops after two runs.
DeveloperTwice == (planner :> 0) @@ (developer :> 2)
NoLimits == AllOf({planner, developer}, 0)

Developer1 == AllOf({developer}, 1)
Developer2 == AllOf({developer}, 2)
DeveloperNoLimit == AllOf({developer}, 0)
EachProject2 == AllOf({p1, p2}, 2)
OneDeveloper == {AllOf({developer}, 1)}
NoDeveloper == {AllOf({developer}, 0)}
NoRequests == {AllOf({planner, developer}, 0)}

FairSpec == Spec /\ Fairness

\* With phases: the interval of each role elapses.
EachTimePasses ==
  \A p \in Projects, r \in Roles :
    SF_vars(\E late \in SUBSET (Projects \X Roles) : <<p, r>> \in late /\ TimePasses(late))

PhasesSpec == FairSpec /\ EachTimePasses

Symmetry == Permutations(Runs) \cup Permutations(Activations) \cup Permutations(Clients)
=============================================================================
