----------------------- MODULE DispatcherOwnerProofs -----------------------
(***************************************************************************)
(* Proofs about the owner of repeat scheduling, for any number of          *)
(* dispatchers and commands.  The argument: a release of a row that is     *)
(* still to come always names a process that is dead, and identities are   *)
(* not used again, so however late the release is it cannot delete the     *)
(* claim of the dispatcher that serves.                                    *)
(***************************************************************************)
EXTENDS DispatcherOwner, TLAPS

-----------------------------------------------------------------------------
(* Types.                                                                  *)

LEMMA TypeInit == Init => TypeOK
<1> SUFFICES ASSUME Init PROVE TypeOK
  OBVIOUS
<1>1. read \in [Servers \cup Clients -> Servers \cup {None}]
  BY DEF Init
<1>2. /\ spc \in [Servers -> ServerPc]
      /\ cpc \in [Clients -> ClientPc]
      /\ looked \in [Clients -> Observation \cup {"nothing", "stopped"}]
  BY DEF Init, ServerPc, ClientPc
<1> QED BY <1>1, <1>2 DEF Init, TypeOK

LEMMA SeesTyped == \A s \in Servers : Sees(s) \subseteq Observation
  BY DEF Sees, Observation

LEMMA TypeStep == TypeOK /\ [Next]_vars => TypeOK'
<1> SUFFICES ASSUME TypeOK, [Next]_vars PROVE TypeOK'
  OBVIOUS
<1> USE DEF TypeOK, ServerPc, ClientPc, ServerGoes, ServerEnds, ClientGoes, ClientEnds,
            ReleaseRow, ClaimRow
<1>1. ASSUME NEW s \in Servers, Start(s) PROVE TypeOK'
  <2>1. CASE ServerReads(s)
    BY <2>1 DEF ServerReads
  <2>2. CASE ServerObserves(s)
    BY <2>2 DEF ServerObserves
  <2>3. CASE ServerReleasesStale(s)
    BY <2>3 DEF ServerReleasesStale
  <2>4. CASE ServerClaims(s)
    BY <2>4 DEF ServerClaims
  <2> QED BY <1>1, <2>1, <2>2, <2>3, <2>4 DEF Start
<1>2. ASSUME NEW s \in Servers, ServerFails(s) \/ ServerGivesBack(s) \/ ServerCrash(s)
      PROVE  TypeOK'
  BY <1>2 DEF ServerFails, ServerGivesBack, ServerCrash
<1>3. ASSUME NEW s \in Servers, ServiceStarts(s) \/ Forgotten(s) PROVE TypeOK'
  BY <1>3 DEF ServiceStarts, Forgotten
<1>4. ASSUME NEW c \in Clients, Ensure(c) PROVE TypeOK'
  <2>1. CASE EnsureReads(c)
    BY <2>1 DEF EnsureReads
  <2>2. CASE EnsureLooks(c)
    <3>1. PICK seen : seen \in Observation \cup {"nothing", "stopped"}
                      /\ looked' = [looked EXCEPT ![c] = seen]
      BY <2>2 DEF EnsureLooks, Sees, Observation
    <3> QED BY <2>2, <3>1 DEF EnsureLooks
  <2>3. CASE EnsureDecides(c)
    BY <2>3 DEF EnsureDecides
  <2>4. CASE EnsureReleasesStale(c) \/ EnsureWaitEnds(c)
    BY <2>4 DEF EnsureReleasesStale, EnsureWaitEnds
  <2>5. CASE EnsureLaunches(c)
    BY <2>5 DEF EnsureLaunches
  <2> QED BY <1>4, <2>1, <2>2, <2>3, <2>4, <2>5 DEF Ensure
<1>5. ASSUME NEW c \in Clients, Migrate(c) PROVE TypeOK'
  <2>1. CASE StopReads(c) \/ StopForgets(c)
    BY <2>1 DEF StopReads, StopForgets
  <2>2. CASE StopFinds(c)
    BY <2>2 DEF StopFinds
  <2>3. CASE StopTerminates(c)
    BY <2>3 DEF StopTerminates
  <2>4. CASE MigrateInstalls(c)
    BY <2>4 DEF MigrateInstalls, MigrateFails, ServiceEnds
  <2>5. CASE MigrateVerifies(c)
    BY <2>5 DEF MigrateVerifies, ServiceEnds
  <2> QED BY <1>5, <2>1, <2>2, <2>3, <2>4, <2>5 DEF Migrate
<1>6. ASSUME NEW c \in Clients, ClientCrash(c) PROVE TypeOK'
  BY <1>6 DEF ClientCrash
<1>7. CASE IntentsChange \/ Settles
  BY <1>7 DEF IntentsChange, Settles
<1>8. CASE UNCHANGED vars
  BY <1>8 DEF vars
<1> QED BY <1>1, <1>2, <1>3, <1>4, <1>5, <1>6, <1>7, <1>8 DEF Next, Server

(* Every value the row, the processes and the commands hold has its type,  *)
(* whatever _claim_dispatcher_process, ensure and migrate do.              *)
THEOREM TypeCorrect == Spec => []TypeOK
  BY TypeInit, TypeStep, PTL DEF Spec

-----------------------------------------------------------------------------
(* What one step of anybody does to the parts of the invariant.            *)

LEMMA InvInit == Init => OwnerInv
<1> SUFFICES ASSUME Init PROVE OwnerInv
  OBVIOUS
<1>1. /\ claim = None
      /\ \A s \in Servers : spc[s] = "unborn"
      /\ \A c \in Clients : cpc[c] = "idle"
      /\ \A p \in Servers \cup Clients : read[p] = None
  BY DEF Init
<1> QED BY <1>1, TypeInit
  DEF OwnerInv, ServingOwnsTheRow, Remembered, Fresh, Starting, StaleOnly

(* With every process observable an observation tells the living apart.    *)
LEMMA SeesLiving ==
  ASSUME "unobservable" \notin Env, NEW s \in Servers
  PROVE  /\ Alive(s) => Sees(s) = {"same"}
         /\ ~Alive(s) => Sees(s) \subseteq {"gone", "other"}
  BY DEF Sees

Rest == ServingOwnsTheRow /\ Remembered /\ Fresh /\ StaleOnly

LEMMA ServerStep ==
  ASSUME "unobservable" \notin Env, OwnerInv, NEW s \in Servers, Server(s)
  PROVE  Rest'
<1>t. /\ TypeOK /\ Rest
      /\ \A c \in Clients : c \notin Servers
  BY ClientsAssumption DEF OwnerInv, Rest
<1>n. None \notin Servers
  BY NoneAssumption
<1> USE DEF TypeOK, Rest, ServingOwnsTheRow, Remembered, Fresh, Starting, StaleOnly,
            ServerGoes, ServerEnds, ReleaseRow, ClaimRow
<1>1. CASE ServerReads(s)
  BY <1>1, <1>t, <1>n DEF ServerReads
<1>2. CASE ServerObserves(s)
  <2>1. read[s] \in Servers /\ read[s] # s /\ spc[read[s]] # "unborn"
    BY <1>2, <1>t, <1>n DEF ServerObserves
  <2>2. \/ ServerEnds(s)
        \/ ServerGoes(s, "release") /\ UNCHANGED read /\ spc[read[s]] = "gone"
    BY <1>2, <1>t, <2>1, SeesLiving DEF ServerObserves, Alive
  <2> QED BY <1>2, <2>1, <2>2, <1>t, <1>n DEF ServerObserves
<1>3. CASE ServerReleasesStale(s)
  BY <1>3, <1>t, <1>n DEF ServerReleasesStale
<1>4. CASE ServerClaims(s)
  BY <1>4, <1>t, <1>n DEF ServerClaims
<1>5. CASE ServerFails(s)
  BY <1>5, <1>t, <1>n DEF ServerFails
<1>6. CASE ServerGivesBack(s)
  BY <1>6, <1>t, <1>n DEF ServerGivesBack
<1>7. CASE ServerCrash(s)
  BY <1>7, <1>t, <1>n DEF ServerCrash
<1>8. CASE ServiceStarts(s)
  BY <1>8, <1>t, <1>n DEF ServiceStarts
<1>9. CASE Forgotten(s)
  BY <1>9, <1>t, <1>n DEF Forgotten
<1> QED BY <1>1, <1>2, <1>3, <1>4, <1>5, <1>6, <1>7, <1>8, <1>9 DEF Server, Start

(* Dispatchers that die, and forget what they read, disturb nobody else.   *)
LEMMA ServersDie ==
  ASSUME TypeOK, Rest, NEW D \in SUBSET Servers, NEW c \in Clients,
         \A s \in Servers : spc'[s] = IF s \in D THEN "gone" ELSE spc[s],
         \A s \in Servers : read'[s] = IF s \in D THEN None ELSE read[s],
         \A d \in Clients \ {c} : read'[d] = read[d] /\ cpc'[d] = cpc[d],
         claim' = claim,
         \/ read'[c] = None /\ cpc'[c] \in {"idle", "ensure", "verify"}
         \/ /\ read'[c] = read[c] /\ read[c] # None
            /\ cpc'[c] = "forget" /\ spc'[read[c]] = "gone"
  PROVE  Rest'
<1>t. /\ claim \in Servers \cup {None} /\ None \notin Servers
      /\ \A p \in Servers \cup Clients : read[p] \in Servers \cup {None}
  BY NoneAssumption DEF TypeOK
<1>r. /\ \A s \in Servers : spc[s] # "unborn" => spc'[s] # "unborn"
      /\ \A s \in Servers : spc[s] = "gone" => spc'[s] = "gone"
      /\ \A p \in Servers \cup Clients : read'[p] \in {read[p], None}
  OBVIOUS
<1>1. ServingOwnsTheRow' /\ Fresh'
  BY DEF Rest, ServingOwnsTheRow, Fresh, Starting
<1>2. Remembered'
  BY <1>t, <1>r DEF Rest, Remembered
<1>3. StaleOnly'
  BY <1>t, <1>r DEF Rest, StaleOnly
<1> QED BY <1>1, <1>2, <1>3 DEF Rest

LEMMA ClientStep ==
  ASSUME "unobservable" \notin Env, OwnerInv, NEW c \in Clients,
         Ensure(c) \/ Migrate(c) \/ ClientCrash(c)
  PROVE  Rest'
<1>t. /\ TypeOK /\ Rest
      /\ \A s \in Servers : s # c
  BY ClientsAssumption DEF OwnerInv, Rest
<1>n. None \notin Servers
  BY NoneAssumption
<1> USE DEF TypeOK, Rest, ServingOwnsTheRow, Remembered, Fresh, Starting, StaleOnly,
            ClientGoes, ClientEnds, ServerGoes, ReleaseRow
<1>1. CASE EnsureReads(c)
  BY <1>1, <1>t, <1>n DEF EnsureReads
<1>2. CASE EnsureLooks(c)
  BY <1>2, <1>t, <1>n DEF EnsureLooks
<1>3. CASE EnsureDecides(c)
  <2>1. read[c] \in Servers /\ spc[read[c]] # "unborn"
    BY <1>3, <1>t, <1>n DEF EnsureDecides
  <2>2. \/ ClientEnds(c)
        \/ ClientGoes(c, "release") /\ UNCHANGED <<read, looked>> /\ spc[read[c]] = "gone"
    BY <1>3, <1>t, <2>1, SeesLiving DEF EnsureDecides, Alive
  <2> QED BY <1>3, <2>1, <2>2, <1>t, <1>n DEF EnsureDecides
<1>4. CASE EnsureReleasesStale(c)
  BY <1>4, <1>t, <1>n DEF EnsureReleasesStale
<1>5. CASE EnsureLaunches(c)
  BY <1>5, <1>t, <1>n DEF EnsureLaunches
<1>6. CASE EnsureWaitEnds(c) \/ ClientCrash(c)
  BY <1>6, <1>t, <1>n DEF EnsureWaitEnds, ClientCrash
<1>7. CASE StopReads(c)
  BY <1>7, <1>t, <1>n DEF StopReads
<1>8. CASE StopFinds(c)
  <2>1. read[c] \in Servers /\ spc[read[c]] # "unborn"
    BY <1>8, <1>t, <1>n DEF StopFinds
  <2>2. \/ ClientEnds(c)
        \/ ClientGoes(c, "terminate") /\ UNCHANGED <<read, looked>>
        \/ ClientGoes(c, "forget") /\ UNCHANGED <<read, looked>> /\ spc[read[c]] = "gone"
    BY <1>8, <1>t, <2>1, SeesLiving DEF StopFinds, Alive
  <2> QED BY <1>8, <2>1, <2>2, <1>t, <1>n DEF StopFinds
<1>9. CASE StopTerminates(c)
  <2>1. read[c] \in Servers /\ spc[read[c]] # "unborn"
    BY <1>9, <1>t, <1>n DEF StopTerminates
  <2>2. CASE ClientEnds(c) /\ UNCHANGED spc
    BY <1>9, <2>2, <1>t, <1>n DEF StopTerminates
  <2>3. CASE Alive(read[c]) /\ spc' = [spc EXCEPT ![read[c]] = "gone"]
             /\ read' = [read EXCEPT ![read[c]] = None] /\ ClientGoes(c, "forget")
    <3> DEFINE D == {read[c]}
    <3>1. D \in SUBSET Servers /\ claim' = claim
      BY <1>9, <2>1 DEF StopTerminates
    <3>2. \A s \in Servers : spc'[s] = IF s \in D THEN "gone" ELSE spc[s]
      BY <2>1, <2>3, <1>t
    <3>3. \A s \in Servers : read'[s] = IF s \in D THEN None ELSE read[s]
      BY <2>1, <2>3, <1>t
    <3>4. \A d \in Clients \ {c} : read'[d] = read[d] /\ cpc'[d] = cpc[d]
      <4>1. \A d \in Clients : read'[d] = read[d]
        BY <2>1, <2>3, <1>t, ClientsAssumption
      <4>2. \A d \in Clients \ {c} : cpc'[d] = cpc[d]
        BY <2>3, <1>t
      <4> QED BY <4>1, <4>2
    <3>5. /\ read'[c] = read[c] /\ read[c] # None
          /\ cpc'[c] = "forget" /\ spc'[read[c]] = "gone"
      BY <2>1, <2>3, <1>t, <1>n
    <3> HIDE DEF TypeOK, Rest, D
    <3> QED BY <3>1, <3>2, <3>3, <3>4, <3>5, <1>t, ServersDie
  <2>4. CASE ~Alive(read[c]) /\ UNCHANGED <<spc, read>> /\ ClientGoes(c, "forget")
    <3>1. spc[read[c]] = "gone"
      BY <2>1, <2>4 DEF Alive
    <3> QED BY <1>9, <3>1, <2>1, <2>4, <1>t, <1>n DEF StopTerminates
  <2> QED BY <1>9, <2>2, <2>3, <2>4 DEF StopTerminates
<1>10. CASE StopForgets(c)
  BY <1>10, <1>t, <1>n DEF StopForgets
<1>e. ASSUME ServiceEnds(c), claim' = claim,
             ClientGoes(c, "verify") \/ ClientGoes(c, "ensure") \/ ClientGoes(c, "idle")
      PROVE  Rest'
  <2> DEFINE D == {s \in managed : Alive(s)}
  <2>1. D \in SUBSET Servers
    BY <1>t
  <2> HIDE DEF D
  <2>2. /\ spc' = [s \in Servers |-> IF s \in D THEN "gone" ELSE spc[s]]
        /\ read' = [p \in Servers \cup Clients |-> IF p \in D \cup {c} THEN None ELSE read[p]]
    BY <1>e DEF ServiceEnds, D
  <2>3. \A s \in Servers : spc'[s] = IF s \in D THEN "gone" ELSE spc[s]
    BY <2>2
  <2>4. \A s \in Servers : read'[s] = IF s \in D THEN None ELSE read[s]
    BY <2>2, <1>t
  <2>5. \A d \in Clients \ {c} : read'[d] = read[d] /\ cpc'[d] = cpc[d]
    <3>1. \A d \in Clients \ {c} : read'[d] = read[d]
      BY <2>1, <2>2, <1>t, ClientsAssumption
    <3>2. \A d \in Clients \ {c} : cpc'[d] = cpc[d]
      BY <1>e, <1>t
    <3> QED BY <3>1, <3>2
  <2>6. read'[c] = None /\ cpc'[c] \in {"idle", "ensure", "verify"}
    BY <2>2, <1>e, <1>t
  <2> HIDE DEF TypeOK, Rest
  <2> QED BY <1>e, <1>t, <2>1, <2>3, <2>4, <2>5, <2>6, ServersDie
<1>11. CASE MigrateInstalls(c)
  <2>1. CASE MigrateFails(c) /\ UNCHANGED spc
    BY <1>11, <2>1, <1>t, <1>n DEF MigrateInstalls, MigrateFails
  <2> QED BY <1>11, <2>1, <1>e DEF MigrateInstalls
<1>12. CASE MigrateVerifies(c)
  <2>1. CASE ClientEnds(c) /\ UNCHANGED spc
    BY <1>12, <2>1, <1>t, <1>n DEF MigrateVerifies
  <2> QED BY <1>12, <2>1, <1>e DEF MigrateVerifies
<1> QED BY <1>1, <1>2, <1>3, <1>4, <1>5, <1>6, <1>7, <1>8, <1>9, <1>10, <1>11, <1>12
        DEF Ensure, Migrate

LEMMA InvStep ==
  ASSUME "unobservable" \notin Env, OwnerInv, [Next]_vars
  PROVE  OwnerInv'
<1>1. TypeOK'
  BY TypeStep DEF OwnerInv
<1>2. CASE Next
  <2>1. ASSUME IntentsChange \/ Settles PROVE Rest'
    BY <2>1 DEF IntentsChange, Settles, OwnerInv, Rest, ServingOwnsTheRow, Remembered,
       Fresh, Starting, StaleOnly
  <2>2. Rest'
    BY <1>2, <2>1, ServerStep, ClientStep DEF Next
  <2> QED BY <1>1, <2>2 DEF OwnerInv, Rest
<1>3. CASE UNCHANGED vars
  BY <1>1, <1>3 DEF vars, OwnerInv, ServingOwnsTheRow, Remembered, Fresh, Starting, StaleOnly
<1> QED BY <1>2, <1>3

(* While processes can be observed, every release still to come names a    *)
(* dead process: the invariant of the ensure, claim and stop protocols.    *)
THEOREM InvCorrect ==
  ASSUME "unobservable" \notin Env
  PROVE  Spec => []OwnerInv
  BY InvInit, InvStep, PTL DEF Spec

(* Nobody's late compare-and-delete takes the row from the dispatcher that *)
(* serves (release_dispatcher from ensure, claim and stop).                *)
THEOREM ServingOwns ==
  ASSUME "unobservable" \notin Env
  PROVE  Spec => []ServingOwnsTheRow
<1>1. OwnerInv => ServingOwnsTheRow
  BY DEF OwnerInv
<1> QED BY <1>1, InvCorrect, PTL

-----------------------------------------------------------------------------
(* The protocol implements a single owner.                                 *)

(* A dispatcher begins to serve only when nobody serves.                   *)
LEMMA OnlyAnEmptySeatIsTaken ==
  ASSUME OwnerInv, [Next]_vars
  PROVE  Serving' \subseteq Serving \/ Serving = {}
<1>t. TypeOK /\ ServingOwnsTheRow /\ Fresh
  BY DEF OwnerInv
<1>1. ASSUME NEW s \in Servers, ServerClaims(s)
      PROVE  Serving' \subseteq Serving \/ Serving = {}
  <2>1. CASE claim' = s
    <3>1. claim = None
      BY <1>1, <2>1, <1>t DEF ServerClaims, ClaimRow, Fresh, Starting
    <3> QED BY <3>1, <1>t, NoneAssumption DEF ServingOwnsTheRow, Serving
  <2>2. CASE claim' # s
    BY <1>1, <2>2, <1>t DEF ServerClaims, ServerGoes, Serving, TypeOK
  <2> QED BY <2>1, <2>2
<1>2. ASSUME NEW s \in Servers, ServerObserves(s) PROVE Serving' \subseteq Serving
  <2>1. read[s] # s
    BY <1>2, <1>t DEF ServerObserves, Fresh, Starting
  <2>2. ServerGoes(s, "gone") \/ ServerGoes(s, "release")
    BY <1>2, <2>1 DEF ServerObserves, ServerEnds
  <2> QED BY <2>2, <1>t DEF ServerGoes, Serving, TypeOK
<1>3. ASSUME NEW s \in Servers,
             ServerReads(s) \/ ServerReleasesStale(s) \/ ServerFails(s) \/ ServerGivesBack(s)
             \/ ServerCrash(s) \/ ServiceStarts(s) \/ Forgotten(s)
      PROVE  Serving' \subseteq Serving
  <2>1. \E next \in ServerPc \ {"serve"} : ServerGoes(s, next)
    BY <1>3 DEF ServerPc, ServerReads, ServerReleasesStale, ServerFails, ServerGivesBack,
       ServerCrash, ServiceStarts, Forgotten, ServerEnds
  <2> QED BY <2>1, <1>t DEF ServerGoes, Serving, TypeOK
<1>4. ASSUME NEW c \in Clients, Ensure(c) PROVE Serving' \subseteq Serving
  <2>1. spc' = spc \/ \E s \in Servers : ServerGoes(s, "boot")
    BY <1>4 DEF Ensure, EnsureReads, EnsureLooks, EnsureDecides, EnsureReleasesStale,
       EnsureLaunches, EnsureWaitEnds
  <2> QED BY <2>1, <1>t DEF ServerGoes, Serving, TypeOK
<1>5. ASSUME NEW c \in Clients, Migrate(c) \/ ClientCrash(c) PROVE Serving' \subseteq Serving
  <2>1. CASE StopTerminates(c)
    BY <2>1, <1>t DEF StopTerminates, Serving, TypeOK
  <2>2. CASE ServiceEnds(c)
    BY <2>2, <1>t DEF ServiceEnds, Serving, TypeOK
  <2>3. CASE spc' = spc
    BY <2>3 DEF Serving
  <2> QED BY <1>5, <2>1, <2>2, <2>3
      DEF Migrate, StopReads, StopFinds, StopForgets, MigrateInstalls, MigrateVerifies,
          ClientCrash
<1>6. CASE IntentsChange \/ Settles \/ UNCHANGED vars
  BY <1>6 DEF IntentsChange, Settles, vars, Serving
<1> QED BY <1>1, <1>2, <1>3, <1>4, <1>5, <1>6 DEF Next, Server, Start

LEMMA OneServes ==
  ASSUME ServingOwnsTheRow
  PROVE  /\ Serving \subseteq {claim}
         /\ Serving # {} => Serving = {owner} /\ owner \in Servers
         /\ Serving = {} => owner = None
  BY DEF ServingOwnsTheRow, Serving, owner

LEMMA OwnerStep ==
  ASSUME OwnerInv, OwnerInv', [Next]_vars
  PROVE  [Abstract!Next]_owner
<1>1. /\ Serving # {} => Serving = {owner} /\ owner \in Servers
      /\ Serving = {} => owner = None
  BY OneServes DEF OwnerInv
<1>2. /\ Serving' # {} => Serving' = {owner'} /\ owner' \in Servers
      /\ Serving' = {} => owner' = None
  <2>1. ServingOwnsTheRow'
    BY DEF OwnerInv
  <2> QED BY <2>1 DEF ServingOwnsTheRow, Serving, owner
<1>3. Serving' \subseteq Serving \/ Serving = {}
  BY OnlyAnEmptySeatIsTaken
<1>4. CASE Serving = {}
  BY <1>1, <1>2, <1>4 DEF Abstract!Next, Abstract!Acquire
<1>5. CASE Serving # {}
  <2>1. owner' = owner \/ owner' = None
    BY <1>1, <1>2, <1>3, <1>5
  <2>2. owner # None
    BY <1>1, <1>5, NoneAssumption
  <2> QED BY <2>1, <2>2 DEF Abstract!Next, Abstract!Yield
<1> QED BY <1>4, <1>5

(* The launch, claim and stop protocols implement a single owner: two      *)
(* dispatchers never tick the projects at the same time, and one leaves    *)
(* before another comes.                                                   *)
THEOREM Refines ==
  ASSUME "unobservable" \notin Env
  PROVE  Spec => OneOwnerAtATime
<1>1. Init => Abstract!Init
  <2> SUFFICES ASSUME Init PROVE owner = None
    BY DEF Abstract!Init
  <2>1. Serving = {}
    BY DEF Init, Serving
  <2> QED BY <2>1 DEF owner
<1>2. OwnerInv /\ OwnerInv' /\ [Next]_vars => [Abstract!Next]_owner
  BY OwnerStep
<1> QED BY <1>1, <1>2, InvCorrect, PTL DEF Spec, OneOwnerAtATime, Abstract!Spec

=============================================================================
