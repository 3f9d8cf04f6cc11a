------------------------ MODULE SlotAllocationProofs ------------------------
(***************************************************************************)
(* What holds of slots and repeat intents for any projects, roles, limits, *)
(* runs and commands: no two commands start from one plan, ticks never     *)
(* queue beyond a limit as long as they count after each run, and no       *)
(* activation serves more often than its limit as long as the dispatcher   *)
(* sees each run it starts.                                                *)
(***************************************************************************)
EXTENDS SlotAllocation, SequenceTheorems, FiniteSetTheorems, TLAPS

-----------------------------------------------------------------------------
(* Sequences.                                                              *)

LEMMA ToSetIs ==
  ASSUME NEW X, NEW s \in Seq(X)
  PROVE  /\ ToSet(s) = {s[i] : i \in 1..Len(s)} /\ ToSet(s) \subseteq X
         /\ Len(s) \in Nat /\ DOMAIN s = 1..Len(s)
         /\ IsInjective(s) <=> \A i, j \in 1..Len(s) : s[i] = s[j] => i = j
<1>1. Len(s) \in Nat /\ DOMAIN s = 1..Len(s)
  BY LenProperties
<1>2. \A i \in 1..Len(s) : s[i] \in X
  BY ElementOfSeq
<1> QED BY <1>1, <1>2 DEF ToSet, IsInjective

LEMMA EmptyFacts ==
  ToSet(<<>>) = {} /\ IsInjective(<<>>) /\ \A X : <<>> \in Seq(X)
<1>1. \A X : <<>> \in Seq(X) /\ Len(<<>>) = 0
  BY EmptySeq
<1>2. <<>> \in Seq({})
  BY <1>1
<1>3. ToSet(<<>>) = {<<>>[i] : i \in 1..0} /\ DOMAIN <<>> = 1..0
  BY <1>1, <1>2, ToSetIs
<1> QED BY <1>1, <1>3 DEF IsInjective

LEMMA TailFacts ==
  ASSUME NEW X, NEW s \in Seq(X), s # <<>>
  PROVE  /\ Head(s) \in X /\ Tail(s) \in Seq(X) /\ Head(s) \in ToSet(s)
         /\ ToSet(Tail(s)) \subseteq ToSet(s)
         /\ IsInjective(s) => IsInjective(Tail(s)) /\ Head(s) \notin ToSet(Tail(s))
<1>1. Len(s) \in Nat \ {0} /\ Head(s) \in X /\ Tail(s) \in Seq(X) /\ Head(s) = s[1]
  BY EmptySeq
<1>2. Len(Tail(s)) = Len(s) - 1 /\ \A i \in 1..Len(Tail(s)) : Tail(s)[i] = s[i + 1]
  BY <1>1, HeadTailProperties
<1>3. \A i \in 1..Len(Tail(s)) : i + 1 \in 1..Len(s) /\ i + 1 # 1
  BY <1>1, <1>2
<1>t. /\ ToSet(s) = {s[i] : i \in 1..Len(s)}
      /\ ToSet(Tail(s)) = {Tail(s)[i] : i \in 1..Len(Tail(s))}
  <2>1. ToSet(s) = {s[i] : i \in 1..Len(s)}
    BY ToSetIs
  <2> DEFINE t == Tail(s)
  <2>2. t \in Seq(X)
    BY <1>1
  <2> HIDE DEF t
  <2>3. ToSet(t) = {t[i] : i \in 1..Len(t)}
    BY <2>2, ToSetIs
  <2> QED BY <2>1, <2>3 DEF t
<1>4. Head(s) \in ToSet(s) /\ ToSet(Tail(s)) \subseteq ToSet(s)
  <2>1. 1 \in 1..Len(s)
    BY <1>1
  <2> QED BY <1>1, <1>2, <1>3, <1>t, <2>1
<1>5. ASSUME IsInjective(s) PROVE IsInjective(Tail(s)) /\ Head(s) \notin ToSet(Tail(s))
  <2>1. \A i, j \in 1..Len(s) : s[i] = s[j] => i = j
    BY <1>5, ToSetIs
  <2>2. \A i, j \in 1..Len(Tail(s)) : Tail(s)[i] = Tail(s)[j] => i = j
    <3> SUFFICES ASSUME NEW i \in 1..Len(Tail(s)), NEW j \in 1..Len(Tail(s)),
                        Tail(s)[i] = Tail(s)[j]
                 PROVE  i = j
      OBVIOUS
    <3>1. i + 1 = j + 1
      BY <1>2, <1>3, <2>1
    <3> QED BY <3>1
  <2>3. \A i \in 1..Len(Tail(s)) : Tail(s)[i] # s[1]
    <3> SUFFICES ASSUME NEW i \in 1..Len(Tail(s)), Tail(s)[i] = s[1] PROVE FALSE
      OBVIOUS
    <3>1. i + 1 \in 1..Len(s) /\ 1 \in 1..Len(s) /\ s[i + 1] = s[1] /\ i + 1 # 1
      BY <1>1, <1>2, <1>3
    <3> QED BY <3>1, <2>1
  <2>4. IsInjective(Tail(s))
    BY <1>1, <2>2, ToSetIs
  <2> QED BY <1>1, <1>t, <2>3, <2>4
<1> QED BY <1>1, <1>4, <1>5

LEMMA AppendFacts ==
  ASSUME NEW X, NEW s \in Seq(X), NEW e \in X
  PROVE  /\ Append(s, e) \in Seq(X) /\ ToSet(Append(s, e)) = ToSet(s) \cup {e}
         /\ IsInjective(s) /\ e \notin ToSet(s) => IsInjective(Append(s, e))
<1> DEFINE t == Append(s, e)
<1>1. /\ t \in Seq(X) /\ Len(t) = Len(s) + 1 /\ Len(s) \in Nat
      /\ \A i \in 1..Len(s) : t[i] = s[i]
      /\ t[Len(s) + 1] = e
  BY LenProperties
<1> HIDE DEF t
<1>2. ToSet(t) = ToSet(s) \cup {e}
  <2>1. \A i \in 1..Len(s) + 1 : i \in 1..Len(s) \/ i = Len(s) + 1
    BY <1>1
  <2>2. \A i \in 1..Len(s) : i \in 1..Len(s) + 1
    BY <1>1
  <2>3. Len(s) + 1 \in 1..Len(s) + 1
    BY <1>1
  <2>4. ToSet(t) = {t[i] : i \in 1..Len(s) + 1} /\ ToSet(s) = {s[i] : i \in 1..Len(s)}
    BY <1>1, ToSetIs
  <2> QED BY <1>1, <2>1, <2>2, <2>3, <2>4
<1>3. ASSUME IsInjective(s), e \notin ToSet(s) PROVE IsInjective(t)
  <2>1. \A i, j \in 1..Len(s) : s[i] = s[j] => i = j
    BY <1>3, ToSetIs
  <2>2. \A i \in 1..Len(s) : s[i] # e
    BY <1>3, ToSetIs
  <2>3. \A i, j \in 1..Len(t) : t[i] = t[j] => i = j
    <3> SUFFICES ASSUME NEW i \in 1..Len(t), NEW j \in 1..Len(t), t[i] = t[j] PROVE i = j
      OBVIOUS
    <3>1. i \in 1..Len(s) \/ i = Len(s) + 1
      BY <1>1
    <3>2. j \in 1..Len(s) \/ j = Len(s) + 1
      BY <1>1
    <3> QED BY <1>1, <2>1, <2>2, <3>1, <3>2
  <2> QED BY <1>1, <2>3, ToSetIs
<1> QED BY <1>1, <1>2, <1>3 DEF t

LEMMA ConcatFacts ==
  ASSUME NEW X, NEW s \in Seq(X), NEW t \in Seq(X)
  PROVE  /\ s \o t \in Seq(X)
         /\ IsInjective(s) /\ IsInjective(t) /\ ToSet(s) \cap ToSet(t) = {}
              => IsInjective(s \o t)
<1> DEFINE u == s \o t
<1>1. /\ u \in Seq(X) /\ Len(u) = Len(s) + Len(t) /\ Len(s) \in Nat /\ Len(t) \in Nat
      /\ \A i \in 1..Len(s) + Len(t) : u[i] = IF i <= Len(s) THEN s[i] ELSE t[i - Len(s)]
  BY ConcatProperties, LenProperties
<1> HIDE DEF u
<1>2. ASSUME IsInjective(s), IsInjective(t), ToSet(s) \cap ToSet(t) = {}
      PROVE  \A i, j \in 1..Len(u) : u[i] = u[j] => i = j
  <2>1. /\ \A i, j \in 1..Len(s) : s[i] = s[j] => i = j
        /\ \A i, j \in 1..Len(t) : t[i] = t[j] => i = j
        /\ \A i \in 1..Len(s), j \in 1..Len(t) : s[i] # t[j]
    <3>1. /\ \A i, j \in 1..Len(s) : s[i] = s[j] => i = j
          /\ \A i, j \in 1..Len(t) : t[i] = t[j] => i = j
      BY <1>2, ToSetIs
    <3>2. /\ ToSet(s) = {s[i] : i \in 1..Len(s)}
          /\ ToSet(t) = {t[i] : i \in 1..Len(t)}
      BY ToSetIs
    <3>3. \A i \in 1..Len(s), j \in 1..Len(t) : s[i] \in ToSet(s) /\ t[j] \in ToSet(t)
      BY <3>2
    <3> QED BY <3>1, <3>3, <1>2
  <2> TAKE i, j \in 1..Len(u)
  <2>2. \A k \in 1..Len(u) : \/ k \in 1..Len(s) /\ u[k] = s[k]
                             \/ k - Len(s) \in 1..Len(t) /\ u[k] = t[k - Len(s)]
    BY <1>1
  <2> HAVE u[i] = u[j]
  <2>3. CASE i \in 1..Len(s) /\ u[i] = s[i]
    BY <2>1, <2>2, <2>3
  <2>4. CASE i - Len(s) \in 1..Len(t) /\ u[i] = t[i - Len(s)]
    <3>1. j - Len(s) \in 1..Len(t) /\ u[j] = t[j - Len(s)]
      BY <2>1, <2>2, <2>4
    <3>2. i - Len(s) = j - Len(s)
      BY <2>1, <2>4, <3>1
    <3> QED BY <3>2, <1>1
  <2> QED BY <2>2, <2>3, <2>4
<1> QED BY <1>1, <1>2, ToSetIs DEF u

-----------------------------------------------------------------------------
(* Keeping some elements of a sequence.                                    *)

\* How many of the places K come no later than i.
RankIn(K, i) == Cardinality({j \in K : j <= i})

LEMMA RankFacts ==
  ASSUME NEW n \in Nat, NEW K \in SUBSET (1..n)
  PROVE  /\ IsFiniteSet(K) /\ Cardinality(K) \in Nat
         /\ \A i \in K : RankIn(K, i) \in 1..Cardinality(K)
         /\ \A i, j \in K : RankIn(K, i) = RankIn(K, j) => i = j
         /\ \A m \in 1..Cardinality(K) : \E i \in K : RankIn(K, i) = m
<1>1. IsFiniteSet(K) /\ Cardinality(K) \in Nat
  <2>1. IsFiniteSet(1..n)
    BY FS_Interval
  <2>2. IsFiniteSet(K)
    BY <2>1, FS_Subset
  <2> QED BY <2>2, FS_CardinalityType
<1>2. ASSUME NEW i \in K PROVE RankIn(K, i) \in 1..Cardinality(K)
  <2> DEFINE U == {j \in K : j <= i}
  <2>1. U \in SUBSET K /\ i \in U
    BY <1>2
  <2> HIDE DEF U
  <2>2. IsFiniteSet(U) /\ Cardinality(U) <= Cardinality(K)
    BY <1>1, <2>1, FS_Subset
  <2>3. Cardinality(U) \in Nat /\ Cardinality(U) # 0
    BY <2>1, <2>2, FS_CardinalityType, FS_EmptySet
  <2>4. RankIn(K, i) = Cardinality(U)
    BY DEF RankIn, U
  <2> QED BY <1>1, <2>2, <2>3, <2>4
<1>3. ASSUME NEW i \in K, NEW j \in K, i < j PROVE RankIn(K, i) # RankIn(K, j)
  <2> DEFINE U == {k \in K : k <= i}
             V == {k \in K : k <= j}
  <2>1. U \in SUBSET V /\ j \in V /\ j \notin U /\ V \in SUBSET K
    <3>1. \A k \in K : k \in Int
      OBVIOUS
    <3>2. j \in V /\ V \in SUBSET K
      BY <3>1
    <3>3. j \notin U
      BY <1>3, <3>1
    <3>4. ASSUME NEW k \in U PROVE k \in V
      <4>1. k \in K /\ k <= i /\ k \in Int /\ i \in Int /\ j \in Int
        BY <3>1
      <4> QED BY <4>1, <1>3
    <3> HIDE DEF U, V
    <3>5. U \in SUBSET V
      BY <3>4
    <3> QED BY <3>2, <3>3, <3>5
  <2> HIDE DEF U, V
  <2>2. IsFiniteSet(V)
    BY <1>1, <2>1, FS_Subset
  <2>3. Cardinality(V) # Cardinality(U)
    BY <2>1, <2>2, FS_Subset
  <2> QED BY <2>3 DEF RankIn, U, V
<1>4. \A i, j \in K : RankIn(K, i) = RankIn(K, j) => i = j
  <2> SUFFICES ASSUME NEW i \in K, NEW j \in K, i # j PROVE RankIn(K, i) # RankIn(K, j)
    OBVIOUS
  <2>1. i < j \/ j < i
    OBVIOUS
  <2> QED BY <2>1, <1>3
<1>5. ASSUME NEW m \in 1..Cardinality(K) PROVE \E i \in K : RankIn(K, i) = m
  <2> DEFINE N == 1..Cardinality(K)
             f == [i \in K |-> RankIn(K, i)]
  <2>1. f \in Injection(K, N)
    <3>1. f \in [K -> N]
      BY <1>2
    <3>2. IsInjective(f)
      BY <1>4 DEF IsInjective
    <3> QED BY <3>1, <3>2 DEF Injection
  <2>2. IsFiniteSet(N) /\ Cardinality(N) = Cardinality(K)
    <3> DEFINE k == Cardinality(K)
    <3>1. k \in Nat /\ m \in 1..k
      BY <1>1, <1>5
    <3> HIDE DEF k
    <3>2. IsFiniteSet(1..k) /\ Cardinality(1..k) = k
      BY <3>1, FS_Interval
    <3> QED BY <3>2 DEF k
  <2>3. f \in Surjection(K, N)
    <3> HIDE DEF f, N
    <3> QED BY <2>1, <2>2, FS_Injection
  <2> QED BY <2>3, <1>5 DEF Surjection
<1> QED BY <1>1, <1>2, <1>4, <1>5

LEMMA KeepFacts ==
  ASSUME NEW X, NEW s \in Seq(X), NEW S
  PROVE  /\ Keep(s, S) \in Seq(X)
         /\ ToSet(Keep(s, S)) = ToSet(s) \cap S
         /\ IsInjective(s) => IsInjective(Keep(s, S))
<1> DEFINE K == Places(s, S)
           c == Cardinality(K)
           t == Keep(s, S)
<1>1. Len(s) \in Nat /\ K \in SUBSET (1..Len(s)) /\ \A i \in K : s[i] \in S /\ s[i] \in X
  <2>1. Len(s) \in Nat
    BY LenProperties
  <2>2. K \in SUBSET (1..Len(s)) /\ \A i \in K : s[i] \in S
    BY DEF Places
  <2> QED BY <2>1, <2>2, ElementOfSeq
<1>2. /\ c \in Nat
      /\ \A i \in K : RankIn(K, i) \in 1..c
      /\ \A i, j \in K : RankIn(K, i) = RankIn(K, j) => i = j
      /\ \A m \in 1..c : \E i \in K : RankIn(K, i) = m
  <2> HIDE DEF K
  <2> QED BY <1>1, RankFacts
<1>3. ASSUME NEW m \in 1..c
      PROVE  Place(s, S, m) \in K /\ RankIn(K, Place(s, S, m)) = m
  <2>1. Place(s, S, m) = CHOOSE i \in K : RankIn(K, i) = m
    BY DEF Place, RankIn
  <2> QED BY <2>1, <1>2, <1>3
<1>4. t = [m \in 1..c |-> s[Place(s, S, m)]]
  BY DEF Keep
<1>5. t \in Seq(X) /\ Len(t) = c /\ \A m \in 1..c : t[m] = s[Place(s, S, m)]
  <2>1. t \in [1..c -> X]
    BY <1>1, <1>3, <1>4
  <2>2. t \in Seq(X)
    BY <1>2, <2>1, SeqDef
  <2>3. DOMAIN t = 1..c
    BY <1>4
  <2>4. Len(t) = c
    <3>1. Len(t) \in Nat /\ DOMAIN t = 1..Len(t)
      BY <2>2, LenProperties
    <3> QED BY <3>1, <2>3, <1>2
  <2> QED BY <2>2, <2>4, <1>4
<1> HIDE DEF K, c, t
<1>6. ToSet(t) = {t[m] : m \in 1..c} /\ ToSet(s) = {s[i] : i \in 1..Len(s)}
  BY <1>5, ToSetIs
<1>7. ToSet(t) = ToSet(s) \cap S
  <2>1. ASSUME NEW e \in ToSet(t) PROVE e \in ToSet(s) \cap S
    <3>1. PICK m \in 1..c : e = t[m]
      BY <1>6
    <3>2. Place(s, S, m) \in K /\ e = s[Place(s, S, m)]
      BY <3>1, <1>3, <1>5
    <3> QED BY <3>2, <1>1, <1>6
  <2>2. ASSUME NEW e \in ToSet(s) \cap S PROVE e \in ToSet(t)
    <3>1. PICK i \in 1..Len(s) : e = s[i]
      BY <1>6
    <3>2. i \in K
      BY <3>1, <2>2 DEF K, Places
    <3>3. RankIn(K, i) \in 1..c
      BY <3>2, <1>2
    <3>4. Place(s, S, RankIn(K, i)) = i
      BY <3>2, <3>3, <1>2, <1>3
    <3>5. t[RankIn(K, i)] = e
      BY <3>1, <3>3, <3>4, <1>5
    <3> QED BY <3>3, <3>5, <1>6
  <2> QED BY <2>1, <2>2
<1>8. ASSUME IsInjective(s) PROVE IsInjective(t)
  <2>1. \A i, j \in 1..Len(s) : s[i] = s[j] => i = j
    BY <1>8, ToSetIs
  <2>2. \A m, n \in 1..c : t[m] = t[n] => m = n
    <3> SUFFICES ASSUME NEW m \in 1..c, NEW n \in 1..c, t[m] = t[n] PROVE m = n
      OBVIOUS
    <3>1. Place(s, S, m) = Place(s, S, n)
      BY <1>1, <1>3, <1>5, <2>1
    <3> QED BY <3>1, <1>3
  <2> QED BY <1>5, <2>2, ToSetIs
<1> QED BY <1>5, <1>7, <1>8 DEF t

LEMMA WithoutFacts ==
  ASSUME NEW X, NEW s \in Seq(X), NEW S
  PROVE  /\ Without(s, S) \in Seq(X)
         /\ ToSet(Without(s, S)) = ToSet(s) \ S
         /\ IsInjective(s) => IsInjective(Without(s, S))
  BY KeepFacts DEF Without

LEMMA InTurnFacts ==
  ASSUME NEW X, NEW s \in Seq(X), NEW t \in Seq(X)
  PROVE  /\ InTurn(s, t) \in Seq(X)
         /\ IsInjective(s) /\ IsInjective(t) => IsInjective(InTurn(s, t))
<1>1. /\ Without(s, ToSet(t)) \in Seq(X)
      /\ ToSet(Without(s, ToSet(t))) \cap ToSet(t) = {}
      /\ IsInjective(s) => IsInjective(Without(s, ToSet(t)))
  BY WithoutFacts
<1> QED BY <1>1, ConcatFacts DEF InTurn

LEMMA LastInTurnFacts ==
  ASSUME NEW X, NEW s \in Seq(X), NEW e \in X
  PROVE  /\ LastInTurn(s, e) \in Seq(X)
         /\ IsInjective(s) => IsInjective(LastInTurn(s, e))
<1>1. /\ Without(s, {e}) \in Seq(X) /\ e \notin ToSet(Without(s, {e}))
      /\ IsInjective(s) => IsInjective(Without(s, {e}))
  BY WithoutFacts
<1> QED BY <1>1, AppendFacts DEF LastInTurn

-----------------------------------------------------------------------------
(* The dispatcher after the edits of its steps.                            *)

TickNow(t, at, project, copies, todo, due, pass, run) ==
  /\ t \in Tick
  /\ t.at = at /\ t.project = project /\ t.copies = copies
  /\ t.todo = todo /\ t.due = due /\ t.pass = pass /\ t.run = run

Copies == [Roles -> Intent \cup {None}]

LEMMA TickFields ==
  ASSUME NEW t \in Tick
  PROVE  /\ TickNow(t, t.at, t.project, t.copies, t.todo, t.due, t.pass, t.run)
         /\ t.at \in TickPc /\ t.rest \in Seq(Projects) /\ t.project \in Projects \cup {None}
         /\ t.configuration \in Configuration /\ t.copies \in Copies
         /\ t.todo \in Seq(Roles) /\ t.due \in Seq(Roles) /\ t.pass \in Seq(Roles)
         /\ t.progress \in BOOLEAN /\ t.run \in Runs \cup {None}
  BY DEF Tick, TickNow, Copies

LEMMA OffTyped == Off \in Configuration /\ NoIntents \in Copies /\ NoGrants \in [Roles -> Nat]
  BY DEF Off, Configuration, NoIntents, Copies, NoGrants

LEMMA IdleNow == TickNow(TickIdle, "idle", None, NoIntents, <<>>, <<>>, <<>>, None)
  BY OffTyped, EmptyFacts DEF TickNow, TickIdle, Tick, TickPc, Copies

LEMMA WakeNow ==
  ASSUME NEW t \in Tick, NEW at \in TickPc, NEW p \in Projects, NEW c \in Copies,
         NEW todo \in Seq(Roles)
  PROVE  TickNow([t EXCEPT !.at = at, !.project = p, !.copies = c, !.todo = todo],
                 at, p, c, todo, t.due, t.pass, t.run)
  BY DEF TickNow, Tick, Copies

LEMMA ListedNow ==
  ASSUME NEW t \in Tick, NEW at \in TickPc, NEW c \in Copies, NEW todo \in Seq(Roles)
  PROVE  TickNow([t EXCEPT !.at = at, !.copies = c, !.todo = todo],
                 at, t.project, c, todo, t.due, t.pass, t.run)
  BY DEF TickNow, Tick, Copies

LEMMA TodoNow ==
  ASSUME NEW t \in Tick, t.todo # <<>>
  PROVE  TickNow([t EXCEPT !.todo = Tail(@)],
                 t.at, t.project, t.copies, Tail(t.todo), t.due, t.pass, t.run)
<1>1. Tail(t.todo) \in Seq(Roles)
  BY TickFields, TailFacts
<1> QED BY <1>1 DEF TickNow, Tick

LEMMA RestNow ==
  ASSUME NEW t \in Tick, NEW at \in TickPc, NEW rest \in Seq(Projects)
  PROVE  TickNow([t EXCEPT !.at = at, !.rest = rest],
                 at, t.project, t.copies, t.todo, t.due, t.pass, t.run)
  BY DEF TickNow, Tick

LEMMA NextNow ==
  ASSUME NEW at \in TickPc, NEW rest \in Seq(Projects)
  PROVE  TickNow([TickIdle EXCEPT !.at = at, !.rest = rest],
                 at, None, NoIntents, <<>>, <<>>, <<>>, None)
<1>1. ASSUME NEW t \in Tick
      PROVE  TickNow([t EXCEPT !.at = at, !.rest = rest],
                     at, t.project, t.copies, t.todo, t.due, t.pass, t.run)
  BY RestNow
<1> QED BY <1>1, IdleNow DEF TickNow

LEMMA RecoveredNow ==
  ASSUME NEW at \in TickPc, NEW rest \in Seq(Projects), NEW p \in Projects,
         NEW g \in Configuration
  PROVE  TickNow([TickIdle EXCEPT !.at = at, !.rest = rest, !.project = p,
                                  !.configuration = g],
                 at, p, NoIntents, <<>>, <<>>, <<>>, None)
<1>1. ASSUME NEW t \in Tick
      PROVE  TickNow([t EXCEPT !.at = at, !.rest = rest, !.project = p, !.configuration = g],
                     at, p, t.copies, t.todo, t.due, t.pass, t.run)
  BY DEF TickNow, Tick
<1> QED BY <1>1, IdleNow DEF TickNow

LEMMA MarkedNow ==
  ASSUME NEW t \in Tick, t.todo # <<>>, NEW i \in Intent
  PROVE  TickNow([t EXCEPT !.todo = Tail(@), !.copies[Head(t.todo)] = i,
                           !.due = Append(@, Head(t.todo))],
                 t.at, t.project, [t.copies EXCEPT ![Head(t.todo)] = i],
                 Tail(t.todo), Append(t.due, Head(t.todo)), t.pass, t.run)
<1>1. Tail(t.todo) \in Seq(Roles) /\ Head(t.todo) \in Roles
  BY TickFields, TailFacts
<1>2. Append(t.due, Head(t.todo)) \in Seq(Roles)
  BY <1>1, TickFields, AppendFacts
<1>3. [t.copies EXCEPT ![Head(t.todo)] = i] \in Copies
  BY <1>1, TickFields DEF Copies
<1> QED BY <1>1, <1>2, <1>3 DEF TickNow, Tick, Copies

LEMMA SortedNow ==
  ASSUME NEW t \in Tick, NEW at \in TickPc, NEW due \in Seq(Roles)
  PROVE  TickNow([t EXCEPT !.at = at, !.progress = TRUE, !.due = due],
                 at, t.project, t.copies, t.todo, due, t.pass, t.run)
  BY DEF TickNow, Tick

LEMMA PassNow ==
  ASSUME NEW t \in Tick, NEW at \in TickPc, NEW pass \in Seq(Roles)
  PROVE  TickNow([t EXCEPT !.at = at, !.pass = pass, !.progress = FALSE],
                 at, t.project, t.copies, t.todo, t.due, pass, t.run)
  BY DEF TickNow, Tick

LEMMA AtNow ==
  ASSUME NEW t \in Tick, NEW at \in TickPc
  PROVE  TickNow([t EXCEPT !.at = at],
                 at, t.project, t.copies, t.todo, t.due, t.pass, t.run)
  BY DEF TickNow, Tick

LEMMA LeavesNow ==
  ASSUME tick \in Tick, tick.pass # <<>>, NEW due \in Seq(Roles)
  PROVE  TickNow(Leaves(due), "pass", tick.project, tick.copies, tick.todo, due,
                 Tail(tick.pass), None)
<1>1. Tail(tick.pass) \in Seq(Roles)
  BY TickFields, TailFacts
<1>2. Leaves(due) = [tick EXCEPT !.at = "pass", !.due = due, !.pass = Tail(tick.pass),
                                 !.run = None]
  BY DEF Leaves
<1>3. "pass" \in TickPc
  BY DEF TickPc
<1> QED BY <1>1, <1>2, <1>3 DEF TickNow, Tick

LEMMA ProgressNow ==
  ASSUME NEW t \in Tick
  PROVE  TickNow([t EXCEPT !.progress = TRUE],
                 t.at, t.project, t.copies, t.todo, t.due, t.pass, t.run)
  BY DEF TickNow, Tick

LEMMA AwaitNow ==
  ASSUME NEW t \in Tick, NEW at \in TickPc, NEW x \in Runs
  PROVE  TickNow([t EXCEPT !.at = at, !.run = x],
                 at, t.project, t.copies, t.todo, t.due, t.pass, x)
  BY DEF TickNow, Tick

LEMMA AfterNow ==
  ASSUME NEW t \in Tick, NEW at \in TickPc, NEW r \in Roles, NEW i \in Intent
  PROVE  TickNow([t EXCEPT !.at = at, !.progress = TRUE, !.copies[r] = i],
                 at, t.project, [t.copies EXCEPT ![r] = i], t.todo, t.due, t.pass, t.run)
<1>1. [t.copies EXCEPT ![r] = i] \in Copies
  BY TickFields DEF Copies
<1> QED BY <1>1 DEF TickNow, Tick, Copies

LEMMA FullNow ==
  ASSUME NEW t \in Tick, NEW at \in TickPc, NEW due \in Seq(Roles)
  PROVE  TickNow([t EXCEPT !.at = at, !.due = due, !.pass = <<>>, !.run = None],
                 at, t.project, t.copies, t.todo, due, <<>>, None)
  BY EmptyFacts DEF TickNow, Tick

-----------------------------------------------------------------------------
(* A control command after the edits of its steps.                         *)

CommandNow(k, at, project, todo, granted, plan, taken, run) ==
  /\ k \in Command
  /\ k.at = at /\ k.project = project /\ k.todo = todo /\ k.granted = granted
  /\ k.plan = plan /\ k.taken = taken /\ k.run = run

Grants == [Roles -> Nat]

LEMMA CommandFields ==
  ASSUME NEW k \in Command
  PROVE  /\ CommandNow(k, k.at, k.project, k.todo, k.granted, k.plan, k.taken, k.run)
         /\ k.at \in CommandPc /\ k.project \in Projects \cup {None}
         /\ k.configuration \in Configuration /\ k.todo \in Seq(Roles)
         /\ k.want \in Grants /\ k.granted \in Grants /\ k.budget \in Nat
         /\ k.plan \in PlanIds \cup {None} /\ k.taken \in Plan \cup {None}
         /\ k.run \in Runs \cup {None}
  BY DEF Command, CommandNow, Grants

LEMMA CommandIdleNow ==
  CommandNow(CommandIdle, "idle", None, <<>>, NoGrants, None, None, None)
  BY OffTyped, EmptyFacts DEF CommandNow, CommandIdle, Command, CommandPc

LEMMA BegunNow ==
  ASSUME NEW at \in CommandPc, NEW p \in Projects, NEW g \in Configuration
  PROVE  CommandNow([CommandIdle EXCEPT !.at = at, !.project = p, !.configuration = g],
                    at, p, <<>>, NoGrants, None, None, None)
<1>1. ASSUME NEW k \in Command
      PROVE  CommandNow([k EXCEPT !.at = at, !.project = p, !.configuration = g],
                        at, p, k.todo, k.granted, k.plan, k.taken, k.run)
  BY DEF CommandNow, Command
<1> QED BY <1>1, CommandIdleNow DEF CommandNow

LEMMA GoneNow ==
  ASSUME NEW k \in Command, NEW at \in CommandPc
  PROVE  CommandNow([k EXCEPT !.at = at],
                    at, k.project, k.todo, k.granted, k.plan, k.taken, k.run)
  BY DEF CommandNow, Command

LEMMA ToDoNow ==
  ASSUME NEW k \in Command, NEW at \in CommandPc, NEW todo \in Seq(Roles)
  PROVE  CommandNow([k EXCEPT !.at = at, !.todo = todo],
                    at, k.project, todo, k.granted, k.plan, k.taken, k.run)
  BY DEF CommandNow, Command

LEMMA DoneOneNow ==
  ASSUME NEW k \in Command, k.todo # <<>>
  PROVE  CommandNow([k EXCEPT !.todo = Tail(@)],
                    k.at, k.project, Tail(k.todo), k.granted, k.plan, k.taken, k.run)
<1>1. Tail(k.todo) \in Seq(Roles)
  BY CommandFields, TailFacts
<1> QED BY <1>1 DEF CommandNow, Command

LEMMA BudgetNow ==
  ASSUME NEW k \in Command, NEW at \in CommandPc, NEW b \in Nat, NEW w \in Grants,
         NEW todo \in Seq(Roles)
  PROVE  CommandNow([k EXCEPT !.at = at, !.budget = b, !.want = w, !.todo = todo],
                    at, k.project, todo, k.granted, k.plan, k.taken, k.run)
  BY DEF CommandNow, Command, Grants

Granting(k, todo, b, r, n) == [k EXCEPT !.todo = todo, !.budget = b, !.granted[r] = n]

LEMMA GrantedNow ==
  ASSUME NEW k \in Command, NEW todo \in Seq(Roles), NEW b \in Nat, NEW r \in Roles, NEW n \in Nat
  PROVE  CommandNow(Granting(k, todo, b, r, n),
                    k.at, k.project, todo, [k.granted EXCEPT ![r] = n], k.plan, k.taken, k.run)
<1>1. [k.granted EXCEPT ![r] = n] \in Grants
  BY CommandFields DEF Grants
<1> QED BY <1>1 DEF Granting, CommandNow, Command, Grants

LEMMA TakenNow ==
  ASSUME NEW k \in Command, NEW at \in CommandPc, NEW i \in PlanIds, NEW t \in Plan
  PROVE  CommandNow([k EXCEPT !.at = at, !.plan = i, !.taken = t],
                    at, k.project, k.todo, k.granted, i, t, k.run)
  BY DEF CommandNow, Command

LEMMA ConfirmedNow ==
  ASSUME NEW k \in Command, NEW at \in CommandPc, NEW g \in Grants, NEW todo \in Seq(Roles)
  PROVE  CommandNow([k EXCEPT !.at = at, !.taken = None, !.granted = g, !.todo = todo],
                    at, k.project, todo, g, k.plan, None, k.run)
  BY DEF CommandNow, Command, Grants

LEMMA QueuedNow ==
  ASSUME NEW k \in Command, NEW at \in CommandPc, NEW x \in Runs
  PROVE  CommandNow([k EXCEPT !.at = at, !.run = x],
                    at, k.project, k.todo, k.granted, k.plan, k.taken, x)
  BY DEF CommandNow, Command

Leaving(k, r, n, todo) ==
  [k EXCEPT !.at = "start", !.run = None, !.granted[r] = n, !.todo = todo]

LEMMA LeftNow ==
  ASSUME NEW k \in Command, NEW r \in Roles, NEW n \in Nat, NEW todo \in Seq(Roles)
  PROVE  CommandNow(Leaving(k, r, n, todo),
                    "start", k.project, todo, [k.granted EXCEPT ![r] = n], k.plan, k.taken, None)
<1>1. [k.granted EXCEPT ![r] = n] \in Grants
  BY CommandFields DEF Grants
<1>2. "start" \in CommandPc
  BY DEF CommandPc
<1> QED BY <1>1, <1>2 DEF Leaving, CommandNow, Command, Grants

-----------------------------------------------------------------------------
(* A tick stays what its steps rely on.                                    *)

TickOK == tick \in Tick /\ TickInv /\ RoundInv

Working == {"room", "pass", "await", "rejected", "after"}
Serving == {"pass", "await", "rejected", "after"}
Starting == {"await", "rejected", "after"}

Shape(at, project, copies, todo, due, pass, run) ==
  /\ at \notin {"idle", "next"} => project \in Projects
  /\ \A r \in ToSet(todo) \cup ToSet(due) : copies[r] # None
  /\ at \in Working => todo = <<>>
  /\ at \in Starting => run \in Runs /\ pass # <<>>
  /\ at \notin Serving => pass = <<>>
  /\ at \in {"wake", "next", "recovered"} => due = <<>>
  /\ IsInjective(pass)
  /\ ToSet(pass) \subseteq ToSet(due)
  /\ at \in Working => IsInjective(due)

ShapeOf(t) == Shape(t.at, t.project, t.copies, t.todo, t.due, t.pass, t.run)

LEMMA TickOKIs ==
  TickOK <=> tick \in Tick /\ ShapeOf(tick) /\ (tick.at = "idle" => tick = TickIdle)
  BY DEF TickOK, TickInv, RoundInv, Shape, ShapeOf, Working, Serving, Starting

LEMMA ShapeKept ==
  ASSUME NEW at, NEW project, NEW copies, NEW todo, NEW due, NEW pass, NEW run,
         TickNow(tick', at, project, copies, todo, due, pass, run),
         Shape(at, project, copies, todo, due, pass, run), at # "idle"
  PROVE  TickOK'
<1>1. tick' \in Tick /\ ShapeOf(tick') /\ tick'.at # "idle"
  BY DEF TickNow, ShapeOf
<1>2. TickOK' <=> tick' \in Tick /\ ShapeOf(tick') /\ (tick'.at = "idle" => tick' = TickIdle)
  BY DEF TickOK, TickInv, RoundInv, Shape, ShapeOf, Working, Serving, Starting
<1> QED BY <1>1, <1>2

LEMMA IdleTickOK == ASSUME tick' = TickIdle PROVE TickOK'
<1>1. TickNow(TickIdle, "idle", None, NoIntents, <<>>, <<>>, <<>>, None)
  BY IdleNow
<1>2. ShapeOf(TickIdle) /\ TickIdle \in Tick /\ TickIdle.at = "idle"
  BY <1>1, EmptyFacts DEF Shape, ShapeOf, TickNow, Working, Serving, Starting
<1>3. TickOK' <=> tick' \in Tick /\ ShapeOf(tick') /\ (tick'.at = "idle" => tick' = TickIdle)
  BY DEF TickOK, TickInv, RoundInv, Shape, ShapeOf, Working, Serving, Starting
<1> QED BY <1>2, <1>3

LEMMA NextTickOK ==
  ASSUME NEW rest \in Seq(Projects), tick' = [TickIdle EXCEPT !.at = "next", !.rest = rest]
  PROVE  TickOK'
<1>1. "next" \in TickPc
  BY DEF TickPc
<1>2. TickNow(tick', "next", None, NoIntents, <<>>, <<>>, <<>>, None)
  BY <1>1, NextNow
<1>3. Shape("next", None, NoIntents, <<>>, <<>>, <<>>, None)
  BY EmptyFacts DEF Shape, Working, Serving, Starting
<1> QED BY <1>2, <1>3, ShapeKept

\* The orders a tick goes by.
LEMMA OrdersTyped ==
  ASSUME TypeOK, TurnsInv
  PROVE  /\ FairOrder \in Seq(Projects)
         /\ \A p \in Projects : \A S :
              /\ SortDue(p, S) \in Seq(Roles) /\ IsInjective(SortDue(p, S))
              /\ ToSet(SortDue(p, S)) \subseteq S
         /\ \A p \in Projects : \A r \in ToSet(ListOrder(p)) : intents[p][r] # None
<1>1. FairOrder \in Seq(Projects)
  BY OrderAssumption, InTurnFacts DEF FairOrder, TypeOK
<1>2. ASSUME NEW p \in Projects, NEW S
      PROVE  /\ SortDue(p, S) \in Seq(Roles) /\ IsInjective(SortDue(p, S))
             /\ ToSet(SortDue(p, S)) \subseteq S
  <2>1. turns[p] \in Seq(Roles) /\ IsInjective(turns[p])
    BY <1>2 DEF TypeOK, TurnsInv
  <2>2. InTurn(RoleOrder, turns[p]) \in Seq(Roles) /\ IsInjective(InTurn(RoleOrder, turns[p]))
    BY <2>1, OrderAssumption, InTurnFacts
  <2> DEFINE s == InTurn(RoleOrder, turns[p])
  <2>3. s \in Seq(Roles) /\ IsInjective(s)
    BY <2>2
  <2>4. SortDue(p, S) = Keep(s, S)
    BY DEF SortDue
  <2> HIDE DEF s
  <2>5. Keep(s, S) \in Seq(Roles) /\ IsInjective(Keep(s, S)) /\ ToSet(Keep(s, S)) = ToSet(s) \cap S
    BY <2>3, KeepFacts
  <2> QED BY <2>4, <2>5
<1>3. ASSUME NEW p \in Projects, NEW r \in ToSet(ListOrder(p)) PROVE intents[p][r] # None
  <2>1. r \in WithIntent(p)
    BY <1>2, <1>3 DEF ListOrder
  <2> QED BY <2>1 DEF WithIntent
<1> QED BY <1>1, <1>2, <1>3

\* The intents of a project as a tick lists them.
LEMMA ListedShape ==
  ASSUME TypeOK, TurnsInv, NEW p \in Projects, NEW at \in {"wake", "marking"}, NEW run
  PROVE  /\ intents[p] \in Copies /\ ListOrder(p) \in Seq(Roles)
         /\ Shape(at, p, intents[p], ListOrder(p), <<>>, <<>>, run)
<1>1. intents[p] \in Copies
  BY DEF TypeOK, Copies
<1>2. ListOrder(p) \in Seq(Roles) /\ \A r \in ToSet(ListOrder(p)) : intents[p][r] # None
  BY OrdersTyped DEF ListOrder
<1>3. Shape(at, p, intents[p], ListOrder(p), <<>>, <<>>, run)
  BY <1>2, EmptyFacts DEF Shape, Working, Serving, Starting
<1> QED BY <1>1, <1>2, <1>3

\* A role leaves the pass, and may stay due.
LEMMA LeavesShape ==
  ASSUME TickOK, tick.pass # <<>>, tick.at \in Serving, NEW due,
         due = tick.due \/ due = Without(tick.due, {Served})
  PROVE  /\ due \in Seq(Roles) /\ Served \in Roles /\ Served \in ToSet(tick.due)
         /\ ToSet(due) \subseteq ToSet(tick.due)
         /\ Shape("pass", tick.project, tick.copies, tick.todo, due, Tail(tick.pass), None)
         /\ Shape("room", tick.project, tick.copies, tick.todo, due, <<>>, None)
<1>1. /\ tick.pass \in Seq(Roles) /\ tick.due \in Seq(Roles)
      /\ ShapeOf(tick)
  BY TickOKIs, TickFields
<1>2. /\ Served \in Roles /\ Served \in ToSet(tick.pass) /\ Tail(tick.pass) \in Seq(Roles)
      /\ ToSet(Tail(tick.pass)) \subseteq ToSet(tick.pass)
      /\ IsInjective(Tail(tick.pass)) /\ Served \notin ToSet(Tail(tick.pass))
  BY <1>1, TailFacts DEF Served, ShapeOf, Shape
<1>3. /\ ToSet(tick.pass) \subseteq ToSet(tick.due) /\ IsInjective(tick.due)
      /\ tick.project \in Projects /\ tick.todo = <<>>
      /\ \A r \in ToSet(tick.due) : tick.copies[r] # None
  BY <1>1 DEF ShapeOf, Shape, Working, Serving
<1>4. /\ due \in Seq(Roles) /\ IsInjective(due)
      /\ ToSet(tick.due) \ {Served} \subseteq ToSet(due) /\ ToSet(due) \subseteq ToSet(tick.due)
  BY <1>1, <1>3, WithoutFacts
<1>5. /\ \A r \in ToSet(tick.todo) \cup ToSet(due) : tick.copies[r] # None
      /\ ToSet(Tail(tick.pass)) \subseteq ToSet(due)
  BY <1>2, <1>3, <1>4, EmptyFacts
<1>6. Shape("pass", tick.project, tick.copies, tick.todo, due, Tail(tick.pass), None)
  BY <1>2, <1>3, <1>4, <1>5 DEF Shape, Working, Serving, Starting
<1>7. Shape("room", tick.project, tick.copies, tick.todo, due, <<>>, None)
  BY <1>3, <1>4, <1>5, EmptyFacts DEF Shape, Working, Serving, Starting
<1> QED BY <1>2, <1>3, <1>4, <1>6, <1>7

\* What is a row, or has an id, is not the absence of one.
LEMMA Somes ==
  /\ \A i \in Intent : i # None
  /\ \A g \in Run : g # None
  /\ \A k \in Plan : k # None
  /\ \A a \in Activations : a # None
  /\ \A x \in Runs : x # None
  /\ \A p \in Projects : p # None
  /\ \A i \in PlanIds : i # None
  BY NoneAssumption

LEMMA CountedIntent ==
  ASSUME NEW i \in Intent, NEW r \in Roles
  PROVE  [i EXCEPT !.started = Counted(@, r)] \in Intent
<1>1. i.started \in Nat
  BY DEF Intent
<1>2. Counted(i.started, r) \in Nat
  BY <1>1 DEF Counted
<1> QED BY <1>2 DEF Intent

LEMMA CommandsLeaveTick ==
  ASSUME NEW c, ConfigWrite(c) \/ Manual(c)
  PROVE  tick' = tick
<1>1. CASE ConfigWrite(c)
  BY <1>1 DEF ConfigWrite, WriteConfiguration, SyncLists, SyncDrops, SyncEnds, Activate, rows, history
<1>2. CASE Manual(c)
  <2>1. ASSUME NEW p, PlanReads(c, p) \/ StartReads(c, p) \/ RetryReads(c, p) PROVE tick' = tick
    BY <2>1 DEF PlanReads, StartReads, RetryReads
  <2>2. ASSUME NEW want, PlanCounts(c, want) PROVE tick' = tick
    BY <2>2 DEF PlanCounts
  <2>3. ASSUME NEW available, PlanGrants(c, available) PROVE tick' = tick
    BY <2>3 DEF PlanGrants
  <2>4. ASSUME NEW i, PlanSaves(c, i) \/ TakePlan(c, i) PROVE tick' = tick
    BY <2>4 DEF PlanSaves, TakePlan
  <2>5. ASSUME PlanNotFound(c) \/ RuntimeChanged(c) \/ ConfirmPlan(c) PROVE tick' = tick
    BY <2>5 DEF PlanNotFound, RuntimeChanged, ConfirmPlan
  <2>6. ASSUME NEW x, StartQueuesRun(c, x) \/ \E r \in Roles : RetryQueuesRun(c, x, r)
        PROVE  tick' = tick
    BY <2>6 DEF StartQueuesRun, RetryQueuesRun
  <2>7. ASSUME StartedOne(c) \/ StartLeavesRole(c) \/ StartEnds(c) \/ RetryEnds(c) PROVE tick' = tick
    BY <2>7 DEF StartedOne, StartLeavesRole, StartEnds, RetryEnds
  <2> QED BY <1>2, <2>1, <2>2, <2>3, <2>4, <2>5, <2>6, <2>7 DEF Manual
<1> QED BY <1>1, <1>2

\* A step leaves the tick alone, or begins one for changed files, ends it with the
\* dispatcher, or is the dispatcher's.
LEMMA TickMoves ==
  ASSUME [Next]_vars
  PROVE  \/ tick' = tick
         \/ DispatcherDies /\ tick' = TickIdle
         \/ \E p \in Projects : WatcherLists(p)
         \/ Dispatcher
<1>1. CASE UNCHANGED vars
  BY <1>1 DEF vars
<1>2. CASE \E c \in Clients : ConfigWrite(c) \/ Manual(c)
  BY <1>2, CommandsLeaveTick
<1>3. CASE Environment
  <2>1. ASSUME NEW x, \/ RunServes(x) \/ RunGivesUp(x) \/ RunEnds(x)
                      \/ RunDropped(x) \/ RunAdopted(x)
        PROVE  tick' = tick
    BY <2>1 DEF RunServes, RunGivesUp, RunEnds, RunDropped, RunAdopted
  <2>2. ASSUME NEW late, TimePasses(late) PROVE tick' = tick
    BY <2>2 DEF TimePasses
  <2>3. ASSUME NEW p, SetPaused(p) \/ SetConsent(p) PROVE tick' = tick
    BY <2>3 DEF SetPaused, SetConsent
  <2>4. ASSUME NEW i, PlanExpires(i) PROVE tick' = tick
    BY <2>4 DEF PlanExpires
  <2>5. ASSUME NEW c, CommandDies(c) PROVE tick' = tick
    BY <2>5 DEF CommandDies
  <2>6. ASSUME DispatcherDies PROVE tick' = TickIdle
    BY <2>6 DEF DispatcherDies
  <2> QED BY <1>3, <2>1, <2>2, <2>3, <2>4, <2>5, <2>6 DEF Environment
<1> QED BY <1>1, <1>2, <1>3 DEF Next

LEMMA TickKept ==
  ASSUME TypeOK, TurnsInv, TickInv, RoundInv, [Next]_vars
  PROVE  TickOK'
<1>0. TickOK /\ tick \in Tick
  BY DEF TickOK, TypeOK
<1>t. ShapeOf(tick) /\ (tick.at = "idle" => tick = TickIdle)
  BY <1>0, TickOKIs
<1>f. /\ tick.at \in TickPc /\ tick.rest \in Seq(Projects) /\ tick.project \in Projects \cup {None}
      /\ tick.configuration \in Configuration /\ tick.copies \in Copies
      /\ tick.todo \in Seq(Roles) /\ tick.due \in Seq(Roles) /\ tick.pass \in Seq(Roles)
  BY <1>0, TickFields
<1>p. /\ "wake" \in TickPc /\ "next" \in TickPc /\ "recovered" \in TickPc /\ "marking" \in TickPc
      /\ "room" \in TickPc /\ "pass" \in TickPc /\ "await" \in TickPc
      /\ "rejected" \in TickPc /\ "after" \in TickPc
  BY DEF TickPc
<1>i. tick.at = "idle" => tick.due = <<>> /\ tick.pass = <<>> /\ tick.todo = <<>>
  BY <1>t, IdleNow DEF TickNow
<1>1. CASE tick' = tick
  BY <1>0, <1>1 DEF TickOK, TickInv, RoundInv, Served
<1>2. CASE tick' = TickIdle
  BY <1>2, IdleTickOK
<1>3. ASSUME NEW p \in Projects, WatcherLists(p) PROVE TickOK'
  <2>1. intents[p] \in Copies /\ ListOrder(p) \in Seq(Roles)
        /\ Shape("wake", p, intents[p], ListOrder(p), <<>>, <<>>, tick.run)
    BY ListedShape
  <2>2. tick.at = "idle"
        /\ tick' = [tick EXCEPT !.at = "wake", !.project = p,
                                !.copies = intents[p], !.todo = ListOrder(p)]
    BY <1>3 DEF WatcherLists
  <2>3. TickNow(tick', "wake", p, intents[p], ListOrder(p), tick.due, tick.pass, tick.run)
    BY <1>0, <1>p, <2>1, <2>2, WakeNow
  <2>4. tick.due = <<>> /\ tick.pass = <<>>
    BY <1>i, <2>2
  <2> QED BY <2>1, <2>3, <2>4, ShapeKept
<1>4. CASE WatcherMarks
  <2>1. tick.at = "wake" /\ tick.todo # <<>> /\ tick' = [tick EXCEPT !.todo = Tail(@)]
    BY <1>4 DEF WatcherMarks
  <2>2. TickNow(tick', "wake", tick.project, tick.copies, Tail(tick.todo), tick.due, tick.pass, tick.run)
    BY <1>0, <2>1, TodoNow
  <2>3. ToSet(Tail(tick.todo)) \subseteq ToSet(tick.todo)
    BY <1>f, <2>1, TailFacts
  <2>4. Shape("wake", tick.project, tick.copies, Tail(tick.todo), tick.due, tick.pass, tick.run)
    BY <1>t, <2>1, <2>3 DEF ShapeOf, Shape, Working, Serving, Starting
  <2> QED BY <2>2, <2>4, ShapeKept
<1>5. CASE WatcherEnds
  BY <1>5, OrdersTyped, NextTickOK DEF WatcherEnds
<1>6. CASE TickAllProjects
  BY <1>6, <1>t, OrdersTyped, NextTickOK DEF TickAllProjects
<1>7. CASE ReadConfiguration
  <2>1. tick' = [TickIdle EXCEPT !.at = "recovered", !.rest = Tail(tick.rest),
                              !.project = Head(tick.rest),
                              !.configuration = configuration[Head(tick.rest)]]
        /\ tick.rest # <<>>
    BY <1>7 DEF ReadConfiguration
  <2>2. Head(tick.rest) \in Projects /\ Tail(tick.rest) \in Seq(Projects)
    BY <1>f, <2>1, TailFacts
  <2>3. configuration[Head(tick.rest)] \in Configuration
    BY <2>2 DEF TypeOK
  <2>4. TickNow(tick', "recovered", Head(tick.rest), NoIntents, <<>>, <<>>, <<>>, None)
    BY <2>1, <2>2, <2>3, <1>p, RecoveredNow
  <2>5. Shape("recovered", Head(tick.rest), NoIntents, <<>>, <<>>, <<>>, None)
    BY <2>2, EmptyFacts DEF Shape, Working, Serving, Starting
  <2> QED BY <2>4, <2>5, ShapeKept
<1>8. CASE TickEnds
  BY <1>8, IdleTickOK DEF TickEnds
<1>9. CASE TickReturns
  BY <1>9, <1>f, NextTickOK DEF TickReturns, NextProject
<1>10. CASE ListIntents
  <2>1. tick.at = "recovered"
        /\ tick' = [tick EXCEPT !.at = "marking", !.copies = intents[tick.project],
                          !.todo = ListOrder(tick.project)]
    BY <1>10 DEF ListIntents
  <2>2. tick.project \in Projects /\ tick.due = <<>> /\ tick.pass = <<>>
    BY <1>t, <2>1 DEF ShapeOf, Shape, Serving
  <2>3. /\ intents[tick.project] \in Copies /\ ListOrder(tick.project) \in Seq(Roles)
        /\ Shape("marking", tick.project, intents[tick.project], ListOrder(tick.project),
                 <<>>, <<>>, tick.run)
    BY <2>2, ListedShape
  <2>4. TickNow(tick', "marking", tick.project, intents[tick.project], ListOrder(tick.project),
                <<>>, <<>>, tick.run)
    BY <1>0, <1>p, <2>1, <2>2, <2>3, ListedNow
  <2> QED BY <2>3, <2>4, ShapeKept
<1>11. CASE DropUnwanted \/ (MarkDue /\ ~tick.copies[Listed].due)
  <2>1. tick.at = "marking" /\ tick.todo # <<>> /\ tick' = [tick EXCEPT !.todo = Tail(@)]
    BY <1>11 DEF DropUnwanted, MarkDue
  <2>2. TickNow(tick', "marking", tick.project, tick.copies, Tail(tick.todo), tick.due, tick.pass, tick.run)
    BY <1>0, <2>1, TodoNow
  <2>3. ToSet(Tail(tick.todo)) \subseteq ToSet(tick.todo)
    BY <1>f, <2>1, TailFacts
  <2>4. Shape("marking", tick.project, tick.copies, Tail(tick.todo), tick.due, tick.pass, tick.run)
    BY <1>t, <2>1, <2>3 DEF ShapeOf, Shape, Working, Serving, Starting
  <2> QED BY <2>2, <2>4, ShapeKept
<1>12. CASE MarkDue /\ tick.copies[Listed].due
  <2> DEFINE i == [tick.copies[Listed] EXCEPT !.due = FALSE]
             k == [tick.copies EXCEPT ![Listed] = i]
             d == Append(tick.due, Listed)
  <2>1. tick.at = "marking" /\ tick.todo # <<>>
        /\ tick' = [tick EXCEPT !.todo = Tail(@), !.copies[Listed] = i, !.due = Append(@, Listed)]
    BY <1>12 DEF MarkDue
  <2>2. Listed \in Roles /\ Listed \in ToSet(tick.todo) /\ ToSet(Tail(tick.todo)) \subseteq ToSet(tick.todo)
    BY <1>f, <2>1, TailFacts DEF Listed
  <2>3. tick.copies[Listed] \in Intent
    BY <1>t, <1>f, <2>2 DEF ShapeOf, Shape, Copies
  <2>4. i \in Intent
    BY <2>3 DEF Intent
  <2>5. TickNow(tick', "marking", tick.project, k, Tail(tick.todo), d, tick.pass, tick.run)
    BY <1>0, <2>1, <2>4, MarkedNow DEF Listed
  <2>6. ToSet(d) = ToSet(tick.due) \cup {Listed}
    BY <1>f, <2>2, AppendFacts
  <2>7. i # None
    BY <2>4, Somes
  <2>8. \A r \in ToSet(Tail(tick.todo)) \cup ToSet(d) : k[r] # None
    <3>1. ASSUME NEW r \in ToSet(Tail(tick.todo)) \cup ToSet(d) PROVE k[r] # None
      <4>1. tick.copies[r] # None
        BY <3>1, <2>2, <2>6, <1>t DEF ShapeOf, Shape
      <4>2. r \in Roles
        <5>1. ToSet(tick.todo) \subseteq Roles /\ ToSet(tick.due) \subseteq Roles
          BY <1>f, ToSetIs
        <5> QED BY <3>1, <5>1, <2>2, <2>6
      <4>3. k[r] = IF r = Listed THEN i ELSE tick.copies[r]
        BY <4>2, <1>f DEF Copies
      <4> QED BY <4>1, <4>3, <2>7
    <3> QED BY <3>1
  <2> HIDE DEF i, k, d
  <2>9. Shape("marking", tick.project, k, Tail(tick.todo), d, tick.pass, tick.run)
    <3>1. tick.pass = <<>> /\ tick.project \in Projects
      BY <1>t, <2>1 DEF ShapeOf, Shape, Serving
    <3> QED BY <2>8, <3>1, EmptyFacts DEF Shape, Working, Serving, Starting
  <2> QED BY <2>5, <2>9, ShapeKept
<1>13. CASE SortsDueIntents
  <2> DEFINE d == SortDue(tick.project, ToSet(tick.due))
  <2>1. tick.at = "marking" /\ tick.todo = <<>>
        /\ tick' = [tick EXCEPT !.at = "room", !.progress = TRUE, !.due = d]
    BY <1>13 DEF SortsDueIntents
  <2>2. tick.project \in Projects /\ tick.pass = <<>>
    BY <1>t, <2>1 DEF ShapeOf, Shape, Serving
  <2>3. d \in Seq(Roles) /\ IsInjective(d) /\ ToSet(d) \subseteq ToSet(tick.due)
    BY <2>2, OrdersTyped
  <2> HIDE DEF d
  <2>4. TickNow(tick', "room", tick.project, tick.copies, tick.todo, d, tick.pass, tick.run)
    BY <1>0, <1>p, <2>1, <2>3, SortedNow
  <2>5. Shape("room", tick.project, tick.copies, tick.todo, d, tick.pass, tick.run)
    BY <1>t, <2>1, <2>2, <2>3, EmptyFacts DEF ShapeOf, Shape, Working, Serving, Starting
  <2> QED BY <2>4, <2>5, ShapeKept
<1>14. CASE CheckRoom
  <2>1. CASE tick' = NextProject
    BY <2>1, <1>f, NextTickOK DEF NextProject
  <2>2. CASE tick' = [tick EXCEPT !.at = "pass", !.pass = tick.due, !.progress = FALSE]
    <3>1. tick.at = "room"
      BY <1>14 DEF CheckRoom
    <3>2. TickNow(tick', "pass", tick.project, tick.copies, tick.todo, tick.due, tick.due, tick.run)
      BY <1>0, <1>f, <1>p, <2>2, PassNow
    <3>3. Shape("pass", tick.project, tick.copies, tick.todo, tick.due, tick.due, tick.run)
      BY <1>t, <3>1 DEF ShapeOf, Shape, Working, Serving, Starting
    <3> QED BY <3>2, <3>3, ShapeKept
  <2> QED BY <1>14, <2>1, <2>2 DEF CheckRoom
<1>15. CASE PassEnds
  <2>1. tick.at = "pass" /\ tick.pass = <<>> /\ tick' = [tick EXCEPT !.at = "room"]
    BY <1>15 DEF PassEnds
  <2>2. TickNow(tick', "room", tick.project, tick.copies, tick.todo, tick.due, tick.pass, tick.run)
    BY <1>0, <1>p, <2>1, AtNow
  <2>3. Shape("room", tick.project, tick.copies, tick.todo, tick.due, tick.pass, tick.run)
    BY <1>t, <2>1 DEF ShapeOf, Shape, Working, Serving, Starting
  <2> QED BY <2>2, <2>3, ShapeKept
<1>16. ASSUME tick.at \in Serving, tick.pass # <<>>, NEW due,
              due = tick.due \/ due = Without(tick.due, {Served}),
              tick' = Leaves(due) \/ tick' = [Leaves(due) EXCEPT !.progress = TRUE]
       PROVE  TickOK'
  <2>1. /\ due \in Seq(Roles)
        /\ Shape("pass", tick.project, tick.copies, tick.todo, due, Tail(tick.pass), None)
    BY <1>0, <1>16, LeavesShape
  <2>2. TickNow(Leaves(due), "pass", tick.project, tick.copies, tick.todo, due, Tail(tick.pass), None)
    BY <1>0, <1>16, <2>1, LeavesNow
  <2>3. TickNow(tick', "pass", tick.project, tick.copies, tick.todo, due, Tail(tick.pass), None)
    BY <1>16, <2>2, ProgressNow DEF TickNow
  <2> QED BY <2>1, <2>3, ShapeKept
<1>17. CASE NoSeatForRole \/ PreflightRefuses
  BY <1>16, <1>17 DEF NoSeatForRole, PreflightRefuses, Serving
<1>s. tick.at \in Starting => tick.pass # <<>> /\ tick.run \in Runs
  BY <1>t DEF ShapeOf, Shape
<1>18. CASE RunNotStarted \/ DropRejected
  BY <1>16, <1>18, <1>s DEF RunNotStarted, DropRejected, Serving, Starting
<1>r. CASE RunRejected
  <2>1. tick.at = "await" /\ tick' = [tick EXCEPT !.at = "rejected"]
    BY <1>r DEF RunRejected
  <2>2. TickNow(tick', "rejected", tick.project, tick.copies, tick.todo, tick.due, tick.pass, tick.run)
    BY <1>0, <1>p, <2>1, AtNow
  <2>3. Shape("rejected", tick.project, tick.copies, tick.todo, tick.due, tick.pass, tick.run)
    BY <1>t, <2>1 DEF ShapeOf, Shape, Working, Serving, Starting
  <2> QED BY <2>2, <2>3, ShapeKept
<1>19. ASSUME NEW x \in Runs, TickQueuesRun(x) PROVE TickOK'
  <2>1. tick.at = "pass" /\ tick.pass # <<>> /\ tick' = [tick EXCEPT !.at = "await", !.run = x]
    BY <1>19 DEF TickQueuesRun
  <2>2. TickNow(tick', "await", tick.project, tick.copies, tick.todo, tick.due, tick.pass, x)
    BY <1>0, <1>p, <2>1, AwaitNow
  <2>3. Shape("await", tick.project, tick.copies, tick.todo, tick.due, tick.pass, x)
    BY <1>t, <2>1 DEF ShapeOf, Shape, Working, Serving, Starting
  <2> QED BY <2>2, <2>3, ShapeKept
<1>20. CASE RunStarted
  <2> DEFINE i == [tick.copies[Served] EXCEPT !.started = Counted(@, Served)]
             k == [tick.copies EXCEPT ![Served] = i]
  <2>1. tick.at = "await" /\ tick.pass # <<>> /\ tick.run \in Runs
    BY <1>20, <1>s DEF RunStarted, Starting
  <2>2. CASE AtLimit(i, Served)
    BY <1>16, <1>20, <2>1, <2>2 DEF RunStarted, Serving
  <2>3. CASE ~AtLimit(i, Served)
    <3>1. tick' = [tick EXCEPT !.at = "after", !.progress = TRUE, !.copies[Served] = i]
      BY <1>20, <2>3 DEF RunStarted
    <3>2. Served \in Roles /\ Served \in ToSet(tick.due)
      BY <1>0, <2>1, LeavesShape DEF Serving
    <3>3. tick.copies[Served] \in Intent
      BY <1>t, <1>f, <3>2 DEF ShapeOf, Shape, Copies
    <3>4. i \in Intent
      BY <3>3, CountedIntent, <3>2
    <3>5. i # None
      BY <3>4, Somes
    <3>6. TickNow(tick', "after", tick.project, k, tick.todo, tick.due, tick.pass, tick.run)
      <4> HIDE DEF i
      <4> QED BY <1>0, <1>p, <3>1, <3>2, <3>4, AfterNow
    <3>7. \A r \in ToSet(tick.todo) \cup ToSet(tick.due) : k[r] # None
      <4>1. ASSUME NEW r \in ToSet(tick.todo) \cup ToSet(tick.due) PROVE k[r] # None
        <5>1. tick.copies[r] # None
          BY <1>t DEF ShapeOf, Shape
        <5>2. r \in Roles
          <6>1. ToSet(tick.todo) \subseteq Roles /\ ToSet(tick.due) \subseteq Roles
            BY <1>f, ToSetIs
          <6> QED BY <6>1
        <5>3. k[r] = IF r = Served THEN i ELSE tick.copies[r]
          BY <5>2, <1>f DEF Copies
        <5> QED BY <5>1, <5>3, <3>5
      <4> QED BY <4>1
    <3> HIDE DEF i, k
    <3>8. Shape("after", tick.project, k, tick.todo, tick.due, tick.pass, tick.run)
      BY <1>t, <2>1, <3>7 DEF ShapeOf, Shape, Working, Serving, Starting
    <3> QED BY <3>6, <3>8, ShapeKept
  <2> QED BY <2>2, <2>3
<1>21. CASE CountAgain
  <2> DEFINE due == IF RoleRemaining(tick.project, Served) = 0
               THEN Without(tick.due, {Served}) ELSE tick.due
  <2>1. tick.at = "after" /\ tick.pass # <<>> /\ tick.at \in Serving
    BY <1>21, <1>s DEF CountAgain, Starting, Serving
  <2>2. due = tick.due \/ due = Without(tick.due, {Served})
    OBVIOUS
  <2>3. \/ tick' = Leaves(due)
        \/ tick' = [tick EXCEPT !.at = "room", !.due = due, !.pass = <<>>, !.run = None]
    BY <1>21 DEF CountAgain
  <2> HIDE DEF due
  <2>4. CASE tick' = Leaves(due)
    BY <1>16, <2>1, <2>2, <2>4
  <2>5. CASE tick' = [tick EXCEPT !.at = "room", !.due = due, !.pass = <<>>, !.run = None]
    <3>1. /\ due \in Seq(Roles)
          /\ Shape("room", tick.project, tick.copies, tick.todo, due, <<>>, None)
      BY <1>0, <2>1, <2>2, LeavesShape
    <3>2. TickNow(tick', "room", tick.project, tick.copies, tick.todo, due, <<>>, None)
      BY <1>0, <1>p, <2>5, <3>1, FullNow
    <3> QED BY <3>1, <3>2, ShapeKept
  <2> QED BY <2>3, <2>4, <2>5
<1>22. CASE Dispatcher
  BY <1>4, <1>5, <1>6, <1>7, <1>8, <1>9, <1>10, <1>11, <1>12, <1>13, <1>14, <1>15, <1>17, <1>18,
     <1>r, <1>19, <1>20, <1>21, <1>22 DEF Dispatcher
<1> QED BY <1>1, <1>2, <1>3, <1>22, TickMoves

-----------------------------------------------------------------------------
(* A command stays what its steps rely on.                                 *)

CommandShape(at, project, todo, granted, taken) ==
  /\ at # "idle" => project \in Projects
  /\ at = "confirm" => taken # None
  /\ at \in {"start", "await"} =>
       /\ IsInjective(todo)
       /\ \A r \in ToSet(todo) : granted[r] > 0
  /\ at = "await" => todo # <<>>
CommandShapeOf(k) == CommandShape(k.at, k.project, k.todo, k.granted, k.taken)

CommandOK == cmd \in [Clients -> Command] /\ CommandInv

LEMMA CommandOKIs ==
  CommandOK <=> cmd \in [Clients -> Command] /\ \A c \in Clients : CommandShapeOf(cmd[c])
  BY DEF CommandOK, CommandInv, CommandShape, CommandShapeOf

LEMMA CommandShapeKept ==
  ASSUME CommandOK, NEW c \in Clients, NEW k, cmd' = [cmd EXCEPT ![c] = k],
         NEW at, NEW project, NEW todo, NEW granted, NEW plan, NEW taken, NEW run,
         CommandNow(k, at, project, todo, granted, plan, taken, run),
         CommandShape(at, project, todo, granted, taken)
  PROVE  CommandOK'
<1>1. k \in Command /\ CommandShapeOf(k)
  BY DEF CommandNow, CommandShapeOf
<1>2. cmd \in [Clients -> Command] /\ \A d \in Clients : CommandShapeOf(cmd[d])
  BY CommandOKIs
<1>3. cmd' \in [Clients -> Command]
  BY <1>1, <1>2
<1>4. \A d \in Clients : CommandShapeOf(cmd'[d])
  BY <1>1, <1>2
<1>5. CommandOK' <=> cmd' \in [Clients -> Command] /\ \A d \in Clients : CommandShapeOf(cmd'[d])
  BY DEF CommandOK, CommandInv, CommandShape, CommandShapeOf
<1> QED BY <1>3, <1>4, <1>5

LEMMA CommandMoves ==
  ASSUME [Next]_vars
  PROVE  \/ cmd' = cmd
         \/ \E c \in Clients : ConfigWrite(c) \/ Manual(c) \/ CommandDies(c)
<1>1. CASE UNCHANGED vars
  BY <1>1 DEF vars
<1>2. CASE Dispatcher
  <2>1. ASSUME WatcherMarks \/ WatcherEnds \/ TickAllProjects \/ ReadConfiguration \/ TickEnds
               \/ TickReturns \/ ListIntents \/ DropUnwanted \/ MarkDue
        PROVE  cmd' = cmd
    BY <2>1 DEF WatcherMarks, WatcherEnds, TickAllProjects, ReadConfiguration, TickEnds,
                TickReturns, ListIntents, DropUnwanted, MarkDue
  <2>2. ASSUME SortsDueIntents \/ CheckRoom \/ PassEnds \/ NoSeatForRole \/ PreflightRefuses
               \/ (\E x \in Runs : TickQueuesRun(x))
        PROVE  cmd' = cmd
    BY <2>2 DEF SortsDueIntents, CheckRoom, PassEnds, NoSeatForRole, PreflightRefuses, TickQueuesRun
  <2>3. ASSUME RunNotStarted \/ RunRejected \/ DropRejected \/ RunStarted \/ CountAgain
        PROVE  cmd' = cmd
    BY <2>3 DEF RunNotStarted, RunRejected, DropRejected, RunStarted, CountAgain
  <2> QED BY <1>2, <2>1, <2>2, <2>3 DEF Dispatcher
<1>3. CASE Environment
  <2>1. ASSUME NEW x, \/ RunServes(x) \/ RunGivesUp(x) \/ RunEnds(x)
                      \/ RunDropped(x) \/ RunAdopted(x)
        PROVE  cmd' = cmd
    BY <2>1 DEF RunServes, RunGivesUp, RunEnds, RunDropped, RunAdopted
  <2>2. ASSUME NEW late, TimePasses(late) PROVE cmd' = cmd
    BY <2>2 DEF TimePasses
  <2>3. ASSUME NEW p, WatcherLists(p) \/ SetPaused(p) \/ SetConsent(p) PROVE cmd' = cmd
    BY <2>3 DEF WatcherLists, SetPaused, SetConsent
  <2>4. ASSUME NEW i, PlanExpires(i) PROVE cmd' = cmd
    BY <2>4 DEF PlanExpires
  <2>5. ASSUME DispatcherDies PROVE cmd' = cmd
    BY <2>5 DEF DispatcherDies
  <2> QED BY <1>3, <2>1, <2>2, <2>3, <2>4, <2>5 DEF Environment
<1> QED BY <1>1, <1>2, <1>3 DEF Next

\* The runs that hold a slot are counted in numbers.
LEMMA CountsTyped ==
  ASSUME TypeOK, IsFiniteSet({x \in Runs : runs[x] # None})
  PROVE  /\ IsFiniteSet(Held)
         /\ \A S \in SUBSET Held : IsFiniteSet(S) /\ Cardinality(S) \in Nat
         /\ \A p \in Projects : Room(p) \in Nat
         /\ \A p \in Projects, r \in Roles : RoleRemaining(p, r) \in Nat
<1> DEFINE F == {x \in Runs : runs[x] # None}
<1>1. Held \in SUBSET F
  BY DEF Held, RunsIn, Occupying
<1> HIDE DEF F
<1>2. IsFiniteSet(F)
  BY DEF F
<1>3. \A S \in SUBSET Held : IsFiniteSet(S) /\ Cardinality(S) \in Nat
  <2>1. ASSUME NEW S \in SUBSET Held PROVE IsFiniteSet(S) /\ Cardinality(S) \in Nat
    <3>1. IsFiniteSet(S)
      BY <1>1, <1>2, FS_Subset
    <3> QED BY <3>1, FS_CardinalityType
  <2> QED BY <2>1
<1>4. \A n \in Int : Above0(n) \in Nat
  BY DEF Above0
<1>5. \A p \in Projects, r \in Roles : RoleRemaining(p, r) \in Nat
  <2>1. ASSUME NEW p \in Projects, NEW r \in Roles PROVE RoleRemaining(p, r) \in Nat
    <3> DEFINE S == {x \in Held : runs[x].project = p /\ runs[x].role = r}
    <3>1. S \in SUBSET Held
      OBVIOUS
    <3>2. RoleRemaining(p, r) = Above0(RoleMax[r] - Cardinality(S))
      BY DEF RoleRemaining
    <3> HIDE DEF S
    <3> QED BY <1>3, <1>4, <3>1, <3>2, LimitsAssumption
  <2> QED BY <2>1
<1>6. \A p \in Projects : Room(p) \in Nat
  <2>1. ASSUME NEW p \in Projects PROVE Room(p) \in Nat
    <3> DEFINE S == {x \in Held : runs[x].project = p}
    <3>1. S \in SUBSET Held
      OBVIOUS
    <3>2. ProjectRemaining(p) = Above0(ProjectMax[p] - Cardinality(S))
      BY DEF ProjectRemaining
    <3> HIDE DEF S
    <3>3. ProjectRemaining(p) \in Nat
      BY <1>3, <1>4, <3>1, <3>2, LimitsAssumption
    <3>4. DeviceRemaining \in Nat
      BY <1>3, <1>4, LimitsAssumption DEF DeviceRemaining
    <3> QED BY <3>3, <3>4 DEF Room, Smaller
  <2> QED BY <2>1
<1> QED BY <1>3, <1>5, <1>6

LEMMA RolesOrdered ==
  ASSUME NEW S
  PROVE  /\ Keep(RoleOrder, S) \in Seq(Roles) /\ IsInjective(Keep(RoleOrder, S))
         /\ ToSet(Keep(RoleOrder, S)) \subseteq S
  BY OrderAssumption, KeepFacts

\* The roles left to start, after one of them has got a run or is over.
LEMMA LeftShape ==
  ASSUME NEW k \in Command, k.at \in {"start", "await"}, k.todo # <<>>, CommandShapeOf(k),
         NEW n \in Nat, NEW todo, todo = Tail(k.todo) \/ (todo = k.todo /\ n > 0)
  PROVE  /\ todo \in Seq(Roles) /\ Head(k.todo) \in Roles
         /\ CommandShape("start", k.project, todo, [k.granted EXCEPT ![Head(k.todo)] = n], k.taken)
<1> DEFINE r == Head(k.todo)
           g == [k.granted EXCEPT ![r] = n]
<1>1. k.todo \in Seq(Roles) /\ k.granted \in Grants
  BY CommandFields
<1>2. /\ k.project \in Projects /\ IsInjective(k.todo)
      /\ \A s \in ToSet(k.todo) : k.granted[s] > 0
  BY DEF CommandShapeOf, CommandShape
<1>3. /\ r \in Roles /\ Tail(k.todo) \in Seq(Roles) /\ IsInjective(Tail(k.todo))
      /\ r \notin ToSet(Tail(k.todo)) /\ ToSet(Tail(k.todo)) \subseteq ToSet(k.todo)
      /\ ToSet(k.todo) \subseteq Roles
  BY <1>1, <1>2, TailFacts, ToSetIs
<1>4. \A s \in Roles : g[s] = IF s = r THEN n ELSE k.granted[s]
  BY <1>1, <1>3 DEF Grants
<1> HIDE DEF g, r
<1>5. CASE todo = Tail(k.todo)
  <2>1. \A s \in ToSet(todo) : g[s] > 0
    BY <1>2, <1>3, <1>4, <1>5
  <2>2. CommandShape("start", k.project, todo, g, k.taken)
    BY <1>2, <1>3, <1>5, <2>1 DEF CommandShape
  <2> QED BY <1>3, <1>5, <2>2 DEF g, r
<1>6. CASE todo = k.todo /\ n > 0
  <2>1. \A s \in ToSet(todo) : g[s] > 0
    BY <1>2, <1>3, <1>4, <1>6
  <2>2. CommandShape("start", k.project, todo, g, k.taken)
    BY <1>2, <1>6, <2>1 DEF CommandShape
  <2> QED BY <1>1, <1>3, <1>6, <2>2 DEF g, r
<1> QED BY <1>5, <1>6

LEMMA CommandKept ==
  ASSUME TypeOK, CommandInv, IsFiniteSet({x \in Runs : runs[x] # None}), [Next]_vars
  PROVE  CommandOK'
<1>0. CommandOK /\ cmd \in [Clients -> Command]
  BY DEF CommandOK, TypeOK
<1>p. /\ "sync" \in CommandPc /\ "drop" \in CommandPc /\ "activate" \in CommandPc
      /\ "budget" \in CommandPc /\ "grant" \in CommandPc /\ "take" \in CommandPc
      /\ "confirm" \in CommandPc /\ "start" \in CommandPc /\ "await" \in CommandPc
      /\ "retry" \in CommandPc /\ "retried" \in CommandPc
  BY DEF CommandPc
<1>1. CASE cmd' = cmd
  BY <1>0, <1>1 DEF CommandOK, CommandInv
<1>2. SUFFICES ASSUME NEW c \in Clients, ConfigWrite(c) \/ Manual(c) \/ CommandDies(c)
               PROVE  CommandOK'
  BY <1>1, CommandMoves
<1> DEFINE k == cmd[c]
<1>k. k \in Command
  BY <1>0
<1>f. /\ k.at \in CommandPc /\ k.project \in Projects \cup {None}
      /\ k.configuration \in Configuration /\ k.todo \in Seq(Roles)
      /\ k.want \in Grants /\ k.granted \in Grants /\ k.budget \in Nat
      /\ k.plan \in PlanIds \cup {None} /\ k.taken \in Plan \cup {None}
  BY <1>k, CommandFields
<1>s. CommandShapeOf(k)
  BY <1>0, CommandOKIs
<1>h. /\ k.at # "idle" => k.project \in Projects
      /\ k.at = "confirm" => k.taken # None
      /\ k.at = "await" => k.todo # <<>>
  BY <1>s DEF CommandShapeOf, CommandShape
\* The shapes of the steps.
<1>3. ASSUME cmd' = [cmd EXCEPT ![c] = CommandIdle] PROVE CommandOK'
  <2>1. CommandShape("idle", None, <<>>, NoGrants, None)
    BY DEF CommandShape
  <2> QED BY <1>0, <1>3, <2>1, CommandIdleNow, CommandShapeKept
<1>4. ASSUME NEW at \in {"sync", "budget", "take", "retry"}, NEW p \in Projects,
             NEW g \in Configuration,
             cmd' = [cmd EXCEPT ![c] = [CommandIdle EXCEPT !.at = at, !.project = p,
                                                           !.configuration = g]]
      PROVE  CommandOK'
  <2> DEFINE n == [CommandIdle EXCEPT !.at = at, !.project = p, !.configuration = g]
  <2>1. CommandNow(n, at, p, <<>>, NoGrants, None, None, None)
    BY <1>p, BegunNow
  <2>2. CommandShape(at, p, <<>>, NoGrants, None)
    BY DEF CommandShape
  <2>3. cmd' = [cmd EXCEPT ![c] = n]
    BY <1>4
  <2> HIDE DEF n
  <2> QED BY <1>0, <2>1, <2>2, <2>3, CommandShapeKept
<1>5. ASSUME NEW n, NEW at \in {"drop", "activate", "grant", "retried"},
             NEW todo, NEW granted, NEW run,
             CommandNow(n, at, k.project, todo, granted, k.plan, k.taken, run),
             cmd' = [cmd EXCEPT ![c] = n], k.at # "idle"
      PROVE  CommandOK'
  <2>1. CommandShape(at, k.project, todo, granted, k.taken)
    BY <1>5, <1>h DEF CommandShape
  <2> HIDE DEF k
  <2> QED BY <1>0, <1>5, <2>1, CommandShapeKept
<1>6. CASE ConfigWrite(c)
  <2>1. ASSUME NEW p \in Projects, NEW new \in Configuration, WriteConfiguration(c, p, new)
        PROVE  CommandOK'
    BY <2>1, <1>4 DEF WriteConfiguration
  <2>2. CASE SyncLists(c)
    <3> DEFINE todo == Keep(RoleOrder, k.configuration.continuous \ WithIntent(k.project))
               n == [k EXCEPT !.at = "drop", !.todo = todo]
    <3>1. cmd' = [cmd EXCEPT ![c] = n] /\ k.at = "sync"
      BY <2>2, <1>0 DEF SyncLists
    <3>2. CommandNow(n, "drop", k.project, todo, k.granted, k.plan, k.taken, k.run)
      BY <1>k, <1>p, RolesOrdered, ToDoNow
    <3> HIDE DEF k, n, todo
    <3> QED BY <1>5, <3>1, <3>2
  <2>3. CASE SyncDrops(c)
    <3> DEFINE n == [k EXCEPT !.at = "activate"]
    <3>1. cmd' = [cmd EXCEPT ![c] = n] /\ k.at = "drop"
      BY <2>3, <1>0 DEF SyncDrops, Goes
    <3>2. CommandNow(n, "activate", k.project, k.todo, k.granted, k.plan, k.taken, k.run)
      BY <1>k, <1>p, GoneNow
    <3> HIDE DEF k, n
    <3> QED BY <1>5, <3>1, <3>2
  <2>4. CASE SyncEnds(c)
    BY <2>4, <1>3 DEF SyncEnds, Ends
  <2>5. ASSUME NEW a \in Activations, Activate(c, a) PROVE CommandOK'
    <3> DEFINE n == [k EXCEPT !.todo = Tail(@)]
    <3>1. cmd' = [cmd EXCEPT ![c] = n] /\ k.at = "activate" /\ k.todo # <<>>
      BY <2>5, <1>0 DEF Activate
    <3>2. CommandNow(n, "activate", k.project, Tail(k.todo), k.granted, k.plan, k.taken, k.run)
      BY <1>k, <3>1, DoneOneNow
    <3> HIDE DEF k, n
    <3> QED BY <1>5, <3>1, <3>2
  <2> QED BY <1>6, <2>1, <2>2, <2>3, <2>4, <2>5 DEF ConfigWrite
<1>7. ASSUME NEW p \in Projects, PlanReads(c, p) \/ StartReads(c, p) \/ RetryReads(c, p)
      PROVE  CommandOK'
  <2>1. configuration[p] \in Configuration
    BY DEF TypeOK
  <2> QED BY <1>4, <1>7, <2>1 DEF PlanReads, StartReads, RetryReads, Begins
<1>8. ASSUME NEW want \in Requests, PlanCounts(c, want) PROVE CommandOK'
  <2> DEFINE todo == Keep(RoleOrder, {r \in Roles : want[r] > 0})
             b == Room(k.project)
             n == [k EXCEPT !.at = "grant", !.budget = b, !.want = want, !.todo = todo]
  <2>1. cmd' = [cmd EXCEPT ![c] = n] /\ k.at = "budget"
    BY <1>8, <1>0 DEF PlanCounts
  <2>2. b \in Nat
    BY <1>h, <2>1, CountsTyped
  <2>3. want \in Grants
    BY RequestsAssumption DEF Grants
  <2>4. CommandNow(n, "grant", k.project, todo, k.granted, k.plan, k.taken, k.run)
    <3> HIDE DEF b
    <3> QED BY <1>k, <1>p, <2>2, <2>3, RolesOrdered, BudgetNow
  <2> HIDE DEF k, n, todo, b
  <2> QED BY <1>5, <2>1, <2>4
<1>9. ASSUME NEW available \in BOOLEAN, PlanGrants(c, available) PROVE CommandOK'
  <2> DEFINE r == Head(k.todo)
             least == Smaller(Smaller(k.want[r], RoleRemaining(k.project, r)), k.budget)
             limited == IF ExecutionLimit[r] > 0 THEN Smaller(least, ExecutionLimit[r]) ELSE least
             m == IF available /\ ~k.configuration.paused THEN limited ELSE 0
             b == k.budget - m
             n == Granting(k, Tail(k.todo), b, r, m)
  <2>1. cmd' = [cmd EXCEPT ![c] = n] /\ k.at = "grant" /\ k.todo # <<>>
    BY <1>9, <1>0 DEF PlanGrants, Granting
  <2>2. r \in Roles /\ Tail(k.todo) \in Seq(Roles)
    BY <1>f, <2>1, TailFacts
  <2>3. RoleRemaining(k.project, r) \in Nat /\ k.want[r] \in Nat /\ ExecutionLimit[r] \in Nat
    BY <1>f, <1>h, <2>1, <2>2, CountsTyped, LimitsAssumption DEF Grants
  <2>4. m \in Nat /\ m <= k.budget
    <3> HIDE DEF r
    <3> QED BY <1>f, <2>3 DEF Smaller
  <2> HIDE DEF r, m
  <2>5. b \in Nat
    BY <1>f, <2>4
  <2> HIDE DEF b, k
  <2>6. CommandNow(n, "grant", k.project, Tail(k.todo), [k.granted EXCEPT ![r] = m],
                   k.plan, k.taken, k.run)
    BY <1>k, <2>1, <2>2, <2>4, <2>5, GrantedNow
  <2> HIDE DEF n
  <2> QED BY <1>5, <2>1, <2>6
<1>10. ASSUME NEW i \in PlanIds, TakePlan(c, i) PROVE CommandOK'
  <2> DEFINE n == [k EXCEPT !.at = "confirm", !.plan = i, !.taken = plans[i]]
  <2>1. cmd' = [cmd EXCEPT ![c] = n] /\ k.at = "take" /\ plans[i] # None
    BY <1>10, <1>0 DEF TakePlan
  <2>2. plans[i] \in Plan
    BY <2>1 DEF TypeOK
  <2>3. CommandNow(n, "confirm", k.project, k.todo, k.granted, i, plans[i], k.run)
    BY <1>k, <1>p, <2>2, TakenNow
  <2>4. CommandShape("confirm", k.project, k.todo, k.granted, plans[i])
    BY <1>h, <2>1 DEF CommandShape
  <2> HIDE DEF k, n
  <2> QED BY <1>0, <2>1, <2>3, <2>4, CommandShapeKept
<1>11. CASE ConfirmPlan(c)
  <2> DEFINE g == k.taken.granted
             todo == Keep(RoleOrder, {r \in Roles : g[r] > 0})
             n == [k EXCEPT !.at = "start", !.taken = None, !.granted = g, !.todo = todo]
  <2>1. cmd' = [cmd EXCEPT ![c] = n] /\ k.at = "confirm"
    BY <1>11, <1>0 DEF ConfirmPlan
  <2>2. k.taken \in Plan
    BY <1>f, <1>h, <2>1
  <2>3. g \in Grants
    BY <2>2 DEF Plan, Grants
  <2> HIDE DEF g
  <2>4. /\ todo \in Seq(Roles) /\ IsInjective(todo) /\ ToSet(todo) \subseteq {r \in Roles : g[r] > 0}
    BY RolesOrdered
  <2> HIDE DEF todo
  <2>5. CommandNow(n, "start", k.project, todo, g, k.plan, None, k.run)
    BY <1>k, <1>p, <2>3, <2>4, ConfirmedNow
  <2>6. CommandShape("start", k.project, todo, g, None)
    BY <1>h, <2>1, <2>4 DEF CommandShape
  <2> HIDE DEF k, n
  <2> QED BY <1>0, <2>1, <2>5, <2>6, CommandShapeKept
<1>12. ASSUME NEW x \in Runs, StartQueuesRun(c, x) PROVE CommandOK'
  <2> DEFINE n == [k EXCEPT !.at = "await", !.run = x]
  <2>1. cmd' = [cmd EXCEPT ![c] = n] /\ k.at = "start" /\ k.todo # <<>>
    BY <1>12, <1>0 DEF StartQueuesRun
  <2>2. CommandNow(n, "await", k.project, k.todo, k.granted, k.plan, k.taken, x)
    BY <1>k, <1>p, QueuedNow
  <2>3. CommandShape("await", k.project, k.todo, k.granted, k.taken)
    BY <1>s, <2>1 DEF CommandShapeOf, CommandShape
  <2> HIDE DEF k, n
  <2> QED BY <1>0, <2>1, <2>2, <2>3, CommandShapeKept
<1>13. ASSUME NEW x \in Runs, NEW r \in Roles, RetryQueuesRun(c, x, r) PROVE CommandOK'
  <2> DEFINE n == [k EXCEPT !.at = "retried", !.run = x]
  <2>1. cmd' = [cmd EXCEPT ![c] = n] /\ k.at = "retry"
    BY <1>13, <1>0 DEF RetryQueuesRun
  <2>2. CommandNow(n, "retried", k.project, k.todo, k.granted, k.plan, k.taken, x)
    BY <1>k, <1>p, QueuedNow
  <2> HIDE DEF k, n
  <2> QED BY <1>5, <2>1, <2>2
<1>15. CASE StartedOne(c)
  <2> DEFINE r == Head(k.todo)
             left == k.granted[r] - 1
             todo == IF left = 0 THEN Tail(k.todo) ELSE k.todo
  <2>1. k.at = "await" /\ k.todo # <<>>
    BY <1>15, <1>h DEF StartedOne
  <2> DEFINE n == Leaving(k, r, left, todo)
  <2>2. cmd' = [cmd EXCEPT ![c] = n]
    BY <1>15, <1>0 DEF StartedOne, Leaving
  <2>3. r \in ToSet(k.todo) /\ r \in Roles
    BY <1>f, <2>1, TailFacts
  <2>4. left \in Nat /\ (todo = Tail(k.todo) \/ (todo = k.todo /\ left > 0))
    <3>1. k.granted[r] \in Nat /\ k.granted[r] > 0
      BY <1>f, <1>s, <2>1, <2>3 DEF CommandShapeOf, CommandShape, Grants
    <3> HIDE DEF r
    <3> QED BY <3>1
  <2> HIDE DEF left, todo, k
  <2>5. /\ todo \in Seq(Roles)
        /\ CommandShape("start", k.project, todo, [k.granted EXCEPT ![r] = left], k.taken)
    BY <1>k, <1>s, <2>1, <2>4, LeftShape
  <2>6. CommandNow(n, "start", k.project, todo, [k.granted EXCEPT ![r] = left], k.plan, k.taken, None)
    <3> HIDE DEF r
    <3> QED BY <1>k, <2>3, <2>4, <2>5, LeftNow
  <2> HIDE DEF n, r
  <2> QED BY <1>0, <2>2, <2>5, <2>6, CommandShapeKept
<1>16. CASE StartLeavesRole(c)
  <2>1. k.at \in {"start", "await"} /\ k.todo # <<>>
    BY <1>16, <1>h DEF StartLeavesRole
  <2> DEFINE r == Head(k.todo)
             todo == Tail(k.todo)
             n == Leaving(k, r, 0, todo)
  <2>2. cmd' = [cmd EXCEPT ![c] = n]
    BY <1>16, <1>0 DEF StartLeavesRole, Leaving
  <2> HIDE DEF k
  <2>3. /\ todo \in Seq(Roles) /\ r \in Roles
        /\ CommandShape("start", k.project, todo, [k.granted EXCEPT ![r] = 0], k.taken)
    BY <1>k, <1>s, <2>1, LeftShape
  <2> HIDE DEF r, todo
  <2>4. CommandNow(n, "start", k.project, todo, [k.granted EXCEPT ![r] = 0], k.plan, k.taken, None)
    BY <1>k, <2>3, LeftNow
  <2> HIDE DEF n
  <2> QED BY <1>0, <2>2, <2>3, <2>4, CommandShapeKept
<1>17. CASE \/ \E i \in PlanIds : PlanSaves(c, i)
            \/ PlanNotFound(c) \/ RuntimeChanged(c) \/ StartEnds(c) \/ RetryEnds(c)
            \/ CommandDies(c)
  BY <1>17, <1>3 DEF PlanSaves, PlanNotFound, RuntimeChanged, StartEnds, RetryEnds, CommandDies, Ends
<1>18. CASE Manual(c)
  BY <1>18, <1>7, <1>8, <1>9, <1>10, <1>11, <1>12, <1>13, <1>15, <1>16, <1>17 DEF Manual
<1> QED BY <1>2, <1>6, <1>17, <1>18

-----------------------------------------------------------------------------
(* The tables stay tables.                                                 *)

\* What a tick has listed, and what it serves.
LEMMA TickWorks ==
  ASSUME TypeOK, TickInv, RoundInv
  PROVE  /\ tick.at \in {"wake", "marking"} /\ tick.todo # <<>> =>
              /\ tick.project \in Projects /\ Listed \in Roles /\ Listed \in ToSet(tick.todo)
              /\ tick.copies[Listed] \in Intent
         /\ tick.at \in Serving /\ tick.pass # <<>> =>
              /\ tick.project \in Projects /\ Served \in Roles /\ Served \in ToSet(tick.due)
              /\ tick.copies[Served] \in Intent /\ tick.todo = <<>>
         /\ tick.at \in Starting => tick.pass # <<>> /\ tick.run \in Runs
<1>1. /\ tick.copies \in Copies
      /\ tick.todo \in Seq(Roles) /\ tick.due \in Seq(Roles) /\ tick.pass \in Seq(Roles)
  BY TickFields DEF TypeOK
<1>2. ShapeOf(tick)
  BY TickOKIs DEF TickOK, TypeOK
<1>3. ASSUME tick.at \in {"wake", "marking"}, tick.todo # <<>>
      PROVE  /\ tick.project \in Projects /\ Listed \in Roles /\ Listed \in ToSet(tick.todo)
             /\ tick.copies[Listed] \in Intent
  <2>1. Listed \in Roles /\ Listed \in ToSet(tick.todo)
    BY <1>1, <1>3, TailFacts DEF Listed
  <2> QED BY <1>1, <1>2, <1>3, <2>1 DEF ShapeOf, Shape, Copies
<1>4. ASSUME tick.at \in Serving, tick.pass # <<>>
      PROVE  /\ tick.project \in Projects /\ Served \in Roles /\ Served \in ToSet(tick.due)
             /\ tick.copies[Served] \in Intent /\ tick.todo = <<>>
  <2>1. Served \in Roles /\ Served \in ToSet(tick.pass)
    BY <1>1, <1>4, TailFacts DEF Served
  <2>2. Served \in ToSet(tick.due)
    BY <1>2, <2>1 DEF ShapeOf, Shape
  <2> QED BY <1>1, <1>2, <1>4, <2>1, <2>2 DEF ShapeOf, Shape, Copies, Serving, Working
<1>5. tick.at \in Starting => tick.pass # <<>> /\ tick.run \in Runs
  BY <1>2 DEF ShapeOf, Shape
<1> QED BY <1>3, <1>4, <1>5

LEMMA CommandWorks ==
  ASSUME TypeOK, CommandInv, NEW c \in Clients
  PROVE  /\ cmd[c].at # "idle" => cmd[c].project \in Projects
         /\ cmd[c].todo # <<>> => Head(cmd[c].todo) \in Roles
<1>1. cmd[c].todo \in Seq(Roles)
  BY CommandFields DEF TypeOK
<1> QED BY <1>1, TailFacts DEF CommandInv

\* The copies a tick may still write back.
Live(t) == ToSet(t.todo) \cup ToSet(t.due)

SameCount(i, j) == i.id = j.id /\ i.started = j.started

\* A row replaced by the copy of it, which says the same of its activation.
Renews(p, r, i) == p = tick.project /\ r \in Live(tick) /\ SameCount(i, tick.copies[r])

\* How the rows of intents change.
LEMMA IntentsMove ==
  ASSUME TypeOK, TickInv, RoundInv, CommandInv, [Next]_vars
  PROVE  \/ intents' = intents
         \/ \E p \in Projects, r \in Roles, i \in Intent : SaveIntent(p, r, i) /\ Renews(p, r, i)
         \/ \E p \in Projects, r \in Roles, i \in Intent : SaveIntent(p, r, i) /\ RunStarted
         \/ \E p \in Projects, r \in Roles, i \in Intent :
              SaveIntent(p, r, i) /\ \E c \in Clients, a \in Activations : Activate(c, a)
         \/ \E id \in Activations : intents' = WithoutIntent(id)
         \/ \E late : TimePasses(late)
         \/ \E c \in Clients : SyncDrops(c)
<1> DEFINE G == \/ intents' = intents
                \/ \E p \in Projects, r \in Roles, i \in Intent :
                     SaveIntent(p, r, i) /\ Renews(p, r, i)
                \/ \E p \in Projects, r \in Roles, i \in Intent : SaveIntent(p, r, i) /\ RunStarted
                \/ \E p \in Projects, r \in Roles, i \in Intent :
                     SaveIntent(p, r, i) /\ \E c \in Clients, a \in Activations : Activate(c, a)
                \/ \E id \in Activations : intents' = WithoutIntent(id)
                \/ \E late : TimePasses(late)
                \/ \E c \in Clients : SyncDrops(c)
<1>1. CASE UNCHANGED vars
  BY <1>1 DEF vars, rows
<1>2. CASE Dispatcher
  <2>1. ASSUME WatcherEnds \/ TickAllProjects \/ ReadConfiguration \/ TickEnds
               \/ TickReturns \/ ListIntents
        PROVE  intents' = intents
    BY <2>1 DEF WatcherEnds, TickAllProjects, ReadConfiguration, TickEnds,
                TickReturns, ListIntents, rows
  <2>2. ASSUME SortsDueIntents \/ CheckRoom \/ PassEnds \/ NoSeatForRole \/ CountAgain
               \/ (\E x \in Runs : TickQueuesRun(x))
        PROVE  intents' = intents
    BY <2>2 DEF SortsDueIntents, CheckRoom, PassEnds, NoSeatForRole, TickQueuesRun, CountAgain, rows
  <2>3. ASSUME WatcherMarks PROVE G
    <3> DEFINE i == [tick.copies[Listed] EXCEPT !.due = TRUE]
    <3>1. SaveIntent(tick.project, Listed, i) /\ tick.at = "wake" /\ tick.todo # <<>>
      BY <2>3 DEF WatcherMarks
    <3>2. /\ i \in Intent /\ tick.project \in Projects /\ Listed \in Roles
          /\ SameCount(i, tick.copies[Listed]) /\ Listed \in Live(tick)
      BY <3>1, TickWorks DEF Intent, SameCount, Live
    <3> HIDE DEF i
    <3> QED BY <3>1, <3>2 DEF Renews
  <2>4. ASSUME DropUnwanted PROVE G
    <3>1. tick.copies[Listed].id \in Activations
      BY <2>4, TickWorks DEF DropUnwanted, Intent
    <3> QED BY <2>4, <3>1 DEF DropUnwanted
  <2>5. ASSUME MarkDue PROVE G
    <3> DEFINE i == [tick.copies[Listed] EXCEPT !.due = FALSE]
    <3>1. (SaveIntent(tick.project, Listed, i) \/ intents' = intents)
          /\ tick.at = "marking" /\ tick.todo # <<>>
      BY <2>5 DEF MarkDue
    <3>2. /\ i \in Intent /\ tick.project \in Projects /\ Listed \in Roles
          /\ SameCount(i, tick.copies[Listed]) /\ Listed \in Live(tick)
      BY <3>1, TickWorks DEF Intent, SameCount, Live
    <3> HIDE DEF i
    <3> QED BY <3>1, <3>2 DEF Renews
  <2>6. ASSUME PreflightRefuses \/ RunNotStarted \/ RunRejected PROVE G
    <3>1. SaveIntent(tick.project, Served, tick.copies[Served]) /\ tick.at \in Serving /\ tick.pass # <<>>
      BY <2>6, TickWorks DEF PreflightRefuses, RunNotStarted, RunRejected, Serving, Starting
    <3>2. /\ tick.copies[Served] \in Intent /\ tick.project \in Projects /\ Served \in Roles
          /\ Served \in Live(tick)
      BY <3>1, TickWorks DEF Live
    <3> QED BY <3>1, <3>2 DEF Renews, SameCount
  <2>7. ASSUME DropRejected \/ RunStarted PROVE G
    <3> DEFINE i == [tick.copies[Served] EXCEPT !.started = Counted(@, Served)]
    <3>1. tick.at \in Serving /\ tick.at \in Starting
      BY <2>7 DEF DropRejected, RunStarted, Serving, Starting
    <3>2. tick.copies[Served] \in Intent /\ Served \in Roles /\ tick.project \in Projects
      BY <3>1, TickWorks
    <3>3. i \in Intent /\ tick.copies[Served].id \in Activations /\ i.id \in Activations
      BY <3>2, CountedIntent DEF Intent
    <3>4. CASE DropRejected
      BY <3>3, <3>4 DEF DropRejected
    <3>5. CASE RunStarted
      BY <3>2, <3>3, <3>5 DEF RunStarted
    <3> QED BY <2>7, <3>4, <3>5
  <2> QED BY <1>2, <2>1, <2>2, <2>3, <2>4, <2>5, <2>6, <2>7 DEF Dispatcher
<1>3. CASE Environment
  <2>1. ASSUME NEW x, \/ RunServes(x) \/ RunGivesUp(x) \/ RunEnds(x)
                      \/ RunDropped(x) \/ RunAdopted(x)
        PROVE  intents' = intents
    BY <2>1 DEF RunServes, RunGivesUp, RunEnds, RunDropped, RunAdopted
  <2>2. ASSUME NEW p, WatcherLists(p) \/ SetPaused(p) \/ SetConsent(p) PROVE intents' = intents
    BY <2>2 DEF WatcherLists, SetPaused, SetConsent, rows
  <2>3. ASSUME NEW i, PlanExpires(i) PROVE intents' = intents
    BY <2>3 DEF PlanExpires
  <2>4. ASSUME DispatcherDies \/ \E c \in Clients : CommandDies(c) PROVE intents' = intents
    BY <2>4 DEF DispatcherDies, CommandDies, rows
  <2> QED BY <1>3, <2>1, <2>2, <2>3, <2>4 DEF Environment
<1>4. ASSUME NEW c \in Clients, ConfigWrite(c) PROVE G
  <2>1. ASSUME NEW p \in Projects, NEW new \in Configuration, WriteConfiguration(c, p, new)
        PROVE  intents' = intents
    BY <2>1 DEF WriteConfiguration
  <2>2. ASSUME SyncLists(c) \/ SyncEnds(c) PROVE intents' = intents
    BY <2>2 DEF SyncLists, SyncEnds, rows
  <2>3. ASSUME NEW a \in Activations, Activate(c, a) PROVE G
    <3> DEFINE i == [id |-> a, started |-> 0, due |-> TRUE]
    <3>1. i \in Intent
      BY DEF Intent
    <3>2. cmd[c].project \in Projects /\ Head(cmd[c].todo) \in Roles
      BY <2>3, CommandWorks DEF Activate
    <3>3. SaveIntent(cmd[c].project, Head(cmd[c].todo), i)
      BY <2>3 DEF Activate
    <3> HIDE DEF i
    <3> QED BY <2>3, <3>1, <3>2, <3>3
  <2> QED BY <1>4, <2>1, <2>2, <2>3 DEF ConfigWrite
<1>5. ASSUME NEW c \in Clients, Manual(c) PROVE intents' = intents
  <2>1. ASSUME NEW p, PlanReads(c, p) \/ StartReads(c, p) \/ RetryReads(c, p) PROVE intents' = intents
    BY <2>1 DEF PlanReads, StartReads, RetryReads, rows
  <2>2. ASSUME NEW want, PlanCounts(c, want) PROVE intents' = intents
    BY <2>2 DEF PlanCounts, rows
  <2>3. ASSUME NEW available, PlanGrants(c, available) PROVE intents' = intents
    BY <2>3 DEF PlanGrants, rows
  <2>4. ASSUME NEW i, PlanSaves(c, i) \/ TakePlan(c, i) PROVE intents' = intents
    BY <2>4 DEF PlanSaves, TakePlan
  <2>5. ASSUME PlanNotFound(c) \/ RuntimeChanged(c) \/ ConfirmPlan(c) PROVE intents' = intents
    BY <2>5 DEF PlanNotFound, RuntimeChanged, ConfirmPlan, rows
  <2>6. ASSUME NEW x, StartQueuesRun(c, x) \/ \E r \in Roles : RetryQueuesRun(c, x, r)
        PROVE  intents' = intents
    BY <2>6 DEF StartQueuesRun, RetryQueuesRun
  <2>7. ASSUME StartedOne(c) \/ StartLeavesRole(c) \/ StartEnds(c) \/ RetryEnds(c)
        PROVE  intents' = intents
    BY <2>7 DEF StartedOne, StartLeavesRole, StartEnds, RetryEnds, rows
  <2> QED BY <1>5, <2>1, <2>2, <2>3, <2>4, <2>5, <2>6, <2>7 DEF Manual
<1> QED BY <1>1, <1>2, <1>3, <1>4, <1>5 DEF Next

\* How the rows of runs change, and the order of projects with them.
RunMoves(x) == RunServes(x) \/ RunGivesUp(x) \/ RunEnds(x) \/ RunDropped(x) \/ RunAdopted(x)

LEMMA RunsMove ==
  ASSUME TypeOK, TickInv, RoundInv, CommandInv, [Next]_vars
  PROVE  \/ runs' = runs /\ projectTurns' = projectTurns
         \/ \E x \in Runs : RunMoves(x)
         \/ \E x \in Runs : TickQueuesRun(x)
         \/ \E x \in Runs, p \in Projects, r \in Roles :
              QueueOneRun(x, p, r, None) /\ tick' = tick
<1> DEFINE Same == runs' = runs /\ projectTurns' = projectTurns
           Queued == \E x \in Runs, p \in Projects, r \in Roles :
                       QueueOneRun(x, p, r, None) /\ tick' = tick
<1>1. CASE UNCHANGED vars
  BY <1>1 DEF vars, rows
<1>2. CASE Dispatcher
  <2>1. ASSUME WatcherMarks \/ WatcherEnds \/ TickAllProjects \/ ReadConfiguration \/ TickEnds
               \/ TickReturns \/ ListIntents \/ DropUnwanted \/ MarkDue
        PROVE  Same
    BY <2>1 DEF WatcherMarks, WatcherEnds, TickAllProjects, ReadConfiguration, TickEnds,
                TickReturns, ListIntents, DropUnwanted, MarkDue, rows
  <2>2. ASSUME SortsDueIntents \/ CheckRoom \/ PassEnds \/ NoSeatForRole \/ PreflightRefuses
        PROVE  Same
    BY <2>2 DEF SortsDueIntents, CheckRoom, PassEnds, NoSeatForRole, PreflightRefuses, rows
  <2>3. ASSUME RunNotStarted \/ RunRejected \/ DropRejected \/ RunStarted \/ CountAgain
        PROVE  Same
    BY <2>3 DEF RunNotStarted, RunRejected, DropRejected, RunStarted, CountAgain, rows
  <2> QED BY <1>2, <2>1, <2>2, <2>3 DEF Dispatcher
<1>3. CASE Environment
  <2>1. ASSUME NEW late, TimePasses(late) PROVE Same
    BY <2>1 DEF TimePasses
  <2>2. ASSUME NEW p, WatcherLists(p) \/ SetPaused(p) \/ SetConsent(p) PROVE Same
    BY <2>2 DEF WatcherLists, SetPaused, SetConsent, rows
  <2>3. ASSUME NEW i, PlanExpires(i) PROVE Same
    BY <2>3 DEF PlanExpires
  <2>4. ASSUME DispatcherDies \/ \E c \in Clients : CommandDies(c) PROVE Same
    BY <2>4 DEF DispatcherDies, CommandDies, rows
  <2> QED BY <1>3, <2>1, <2>2, <2>3, <2>4 DEF Environment, RunMoves
<1>4. ASSUME NEW c \in Clients, ConfigWrite(c) PROVE Same
  BY <1>4 DEF ConfigWrite, WriteConfiguration, SyncLists, SyncDrops, SyncEnds, Activate, rows
<1>5. ASSUME NEW c \in Clients, Manual(c) PROVE Same \/ Queued
  <2>1. ASSUME NEW p, PlanReads(c, p) \/ StartReads(c, p) \/ RetryReads(c, p) PROVE Same
    BY <2>1 DEF PlanReads, StartReads, RetryReads, rows
  <2>2. ASSUME NEW want, PlanCounts(c, want) PROVE Same
    BY <2>2 DEF PlanCounts, rows
  <2>3. ASSUME NEW available, PlanGrants(c, available) PROVE Same
    BY <2>3 DEF PlanGrants, rows
  <2>4. ASSUME NEW i, PlanSaves(c, i) \/ TakePlan(c, i) PROVE Same
    BY <2>4 DEF PlanSaves, TakePlan
  <2>5. ASSUME PlanNotFound(c) \/ RuntimeChanged(c) \/ ConfirmPlan(c) PROVE Same
    BY <2>5 DEF PlanNotFound, RuntimeChanged, ConfirmPlan, rows
  <2>6. ASSUME NEW x \in Runs, StartQueuesRun(c, x) PROVE Queued
    <3>1. cmd[c].project \in Projects /\ Head(cmd[c].todo) \in Roles
      BY <2>6, CommandWorks DEF StartQueuesRun
    <3> QED BY <2>6, <3>1 DEF StartQueuesRun
  <2>7. ASSUME NEW x \in Runs, NEW r \in Roles, RetryQueuesRun(c, x, r) PROVE Queued
    <3>1. cmd[c].project \in Projects
      BY <2>7, CommandWorks DEF RetryQueuesRun
    <3> QED BY <2>7, <3>1 DEF RetryQueuesRun
  <2>8. ASSUME StartedOne(c) \/ StartLeavesRole(c) \/ StartEnds(c) \/ RetryEnds(c) PROVE Same
    BY <2>8 DEF StartedOne, StartLeavesRole, StartEnds, RetryEnds, rows
  <2> QED BY <1>5, <2>1, <2>2, <2>3, <2>4, <2>5, <2>6, <2>7, <2>8 DEF Manual
<1> QED BY <1>1, <1>2, <1>3, <1>4, <1>5 DEF Next

\* How everything else changes.
LEMMA OthersMove ==
  ASSUME [Next]_vars
  PROVE  /\ \/ turns' = turns \/ RunStarted
            \/ \E c \in Clients, a \in Activations : Activate(c, a)
         /\ \/ starts' = starts \/ (\E x \in Runs : RunServes(x))
            \/ \E c \in Clients, a \in Activations : Activate(c, a)
         /\ \/ plans' = plans
            \/ \E i \in PlanIds : \/ PlanExpires(i)
                                  \/ \E c \in Clients : PlanSaves(c, i) \/ TakePlan(c, i)
         /\ \/ UNCHANGED <<configuration, consent, spent>>
            \/ \E p \in Projects : SetPaused(p) \/ SetConsent(p)
            \/ DropUnwanted \/ DropRejected \/ RunStarted
            \/ \E c \in Clients, p \in Projects, new \in Configuration :
                 WriteConfiguration(c, p, new)
<1> DEFINE Others == <<turns, starts, plans, configuration, consent, spent>>
<1>1. CASE UNCHANGED vars
  BY <1>1 DEF vars, rows, history
<1>2. CASE Dispatcher
  <2>1. ASSUME WatcherMarks \/ WatcherEnds \/ TickAllProjects \/ ReadConfiguration \/ TickEnds
               \/ TickReturns \/ ListIntents \/ MarkDue
        PROVE  UNCHANGED Others
    BY <2>1 DEF WatcherMarks, WatcherEnds, TickAllProjects, ReadConfiguration, TickEnds,
                TickReturns, ListIntents, MarkDue, rows, history
  <2>2. ASSUME SortsDueIntents \/ CheckRoom \/ PassEnds \/ NoSeatForRole \/ PreflightRefuses
               \/ (\E x \in Runs : TickQueuesRun(x))
        PROVE  UNCHANGED Others
    BY <2>2 DEF SortsDueIntents, CheckRoom, PassEnds, NoSeatForRole, PreflightRefuses,
                TickQueuesRun, rows, history
  <2>3. ASSUME RunNotStarted \/ RunRejected \/ CountAgain PROVE UNCHANGED Others
    BY <2>3 DEF RunNotStarted, RunRejected, CountAgain, rows, history
  <2>4. ASSUME DropUnwanted \/ DropRejected PROVE UNCHANGED <<turns, starts, plans>>
    BY <2>4 DEF DropUnwanted, DropRejected
  <2>5. ASSUME RunStarted PROVE UNCHANGED <<starts, plans>>
    BY <2>5 DEF RunStarted
  <2> QED BY <1>2, <2>1, <2>2, <2>3, <2>4, <2>5 DEF Dispatcher
<1>3. CASE Environment
  <2>1. ASSUME NEW x \in Runs, RunServes(x) PROVE UNCHANGED <<turns, plans, configuration, consent, spent>>
    BY <2>1 DEF RunServes
  <2>2. ASSUME NEW x, RunGivesUp(x) \/ RunEnds(x) \/ RunDropped(x) \/ RunAdopted(x)
        PROVE  UNCHANGED Others
    BY <2>2 DEF RunGivesUp, RunEnds, RunDropped, RunAdopted, history
  <2>3. ASSUME NEW late, TimePasses(late) PROVE UNCHANGED Others
    BY <2>3 DEF TimePasses, history
  <2>4. ASSUME NEW p, WatcherLists(p) PROVE UNCHANGED Others
    BY <2>4 DEF WatcherLists, rows, history
  <2>5. ASSUME NEW p, SetPaused(p) \/ SetConsent(p) PROVE UNCHANGED <<turns, starts, plans>>
    BY <2>5 DEF SetPaused, SetConsent, history
  <2>6. ASSUME NEW i, PlanExpires(i) PROVE UNCHANGED <<turns, starts, configuration, consent, spent>>
    BY <2>6 DEF PlanExpires, history
  <2>7. ASSUME DispatcherDies \/ \E c \in Clients : CommandDies(c) PROVE UNCHANGED Others
    BY <2>7 DEF DispatcherDies, CommandDies, rows, history
  <2> QED BY <1>3, <2>1, <2>2, <2>3, <2>4, <2>5, <2>6, <2>7 DEF Environment
<1>4. ASSUME NEW c \in Clients, NEW p, NEW new, WriteConfiguration(c, p, new)
      PROVE  UNCHANGED <<turns, starts, plans>>
  BY <1>4 DEF WriteConfiguration
<1>5. ASSUME NEW c \in Clients, SyncLists(c) \/ SyncDrops(c) \/ SyncEnds(c) PROVE UNCHANGED Others
  BY <1>5 DEF SyncLists, SyncDrops, SyncEnds, rows, history
<1>6. ASSUME NEW c \in Clients, NEW a, Activate(c, a)
      PROVE  UNCHANGED <<plans, configuration, consent, spent>>
  BY <1>6 DEF Activate
<1>7. ASSUME NEW c \in Clients, ConfigWrite(c)
      PROVE  \/ UNCHANGED Others
             \/ \E p \in Projects, new \in Configuration : WriteConfiguration(c, p, new)
             \/ \E a \in Activations : Activate(c, a)
  BY <1>5, <1>7 DEF ConfigWrite
<1>8. ASSUME NEW c \in Clients, Manual(c)
      PROVE  \/ UNCHANGED Others
             \/ /\ \E i \in PlanIds : PlanSaves(c, i) \/ TakePlan(c, i)
                /\ UNCHANGED <<turns, starts, configuration, consent, spent>>
  <2>1. ASSUME NEW p, PlanReads(c, p) \/ StartReads(c, p) \/ RetryReads(c, p) PROVE UNCHANGED Others
    BY <2>1 DEF PlanReads, StartReads, RetryReads, rows, history
  <2>2. ASSUME NEW want, PlanCounts(c, want) PROVE UNCHANGED Others
    BY <2>2 DEF PlanCounts, rows, history
  <2>3. ASSUME NEW available, PlanGrants(c, available) PROVE UNCHANGED Others
    BY <2>3 DEF PlanGrants, rows, history
  <2>4. ASSUME NEW i, PlanSaves(c, i) \/ TakePlan(c, i)
        PROVE  UNCHANGED <<turns, starts, configuration, consent, spent>>
    BY <2>4 DEF PlanSaves, TakePlan, history
  <2>5. ASSUME PlanNotFound(c) \/ RuntimeChanged(c) \/ ConfirmPlan(c) PROVE UNCHANGED Others
    BY <2>5 DEF PlanNotFound, RuntimeChanged, ConfirmPlan, rows, history
  <2>6. ASSUME NEW x, StartQueuesRun(c, x) \/ \E r \in Roles : RetryQueuesRun(c, x, r)
        PROVE  UNCHANGED Others
    BY <2>6 DEF StartQueuesRun, RetryQueuesRun, history
  <2>7. ASSUME StartedOne(c) \/ StartLeavesRole(c) \/ StartEnds(c) \/ RetryEnds(c)
        PROVE  UNCHANGED Others
    BY <2>7 DEF StartedOne, StartLeavesRole, StartEnds, RetryEnds, rows, history
  <2> QED BY <1>8, <2>1, <2>2, <2>3, <2>4, <2>5, <2>6, <2>7 DEF Manual
<1> QED BY <1>1, <1>2, <1>3, <1>4, <1>6, <1>7, <1>8 DEF Next

LEMMA IntentsTyped ==
  ASSUME TypeOK, TickInv, RoundInv, CommandInv, [Next]_vars
  PROVE  intents' \in [Projects -> [Roles -> Intent \cup {None}]]
<1> DEFINE T == [Projects -> [Roles -> Intent \cup {None}]]
<1>0. intents \in T
  BY DEF TypeOK
<1>1. ASSUME NEW p \in Projects, NEW r \in Roles, NEW i \in Intent, SaveIntent(p, r, i)
      PROVE  intents' \in T
  BY <1>0, <1>1 DEF SaveIntent
<1>2. ASSUME NEW id, intents' = WithoutIntent(id) PROVE intents' \in T
  BY <1>0, <1>2 DEF WithoutIntent
<1>3. ASSUME NEW late, TimePasses(late) PROVE intents' \in T
  <2>1. \A p \in Projects, r \in Roles :
          intents[p][r] # None => [intents[p][r] EXCEPT !.due = TRUE] \in Intent
    <3>1. ASSUME NEW p \in Projects, NEW r \in Roles, intents[p][r] # None
          PROVE  [intents[p][r] EXCEPT !.due = TRUE] \in Intent
      <4>1. intents[p][r] \in Intent
        BY <1>0, <3>1
      <4> QED BY <4>1 DEF Intent
    <3> QED BY <3>1
  <2> QED BY <1>0, <1>3, <2>1 DEF TimePasses
<1>4. ASSUME NEW c \in Clients, SyncDrops(c) PROVE intents' \in T
  BY <1>0, <1>4 DEF SyncDrops
<1> QED BY <1>0, <1>1, <1>2, <1>3, <1>4, IntentsMove

\* A run begins as a queued row and takes its project to the end of the order.
LEMMA QueuedRow ==
  ASSUME TypeOK, NEW x \in Runs, NEW p \in Projects, NEW r \in Roles,
         NEW id \in Activations \cup {None}, QueueOneRun(x, p, r, id)
  PROVE  /\ runs' \in [Runs -> Run \cup {None}] /\ projectTurns' \in Seq(Projects)
         /\ runs[x] = None /\ runs'[x] # None
         /\ runs'[x].state = "queued" /\ runs'[x].project = p /\ runs'[x].role = r
         /\ runs'[x].intent = id
         /\ \A y \in Runs : y # x => runs'[y] = runs[y]
<1> DEFINE n == [project |-> p, role |-> r, intent |-> id, state |-> "queued"]
<1>1. n \in Run
  BY DEF Run
<1>2. /\ n # None /\ n.state = "queued" /\ n.project = p /\ n.role = r /\ n.intent = id
  BY <1>1, Somes
<1>3. runs' = [runs EXCEPT ![x] = n]
  BY DEF QueueOneRun
<1> HIDE DEF n
<1>4. /\ runs' \in [Runs -> Run \cup {None}] /\ runs'[x] = n
      /\ \A y \in Runs : y # x => runs'[y] = runs[y]
  BY <1>1, <1>3 DEF TypeOK
<1>5. projectTurns' \in Seq(Projects)
  BY LastInTurnFacts DEF QueueOneRun, TypeOK
<1> QED BY <1>2, <1>4, <1>5 DEF QueueOneRun, Unused

\* What can happen to a run that its starter does not see.
LEMMA MovedRow ==
  ASSUME TypeOK, NEW x \in Runs, RunMoves(x)
  PROVE  /\ runs' \in [Runs -> Run \cup {None}] /\ projectTurns' \in Seq(Projects)
         /\ runs[x] # None
         /\ runs'[x] # None => /\ runs'[x].project = runs[x].project
                               /\ runs'[x].role = runs[x].role
                               /\ runs'[x].intent = runs[x].intent
         /\ \A y \in Runs : y # x => runs'[y] = runs[y]
         /\ UNCHANGED <<intents, tick, plans, cmd, turns>>
<1>1. runs \in [Runs -> Run \cup {None}] /\ runs[x] # None
  BY DEF TypeOK, RunMoves, RunServes, RunGivesUp, RunEnds, RunDropped, RunAdopted
<1>2. runs[x] \in Run /\ runs[x].project \in Projects
  BY <1>1 DEF Run
<1>3. UNCHANGED <<intents, tick, plans, cmd, turns>>
  BY DEF RunMoves, RunServes, RunGivesUp, RunEnds, RunDropped, RunAdopted
<1>4. projectTurns' \in Seq(Projects)
  <2>1. projectTurns' = projectTurns \/ projectTurns' = LastInTurn(projectTurns, runs[x].project)
    BY DEF RunMoves, RunServes, RunGivesUp, RunEnds, RunDropped, RunAdopted
  <2> QED BY <1>2, <2>1, LastInTurnFacts DEF TypeOK
<1>5. CASE runs' = [runs EXCEPT ![x] = None]
  BY <1>1, <1>3, <1>4, <1>5
<1>6. ASSUME NEW s \in {"serving", "occupying"}, runs' = [runs EXCEPT ![x].state = s]
      PROVE  /\ runs' \in [Runs -> Run \cup {None}]
             /\ runs'[x].project = runs[x].project
             /\ runs'[x].role = runs[x].role
             /\ runs'[x].intent = runs[x].intent
             /\ \A y \in Runs : y # x => runs'[y] = runs[y]
  <2> DEFINE n == [runs[x] EXCEPT !.state = s]
  <2>1. n \in Run /\ n.project = runs[x].project /\ n.role = runs[x].role
        /\ n.intent = runs[x].intent
    BY <1>2 DEF Run
  <2>2. runs' = [runs EXCEPT ![x] = n]
    BY <1>6
  <2> HIDE DEF n
  <2>3. runs'[x] = n
    BY <1>1, <2>2
  <2> QED BY <1>1, <2>1, <2>2, <2>3
<1>7. \/ runs' = [runs EXCEPT ![x] = None]
      \/ \E s \in {"serving", "occupying"} : runs' = [runs EXCEPT ![x].state = s]
  BY DEF RunMoves, RunServes, RunGivesUp, RunEnds, RunDropped, RunAdopted
<1> QED BY <1>1, <1>3, <1>4, <1>5, <1>6, <1>7

\* The run a tick queues.
LEMMA TickQueues ==
  ASSUME TypeOK, TickInv, RoundInv, NEW x \in Runs, TickQueuesRun(x)
  PROVE  /\ tick.project \in Projects /\ Served \in Roles /\ Served \in ToSet(tick.due)
         /\ tick.copies[Served] \in Intent /\ tick.copies[Served].id \in Activations
         /\ QueueOneRun(x, tick.project, Served, tick.copies[Served].id)
<1>1. tick.at \in Serving /\ tick.pass # <<>>
  BY DEF TickQueuesRun, Serving
<1>2. tick.copies[Served] \in Intent
  BY <1>1, TickWorks
<1>3. tick.copies[Served].id \in Activations
  BY <1>2 DEF Intent
<1> QED BY <1>1, <1>2, <1>3, TickWorks DEF TickQueuesRun

LEMMA RunsTyped ==
  ASSUME TypeOK, TickInv, RoundInv, CommandInv, [Next]_vars,
         IsFiniteSet({x \in Runs : runs[x] # None})
  PROVE  /\ runs' \in [Runs -> Run \cup {None}] /\ projectTurns' \in Seq(Projects)
         /\ IsFiniteSet({x \in Runs : runs'[x] # None})
<1> DEFINE F == {x \in Runs : runs[x] # None}
           G == {x \in Runs : runs'[x] # None}
<1>1. CASE runs' = runs /\ projectTurns' = projectTurns
  BY <1>1 DEF TypeOK
<1>2. ASSUME NEW x \in Runs, \A y \in Runs : y # x => runs'[y] = runs[y]
      PROVE  IsFiniteSet(G)
  <2>1. G \in SUBSET (F \cup {x})
    BY <1>2
  <2> HIDE DEF F, G
  <2>2. IsFiniteSet(F \cup {x})
    BY FS_AddElement DEF F
  <2> QED BY <2>1, <2>2, FS_Subset
<1>3. ASSUME NEW x \in Runs, RunMoves(x)
      PROVE  runs' \in [Runs -> Run \cup {None}] /\ projectTurns' \in Seq(Projects) /\ IsFiniteSet(G)
  <2>1. runs' \in [Runs -> Run \cup {None}] /\ projectTurns' \in Seq(Projects)
        /\ \A y \in Runs : y # x => runs'[y] = runs[y]
    BY <1>3, MovedRow
  <2> HIDE DEF G
  <2> QED BY <1>2, <2>1
<1>4. ASSUME NEW x \in Runs, NEW p \in Projects, NEW r \in Roles,
             NEW id \in Activations \cup {None}, QueueOneRun(x, p, r, id)
      PROVE  runs' \in [Runs -> Run \cup {None}] /\ projectTurns' \in Seq(Projects) /\ IsFiniteSet(G)
  <2>1. runs' \in [Runs -> Run \cup {None}] /\ projectTurns' \in Seq(Projects)
        /\ \A y \in Runs : y # x => runs'[y] = runs[y]
    BY <1>4, QueuedRow
  <2> HIDE DEF G
  <2> QED BY <1>2, <2>1
<1> HIDE DEF F, G
<1> QED BY <1>1, <1>3, <1>4, RunsMove, TickQueues DEF G

LEMMA TurnsTyped ==
  ASSUME TypeOK, TurnsInv, TickInv, RoundInv, CommandInv, [Next]_vars
  PROVE  turns' \in [Projects -> Seq(Roles)] /\ TurnsInv'
<1>1. ASSUME NEW p \in Projects, NEW t \in Seq(Roles), IsInjective(t),
             turns' = [turns EXCEPT ![p] = t]
      PROVE  turns' \in [Projects -> Seq(Roles)] /\ TurnsInv'
  BY <1>1 DEF TypeOK, TurnsInv
<1>2. CASE turns' = turns
  BY <1>2 DEF TypeOK, TurnsInv
<1>t. \A p \in Projects : turns[p] \in Seq(Roles) /\ IsInjective(turns[p])
  BY DEF TypeOK, TurnsInv
<1>3. CASE RunStarted
  <2> DEFINE t == LastInTurn(turns[tick.project], Served)
  <2>1. tick.project \in Projects /\ Served \in Roles
    BY <1>3, TickWorks DEF RunStarted, Serving, Starting
  <2>2. t \in Seq(Roles) /\ IsInjective(t)
    BY <1>t, <2>1, LastInTurnFacts
  <2>3. turns' = [turns EXCEPT ![tick.project] = t]
    BY <1>3 DEF RunStarted
  <2> HIDE DEF t
  <2> QED BY <1>1, <2>1, <2>2, <2>3
<1>4. ASSUME NEW c \in Clients, NEW a \in Activations, Activate(c, a)
      PROVE  turns' \in [Projects -> Seq(Roles)] /\ TurnsInv'
  <2> DEFINE p == cmd[c].project
             S == {Head(cmd[c].todo)}
             t == Without(turns[p], S)
  <2>1. p \in Projects
    BY <1>4, CommandWorks DEF Activate
  <2>2. turns' = [turns EXCEPT ![p] = t]
    BY <1>4 DEF Activate
  <2> HIDE DEF p, S
  <2>3. t \in Seq(Roles) /\ IsInjective(t)
    BY <1>t, <2>1, WithoutFacts
  <2> HIDE DEF t
  <2> QED BY <1>1, <2>1, <2>2, <2>3
<1> QED BY <1>2, <1>3, <1>4, OthersMove

LEMMA StartsTyped ==
  ASSUME TypeOK, [Next]_vars
  PROVE  starts' \in [Roles -> [Activations -> Nat]]
<1>1. ASSUME NEW x \in Runs, RunServes(x) PROVE starts' \in [Roles -> [Activations -> Nat]]
  <2>1. CASE runs[x].intent = None
    BY <1>1, <2>1 DEF RunServes, TypeOK
  <2>2. CASE runs[x].intent # None
    <3> DEFINE r == runs[x].role
               a == runs[x].intent
               n == Counted(starts[r][a], r)
    <3>1. runs[x] \in Run
      BY <1>1 DEF RunServes, TypeOK
    <3>2. r \in Roles /\ a \in Activations
      BY <2>2, <3>1 DEF Run
    <3>3. starts' = [starts EXCEPT ![r] = [starts[r] EXCEPT ![a] = n]]
      BY <1>1, <2>2 DEF RunServes
    <3> HIDE DEF r, a
    <3>4. starts[r][a] \in Nat
      BY <3>2 DEF TypeOK
    <3>5. n \in Nat
      BY <3>4 DEF Counted
    <3> HIDE DEF n
    <3> QED BY <3>2, <3>3, <3>5 DEF TypeOK
  <2> QED BY <2>1, <2>2
<1>2. ASSUME NEW c \in Clients, NEW a \in Activations, Activate(c, a)
      PROVE  starts' \in [Roles -> [Activations -> Nat]]
  <2>1. starts' = [s \in Roles |-> [starts[s] EXCEPT ![a] = 0]]
    BY <1>2 DEF Activate
  <2> QED BY <2>1 DEF TypeOK
<1> QED BY <1>1, <1>2, OthersMove DEF TypeOK

LEMMA PlansTyped ==
  ASSUME TypeOK, CommandInv, [Next]_vars
  PROVE  plans' \in [PlanIds -> Plan \cup {None}]
<1>1. ASSUME NEW i \in PlanIds, NEW c \in Clients, PlanSaves(c, i)
      PROVE  plans' \in [PlanIds -> Plan \cup {None}]
  <2> DEFINE k == cmd[c]
             v == RuntimeRevision(k.configuration)
             n == [project |-> k.project, granted |-> k.granted, revision |-> v]
  <2>1. k \in Command /\ k.at = "grant"
    BY <1>1 DEF TypeOK, PlanSaves, Ends
  <2>2. k.project \in Projects /\ k.granted \in Grants /\ k.configuration \in Configuration
    BY <2>1, CommandWorks, CommandFields
  <2>3. plans' = [plans EXCEPT ![i] = n]
    BY <1>1 DEF PlanSaves
  <2> HIDE DEF k
  <2>4. v \in Revision
    BY <2>2 DEF RuntimeRevision, Revision, RunsIn, Occupying
  <2> HIDE DEF v
  <2>5. n \in Plan
    BY <2>2, <2>4 DEF Plan, Grants
  <2> HIDE DEF n
  <2> QED BY <2>3, <2>5 DEF TypeOK
<1>2. ASSUME NEW i \in PlanIds, plans' = [plans EXCEPT ![i] = None]
      PROVE  plans' \in [PlanIds -> Plan \cup {None}]
  BY <1>2 DEF TypeOK
<1>3. ASSUME NEW i \in PlanIds, PlanExpires(i) \/ \E c \in Clients : TakePlan(c, i)
      PROVE  plans' = [plans EXCEPT ![i] = None]
  BY <1>3 DEF PlanExpires, TakePlan
<1> QED BY <1>1, <1>2, <1>3, OthersMove DEF TypeOK

LEMMA ConfigurationTyped ==
  ASSUME TypeOK, TickInv, RoundInv, [Next]_vars
  PROVE  /\ configuration' \in [Projects -> Configuration]
         /\ consent' \in [Projects -> BOOLEAN]
         /\ spent' \in [Projects -> SUBSET Roles]
<1> DEFINE G == /\ configuration' \in [Projects -> Configuration]
                /\ consent' \in [Projects -> BOOLEAN]
                /\ spent' \in [Projects -> SUBSET Roles]
<1>1. CASE UNCHANGED <<configuration, consent, spent>>
  BY <1>1 DEF TypeOK
<1>2. ASSUME NEW p \in Projects, SetPaused(p) PROVE G
  <2>1. [configuration[p] EXCEPT !.paused = ~@] \in Configuration
    <3>1. configuration[p] \in Configuration
      BY DEF TypeOK
    <3> QED BY <3>1 DEF Configuration
  <2>2. configuration' = [configuration EXCEPT ![p] = [configuration[p] EXCEPT !.paused = ~@]]
        /\ UNCHANGED <<consent, spent>>
    BY <1>2 DEF SetPaused, history
  <2> QED BY <2>1, <2>2 DEF TypeOK
<1>3. ASSUME NEW p \in Projects, SetConsent(p) PROVE G
  BY <1>3 DEF SetConsent, history, TypeOK
<1>4. ASSUME NEW c \in Clients, NEW p \in Projects, NEW new \in Configuration,
             WriteConfiguration(c, p, new)
      PROVE  G
  BY <1>4 DEF WriteConfiguration, TypeOK
<1>5. ASSUME NEW p \in Projects, NEW S \in SUBSET Roles,
             spent' = [spent EXCEPT ![p] = @ \cup S], UNCHANGED <<configuration, consent>>
      PROVE  G
  BY <1>5 DEF TypeOK
<1>6. CASE DropUnwanted
  <2>1. tick.project \in Projects /\ Listed \in Roles
    BY <1>6, TickWorks DEF DropUnwanted
  <2>2. Finished(Listed) \in SUBSET Roles
    BY <2>1 DEF Finished
  <2> QED BY <1>5, <1>6, <2>1, <2>2 DEF DropUnwanted
<1>7. CASE DropRejected \/ RunStarted
  <2>1. tick.project \in Projects /\ {Served} \in SUBSET Roles
    BY <1>7, TickWorks DEF DropRejected, RunStarted, Serving, Starting
  <2>2. /\ UNCHANGED <<configuration, consent>>
        /\ spent' = spent \/ spent' = [spent EXCEPT ![tick.project] = @ \cup {Served}]
    BY <1>7 DEF DropRejected, RunStarted
  <2> QED BY <1>1, <1>5, <2>1, <2>2
<1> QED BY <1>1, <1>2, <1>3, <1>4, <1>6, <1>7, OthersMove

-----------------------------------------------------------------------------
(* A plan is good for one run.start.                                       *)

LEMMA PlanKept ==
  ASSUME TypeOK, PlanInv, [Next]_vars
  PROVE  PlanInv'
<1>c. cmd \in [Clients -> Command] /\ plans \in [PlanIds -> Plan \cup {None}]
  BY DEF TypeOK
\* Whoever else keeps its plan, and no plan appears under an id in use.
<1>1. ASSUME \A d \in Clients : cmd'[d].plan = cmd[d].plan \/ cmd'[d].plan = None,
             \A i \in PlanIds : plans'[i] = plans[i] \/ plans'[i] = None
                                \/ \A d \in Clients : cmd[d].plan # i
      PROVE  PlanInv'
  <2> SUFFICES ASSUME NEW c \in Clients, cmd'[c].plan # None
               PROVE  /\ plans'[cmd'[c].plan] = None
                      /\ \A d \in Clients : cmd'[d].plan = cmd'[c].plan => d = c
    BY DEF PlanInv
  <2>1. cmd'[c].plan = cmd[c].plan /\ cmd[c].plan \in PlanIds
    <3>1. cmd[c].plan \in PlanIds \cup {None}
      BY <1>c, CommandFields
    <3> QED BY <1>1, <3>1
  <2>2. plans[cmd[c].plan] = None /\ \A d \in Clients : cmd[d].plan = cmd[c].plan => d = c
    BY <2>1 DEF PlanInv
  <2>3. plans'[cmd[c].plan] = None
    BY <1>1, <2>1, <2>2
  <2>4. \A d \in Clients : cmd'[d].plan = cmd[c].plan => cmd[d].plan = cmd[c].plan
    BY <1>1, <2>1
  <2> QED BY <2>1, <2>2, <2>3, <2>4
<1>2. ASSUME NEW c \in Clients, NEW i \in PlanIds, TakePlan(c, i) PROVE PlanInv'
  <2>1. /\ plans[i] # None /\ plans' = [plans EXCEPT ![i] = None]
        /\ cmd' = [cmd EXCEPT ![c].at = "confirm", ![c].plan = i, ![c].taken = plans[i]]
    BY <1>2 DEF TakePlan
  <2>2. cmd'[c].plan = i /\ \A d \in Clients : d # c => cmd'[d] = cmd[d]
    BY <1>c, <2>1 DEF Command
  <2>3. \A d \in Clients : cmd[d].plan # i
    BY <2>1, Somes DEF PlanInv
  <2> SUFFICES ASSUME NEW b \in Clients, cmd'[b].plan # None
               PROVE  /\ plans'[cmd'[b].plan] = None
                      /\ \A d \in Clients : cmd'[d].plan = cmd'[b].plan => d = b
    BY DEF PlanInv
  <2>4. CASE b = c
    BY <1>c, <2>1, <2>2, <2>3, <2>4
  <2>5. CASE b # c
    <3>1. cmd'[b].plan = cmd[b].plan /\ cmd[b].plan \in PlanIds
      <4>1. cmd[b].plan \in PlanIds \cup {None}
        BY <1>c, CommandFields
      <4> QED BY <2>2, <2>5, <4>1
    <3>2. plans[cmd[b].plan] = None /\ \A d \in Clients : cmd[d].plan = cmd[b].plan => d = b
      BY <3>1, <2>2, <2>5 DEF PlanInv
    <3> QED BY <1>c, <2>1, <2>2, <2>3, <3>1, <3>2
  <2> QED BY <2>4, <2>5
<1>3. ASSUME NEW c \in Clients, cmd' = [cmd EXCEPT ![c] = CommandIdle],
             \/ plans' = plans
             \/ \E i \in PlanIds : /\ \E m : plans' = [plans EXCEPT ![i] = m]
                                   /\ \A d \in Clients : cmd[d].plan # i
      PROVE  PlanInv'
  <2>1. CommandIdle.plan = None
    BY DEF CommandIdle
  <2>2. \A d \in Clients : cmd'[d].plan = cmd[d].plan \/ cmd'[d].plan = None
    BY <1>c, <1>3, <2>1
  <2>3. \A i \in PlanIds : plans'[i] = plans[i] \/ plans'[i] = None
                           \/ \A d \in Clients : cmd[d].plan # i
    BY <1>c, <1>3
  <2> QED BY <1>1, <2>2, <2>3
<1> DEFINE KeepsPlan == /\ \A d \in Clients : cmd'[d].plan = cmd[d].plan \/ cmd'[d].plan = None
                        /\ plans' = plans
<1>4. KeepsPlan => PlanInv'
  BY <1>1
<1>5. CommandIdle.plan = None
  BY DEF CommandIdle
<1>6. ASSUME NEW c \in Clients, ConfigWrite(c) PROVE KeepsPlan
  <2>1. plans' = plans
    BY <1>6 DEF ConfigWrite, WriteConfiguration, SyncLists, SyncDrops, SyncEnds, Activate, rows
  <2>2. ASSUME NEW p \in Projects, NEW new \in Configuration, WriteConfiguration(c, p, new)
        PROVE  \A d \in Clients : cmd'[d].plan = cmd[d].plan \/ cmd'[d].plan = None
    <3> DEFINE k == [CommandIdle EXCEPT !.at = "sync", !.project = p, !.configuration = new]
    <3>1. "sync" \in CommandPc
      BY DEF CommandPc
    <3>2. CommandNow(k, "sync", p, <<>>, NoGrants, None, None, None)
      BY <3>1, BegunNow
    <3>3. cmd' = [cmd EXCEPT ![c] = k]
      BY <2>2 DEF WriteConfiguration
    <3> HIDE DEF k
    <3>4. k.plan = None
      BY <3>2 DEF CommandNow
    <3> QED BY <1>c, <3>3, <3>4
  <2>3. ASSUME SyncLists(c) \/ SyncDrops(c) \/ \E a \in Activations : Activate(c, a)
        PROVE  \A d \in Clients : cmd'[d].plan = cmd[d].plan
    <3>1. CASE SyncLists(c)
      BY <1>c, <3>1 DEF SyncLists, Command
    <3>2. CASE SyncDrops(c)
      BY <1>c, <3>2 DEF SyncDrops, Goes, Command
    <3>3. ASSUME NEW a \in Activations, Activate(c, a)
          PROVE  \A d \in Clients : cmd'[d].plan = cmd[d].plan
      BY <1>c, <3>3 DEF Activate, Command
    <3> QED BY <2>3, <3>1, <3>2, <3>3
  <2>4. ASSUME SyncEnds(c)
        PROVE  \A d \in Clients : cmd'[d].plan = cmd[d].plan \/ cmd'[d].plan = None
    BY <1>c, <1>5, <2>4 DEF SyncEnds, Ends
  <2> QED BY <1>6, <2>1, <2>2, <2>3, <2>4 DEF ConfigWrite
<1>7. ASSUME NEW c \in Clients, Manual(c) PROVE PlanInv'
  <2>1. ASSUME NEW p \in Projects, PlanReads(c, p) \/ StartReads(c, p) \/ RetryReads(c, p)
        PROVE  KeepsPlan
    <3>1. PICK at \in {"budget", "take", "retry"} : Begins(c, at, p)
      BY <2>1 DEF PlanReads, StartReads, RetryReads
    <3> DEFINE k == [CommandIdle EXCEPT !.at = at, !.project = p,
                                        !.configuration = configuration[p]]
    <3>2. at \in CommandPc /\ configuration[p] \in Configuration
      BY DEF CommandPc, TypeOK
    <3>3. CommandNow(k, at, p, <<>>, NoGrants, None, None, None)
      BY <3>2, BegunNow
    <3>4. cmd' = [cmd EXCEPT ![c] = k] /\ plans' = plans
      BY <2>1, <3>1 DEF Begins, PlanReads, StartReads, RetryReads, rows
    <3> HIDE DEF k
    <3>5. k.plan = None
      BY <3>3 DEF CommandNow
    <3> QED BY <1>c, <3>4, <3>5
  <2>2. ASSUME NEW want \in Requests, PlanCounts(c, want) PROVE KeepsPlan
    BY <1>c, <2>2 DEF PlanCounts, Command, rows
  <2>3. ASSUME NEW available, PlanGrants(c, available) PROVE KeepsPlan
    <3> DEFINE k == cmd[c]
               r == Head(k.todo)
               least == Smaller(Smaller(k.want[r], RoleRemaining(k.project, r)), k.budget)
               limited == IF ExecutionLimit[r] > 0 THEN Smaller(least, ExecutionLimit[r]) ELSE least
               m == IF available /\ ~k.configuration.paused THEN limited ELSE 0
               n == Granting(k, Tail(k.todo), k.budget - m, r, m)
    <3>1. cmd' = [cmd EXCEPT ![c] = n] /\ plans' = plans
      BY <1>c, <2>3 DEF PlanGrants, Granting, rows
    <3> HIDE DEF r, m
    <3>2. n.plan = cmd[c].plan
      BY <1>c DEF Granting, Command
    <3> HIDE DEF n
    <3> QED BY <1>c, <3>1, <3>2
  <2>4. ASSUME NEW i \in PlanIds, PlanSaves(c, i) PROVE PlanInv'
    BY <1>3, <2>4 DEF PlanSaves, Ends
  <2>5. ASSUME ConfirmPlan(c) \/ \E x \in Runs : \/ StartQueuesRun(c, x)
                                                 \/ \E r \in Roles : RetryQueuesRun(c, x, r)
        PROVE  KeepsPlan
    <3>1. CASE ConfirmPlan(c)
      <4> DEFINE g == cmd[c].taken.granted
                 todo == Keep(RoleOrder, {r \in Roles : g[r] > 0})
                 n == [cmd[c] EXCEPT !.at = "start", !.taken = None, !.granted = g, !.todo = todo]
      <4>1. cmd' = [cmd EXCEPT ![c] = n] /\ plans' = plans
        BY <1>c, <3>1 DEF ConfirmPlan, rows
      <4> HIDE DEF g, todo
      <4>2. n.plan = cmd[c].plan
        BY <1>c DEF Command
      <4> HIDE DEF n
      <4> QED BY <1>c, <4>1, <4>2
    <3>2. ASSUME NEW x \in Runs, \/ StartQueuesRun(c, x)
                                \/ \E r \in Roles : RetryQueuesRun(c, x, r)
          PROVE  KeepsPlan
      <4>1. PICK at : cmd' = [cmd EXCEPT ![c].at = at, ![c].run = x]
        BY <3>2 DEF StartQueuesRun, RetryQueuesRun
      <4>2. plans' = plans
        BY <3>2 DEF StartQueuesRun, RetryQueuesRun
      <4> QED BY <1>c, <4>1, <4>2 DEF Command
    <3> QED BY <2>5, <3>1, <3>2
  <2>6. ASSUME StartedOne(c) \/ StartLeavesRole(c) PROVE KeepsPlan
    <3>1. ASSUME NEW m, NEW todo, plans' = plans,
                 cmd' = [cmd EXCEPT ![c] = Leaving(cmd[c], Head(cmd[c].todo), m, todo)]
          PROVE  KeepsPlan
      <4> DEFINE n == Leaving(cmd[c], Head(cmd[c].todo), m, todo)
      <4>1. n.plan = cmd[c].plan
        BY <1>c DEF Leaving, Command
      <4>2. cmd' = [cmd EXCEPT ![c] = n]
        BY <3>1
      <4> HIDE DEF n
      <4> QED BY <1>c, <3>1, <4>1, <4>2
    <3>2. CASE StartedOne(c)
      <4> DEFINE r == Head(cmd[c].todo)
                 left == cmd[c].granted[r] - 1
                 todo == IF left = 0 THEN Tail(cmd[c].todo) ELSE cmd[c].todo
      <4>1. cmd' = [cmd EXCEPT ![c] = Leaving(cmd[c], Head(cmd[c].todo), left, todo)]
            /\ plans' = plans
        BY <1>c, <3>2 DEF StartedOne, Leaving, rows
      <4> HIDE DEF left, todo
      <4> QED BY <3>1, <4>1
    <3>3. CASE StartLeavesRole(c)
      <4> DEFINE left == 0
                 todo == Tail(cmd[c].todo)
      <4>1. cmd' = [cmd EXCEPT ![c] = Leaving(cmd[c], Head(cmd[c].todo), left, todo)]
            /\ plans' = plans
        BY <1>c, <3>3 DEF StartLeavesRole, Leaving, rows
      <4> HIDE DEF left, todo
      <4> QED BY <3>1, <4>1
    <3> QED BY <2>6, <3>2, <3>3
  <2>7. ASSUME PlanNotFound(c) \/ RuntimeChanged(c) \/ StartEnds(c) \/ RetryEnds(c) PROVE KeepsPlan
    BY <1>c, <1>5, <2>7 DEF PlanNotFound, RuntimeChanged, StartEnds, RetryEnds, Ends, rows
  <2> QED BY <1>2, <1>4, <1>7, <2>1, <2>2, <2>3, <2>4, <2>5, <2>6, <2>7 DEF Manual
<1>8. ASSUME NEW c \in Clients, CommandDies(c) PROVE KeepsPlan
  BY <1>c, <1>5, <1>8 DEF CommandDies, rows
<1>9. ASSUME cmd' = cmd PROVE PlanInv'
  <2>1. ASSUME NEW i \in PlanIds, PlanExpires(i) PROVE PlanInv'
    <3>1. \A j \in PlanIds : plans'[j] = plans[j] \/ plans'[j] = None
      BY <1>c, <2>1 DEF PlanExpires
    <3> QED BY <1>1, <1>9, <3>1
  <2>2. ASSUME NEW i \in PlanIds, NEW c \in Clients, PlanSaves(c, i) PROVE PlanInv'
    BY <1>3, <2>2 DEF PlanSaves, Ends
  <2>3. CASE plans' = plans
    BY <1>4, <1>9, <2>3
  <2> QED BY <1>2, <2>1, <2>2, <2>3, OthersMove
<1> QED BY <1>4, <1>6, <1>7, <1>8, <1>9, CommandMoves

LEMMA OneTaker == ASSUME TypeOK, PlanInv PROVE PlanHasOneTaker
<1> SUFFICES ASSUME NEW i \in PlanIds
             PROVE  /\ Cardinality({c \in Clients : cmd[c].plan = i}) <= 1
                    /\ plans[i] # None => {c \in Clients : cmd[c].plan = i} = {}
  BY DEF PlanHasOneTaker
<1> DEFINE T == {c \in Clients : cmd[c].plan = i}
<1>0. i # None
  BY Somes
<1>1. \A c, d \in T : c = d
  BY <1>0 DEF PlanInv
<1>2. plans[i] # None => T = {}
  BY <1>0 DEF PlanInv
<1>3. Cardinality(T) <= 1
  <2>1. CASE T = {}
    BY <2>1, FS_EmptySet
  <2>2. CASE T # {}
    <3>1. PICK c : c \in T
      BY <2>2
    <3>2. T = {c}
      BY <1>1, <3>1
    <3> HIDE DEF T
    <3> QED BY <3>2, FS_Singleton
  <2> QED BY <2>1, <2>2
<1> QED BY <1>2, <1>3

-----------------------------------------------------------------------------
(* Types, order and plans.                                                 *)

LEMMA BaseInit == Init => Base
<1> SUFFICES ASSUME Init PROVE Base
  OBVIOUS
<1>1. tick = TickIdle /\ TickNow(TickIdle, "idle", None, NoIntents, <<>>, <<>>, <<>>, None)
  BY IdleNow DEF Init
<1>2. TickOK
  <2>1. tick \in Tick /\ ShapeOf(tick)
    BY <1>1, EmptyFacts DEF Shape, ShapeOf, TickNow, Working, Serving, Starting
  <2> QED BY <1>1, <2>1, TickOKIs
<1>3. CommandOK
  <2>1. CommandIdle \in Command /\ CommandShapeOf(CommandIdle)
    BY CommandIdleNow DEF CommandNow, CommandShapeOf, CommandShape
  <2> QED BY <2>1, CommandOKIs DEF Init
<1>4. PlanInv
  <2>1. CommandIdle.plan = None
    BY DEF CommandIdle
  <2> QED BY <2>1 DEF Init, PlanInv
<1>5. TypeOK
  <2>1. [paused |-> FALSE, automation |-> TRUE, continuous |-> Roles] \in Configuration
    BY DEF Configuration
  <2>2. intents \in [Projects -> [Roles -> Intent \cup {None}]]
    <3> DEFINE I == [id : Activations, started : {0}, due : {TRUE}]
    <3>1. ASSUME NEW i \in I PROVE i \in Intent
      <4>1. i = [id |-> i.id, started |-> i.started, due |-> i.due]
            /\ i.id \in Activations /\ i.started = 0 /\ i.due = TRUE
        OBVIOUS
      <4>2. [id |-> i.id, started |-> 0, due |-> TRUE] \in Intent
        BY <4>1 DEF Intent
      <4>3. i = [id |-> i.id, started |-> 0, due |-> TRUE]
        BY <4>1, Zenon
      <4> QED BY <4>2, <4>3, Zenon
    <3>2. intents \in [Projects -> [Roles -> I]]
      BY DEF Init
    <3> HIDE DEF I
    <3>3. ASSUME NEW p \in Projects, NEW r \in Roles PROVE intents[p][r] \in Intent \cup {None}
      BY <3>1, <3>2
    <3>4. \A p \in Projects : intents[p] \in [Roles -> Intent \cup {None}]
      BY <3>2, <3>3
    <3> QED BY <3>2, <3>4
  <2>3. turns \in [Projects -> Seq(Roles)] /\ projectTurns \in Seq(Projects)
    BY EmptyFacts DEF Init
  <2> QED BY <1>2, <1>3, <2>1, <2>2, <2>3 DEF Init, TypeOK, TickOK, CommandOK
<1>6. TurnsInv
  BY EmptyFacts DEF Init, TurnsInv
<1>7. IsFiniteSet({x \in Runs : runs[x] # None})
  <2>1. {x \in Runs : runs[x] # None} = {}
    BY DEF Init
  <2> QED BY <2>1, FS_EmptySet
<1> QED BY <1>2, <1>3, <1>4, <1>5, <1>6, <1>7 DEF Base, TickOK, CommandOK

LEMMA BaseKept == Base /\ [Next]_vars => Base'
<1> SUFFICES ASSUME Base, [Next]_vars PROVE Base'
  OBVIOUS
<1>1. /\ TypeOK /\ TickInv /\ TurnsInv /\ RoundInv /\ CommandInv /\ PlanInv
      /\ IsFiniteSet({x \in Runs : runs[x] # None})
  BY DEF Base
<1>2. TickOK' /\ CommandOK' /\ PlanInv'
  BY <1>1, TickKept, CommandKept, PlanKept
<1>3. /\ intents' \in [Projects -> [Roles -> Intent \cup {None}]]
      /\ runs' \in [Runs -> Run \cup {None}] /\ projectTurns' \in Seq(Projects)
      /\ IsFiniteSet({x \in Runs : runs'[x] # None})
      /\ turns' \in [Projects -> Seq(Roles)] /\ TurnsInv'
      /\ starts' \in [Roles -> [Activations -> Nat]]
      /\ plans' \in [PlanIds -> Plan \cup {None}]
  BY <1>1, IntentsTyped, RunsTyped, TurnsTyped, StartsTyped, PlansTyped
<1>4. /\ configuration' \in [Projects -> Configuration]
      /\ consent' \in [Projects -> BOOLEAN]
      /\ spent' \in [Projects -> SUBSET Roles]
  BY <1>1, ConfigurationTyped
<1>5. TypeOK'
  BY <1>2, <1>3, <1>4 DEF TypeOK, TickOK, CommandOK
<1> QED BY <1>2, <1>3, <1>5 DEF Base, TickOK, CommandOK

LEMMA BaseCorrect == Spec => []Base
<1>1. Init => Base
  BY BaseInit
<1>2. Base /\ [Next]_vars => Base'
  BY BaseKept
<1> QED BY <1>1, <1>2, PTL DEF Spec

\* Every table, copy and command keeps its shape: a tick works on a project of the
\* sweep with copies of the intents it serves, and no more is ever granted than the
\* budget plan.read has counted (agent_dispatch.py: tick_project, build_plan).
THEOREM TypeCorrect == Spec => []TypeOK
<1>1. Base => TypeOK
  BY DEF Base
<1> QED BY <1>1, BaseCorrect, PTL

\* Two run.start commands never start from one plan: taking it deletes it in the
\* same transaction (AgentStore.take_plan), and an id is not given out again while
\* a command still works with it (ids are fresh).
THEOREM PlanCorrect == Spec => []PlanHasOneTaker
<1>1. Base => PlanHasOneTaker
  BY OneTaker DEF Base
<1> QED BY <1>1, BaseCorrect, PTL

-----------------------------------------------------------------------------
(* The run a tick waits for.                                               *)

\* Only the run it has just queued makes a tick wait.
LEMMA WaitBegins ==
  ASSUME TypeOK, TickInv, RoundInv, Dispatcher, tick'.at = "await"
  PROVE  \E x \in Runs : TickQueuesRun(x)
<1>t. tick \in Tick
  BY DEF TypeOK
<1>1. ~(WatcherMarks \/ DropUnwanted \/ MarkDue \/ SortsDueIntents \/ PassEnds \/ ListIntents)
  BY <1>t DEF WatcherMarks, DropUnwanted, MarkDue, SortsDueIntents, PassEnds, ListIntents, Tick
<1>2. ~(WatcherEnds \/ TickAllProjects \/ ReadConfiguration \/ TickEnds \/ TickReturns)
  <2>1. ~WatcherEnds
    BY DEF WatcherEnds, TickIdle
  <2>2. ~TickAllProjects
    BY <1>t DEF TickAllProjects, Tick
  <2>3. ~ReadConfiguration
    BY DEF ReadConfiguration, TickIdle
  <2>4. ~TickEnds
    BY DEF TickEnds, TickIdle
  <2>5. ~TickReturns
    BY DEF TickReturns, NextProject, TickIdle
  <2> QED BY <2>1, <2>2, <2>3, <2>4, <2>5
<1>3. ~CheckRoom
  BY <1>t DEF CheckRoom, NextProject, TickIdle, Tick
<1>4. ASSUME NEW due, tick' = Leaves(due) \/ tick' = [Leaves(due) EXCEPT !.progress = TRUE]
      PROVE  FALSE
  BY <1>t, <1>4 DEF Leaves, Tick
<1>5. ~(NoSeatForRole \/ PreflightRefuses \/ RunNotStarted \/ DropRejected \/ RunRejected)
  <2>1. ~RunRejected
    BY <1>t DEF RunRejected, Tick
  <2> QED BY <1>4, <2>1 DEF NoSeatForRole, PreflightRefuses, RunNotStarted, DropRejected
<1>6. ~RunStarted
  <2> DEFINE i == [tick.copies[Served] EXCEPT !.started = Counted(@, Served)]
  <2>1. \/ tick' = [tick EXCEPT !.at = "after", !.progress = TRUE, !.copies[Served] = i]
        \/ tick' = [Leaves(Without(tick.due, {Served})) EXCEPT !.progress = TRUE]
        \/ ~RunStarted
    BY DEF RunStarted
  <2> HIDE DEF i
  <2>2. tick' # [tick EXCEPT !.at = "after", !.progress = TRUE, !.copies[Served] = i]
    BY <1>t DEF Tick
  <2> QED BY <1>4, <2>1, <2>2
<1>7. ~CountAgain
  <2> DEFINE due == IF RoleRemaining(tick.project, Served) = 0
               THEN Without(tick.due, {Served}) ELSE tick.due
  <2>1. \/ tick' = Leaves(due)
        \/ tick' = [tick EXCEPT !.at = "room", !.due = due, !.pass = <<>>, !.run = None]
        \/ ~CountAgain
    BY DEF CountAgain
  <2> HIDE DEF due
  <2>2. tick' # [tick EXCEPT !.at = "room", !.due = due, !.pass = <<>>, !.run = None]
    BY <1>t DEF Tick
  <2> QED BY <1>4, <2>1, <2>2
<1> QED BY <1>1, <1>2, <1>3, <1>5, <1>6, <1>7 DEF Dispatcher

LEMMA TickAwaits ==
  ASSUME TypeOK, NEW x \in Runs, TickQueuesRun(x)
  PROVE  /\ tick.at = "pass"
         /\ TickNow(tick', "await", tick.project, tick.copies, tick.todo, tick.due, tick.pass, x)
<1>1. tick.at = "pass" /\ tick' = [tick EXCEPT !.at = "await", !.run = x] /\ tick \in Tick
  BY DEF TickQueuesRun, TypeOK
<1>2. "await" \in TickPc
  BY DEF TickPc
<1> QED BY <1>1, <1>2, AwaitNow

WaitsInPeace == ~({"drops", "quick"} \subseteq Env)

LEMMA AwaitedKept ==
  ASSUME Base, AwaitedWorks, WaitsInPeace, [Next]_vars
  PROVE  AwaitedWorks'
<1>0. TypeOK /\ TickInv /\ RoundInv /\ CommandInv
  BY DEF Base
<1>1. SUFFICES ASSUME tick'.at = "await", runs'[tick'.run] # None
               PROVE  /\ runs'[tick'.run].state \in Active
                      /\ runs'[tick'.run].role = Head(tick'.pass)
                      /\ runs'[tick'.run].intent = tick'.copies[Head(tick'.pass)].id
  BY DEF AwaitedWorks, Served
<1>2. ASSUME NEW x \in Runs, TickQueuesRun(x)
      PROVE  /\ runs'[tick'.run].state \in Active
             /\ runs'[tick'.run].role = Head(tick'.pass)
             /\ runs'[tick'.run].intent = tick'.copies[Head(tick'.pass)].id
  <2>1. /\ Served \in Roles /\ tick.copies[Served].id \in Activations /\ tick.project \in Projects
        /\ QueueOneRun(x, tick.project, Served, tick.copies[Served].id)
    BY <1>0, <1>2, TickQueues
  <2>2. /\ runs'[x].state = "queued" /\ runs'[x].role = Served
        /\ runs'[x].intent = tick.copies[Served].id
    BY <1>0, <2>1, QueuedRow
  <2>3. tick'.run = x /\ tick'.copies = tick.copies /\ tick'.pass = tick.pass
    BY <1>0, <1>2, TickAwaits DEF TickNow
  <2> QED BY <2>2, <2>3 DEF Served, Active
<1>3. CASE tick' # tick
  <2>1. TickIdle.at # "await"
    BY DEF TickIdle
  <2>2. ASSUME NEW p \in Projects, WatcherLists(p) PROVE tick'.at # "await"
    BY <1>0, <2>2 DEF WatcherLists, TypeOK, Tick
  <2>3. Dispatcher
    BY <1>1, <1>3, <2>1, <2>2, TickMoves
  <2> QED BY <1>0, <1>1, <1>2, <2>3, WaitBegins
<1>4. CASE tick' = tick
  <2>0. tick.at = "await" /\ tick.run \in Runs
    BY <1>0, <1>1, <1>4, TickWorks DEF Starting
  <2>1. ASSUME runs'[tick.run] = runs[tick.run]
        PROVE  /\ runs'[tick'.run].state \in Active
               /\ runs'[tick'.run].role = Head(tick'.pass)
               /\ runs'[tick'.run].intent = tick'.copies[Head(tick'.pass)].id
    BY <1>1, <1>4, <2>0, <2>1 DEF AwaitedWorks, Served
  <2>2. ASSUME NEW x \in Runs, RunMoves(x)
        PROVE  /\ runs'[tick'.run].state \in Active
               /\ runs'[tick'.run].role = Head(tick'.pass)
               /\ runs'[tick'.run].intent = tick'.copies[Head(tick'.pass)].id
    <3>1. /\ runs[x] # None /\ \A y \in Runs : y # x => runs'[y] = runs[y]
          /\ runs'[x] # None => /\ runs'[x].role = runs[x].role
                                /\ runs'[x].intent = runs[x].intent
      BY <1>0, <2>2, MovedRow
    <3>2. CASE x # tick.run
      BY <2>0, <2>1, <3>1, <3>2
    <3>3. CASE x = tick.run
      <4>1. runs'[x] # None /\ Awaited(x)
        BY <1>1, <1>4, <3>3 DEF Awaited
      <4>2. ~RunDropped(x) /\ ~RunAdopted(x) /\ ~RunGivesUp(x) /\ ~RunEnds(x)
        BY <1>0, <2>0, <4>1 DEF RunDropped, RunAdopted, RunGivesUp, RunEnds, WaitsInPeace, TypeOK
      <4>3. runs' = [runs EXCEPT ![x].state = "serving"]
        BY <2>2, <4>2 DEF RunMoves, RunServes
      <4>4. runs'[x].state = "serving"
        <5>1. runs[x] \in Run
          BY <1>0, <3>1 DEF TypeOK
        <5> QED BY <1>0, <4>3, <5>1 DEF TypeOK, Run
      <4> QED BY <1>4, <2>0, <3>1, <3>3, <4>1, <4>4 DEF AwaitedWorks, Served, Active
    <3> QED BY <3>2, <3>3
  <2>3. ASSUME NEW x \in Runs, NEW p \in Projects, NEW r \in Roles, QueueOneRun(x, p, r, None)
        PROVE  runs'[tick.run] = runs[tick.run]
    <3>1. x # tick.run
      BY <2>3 DEF QueueOneRun, Unused, Awaited
    <3> QED BY <1>0, <2>0, <2>3, <3>1, QueuedRow
  <2> QED BY <1>0, <1>2, <2>1, <2>2, <2>3, RunsMove
<1> QED BY <1>3, <1>4

-----------------------------------------------------------------------------
(* Ticks stay within the limits.                                           *)

\* The parts of the invariant, over the tables they read.
AutomaticIn(R, ps, rs) ==
  {x \in Runs : /\ R[x] # None
                /\ R[x].intent # None
                /\ R[x].project \in ps
                /\ R[x].role \in rs}

WithinIn(R) ==
  /\ Cardinality(AutomaticIn(R, Projects, Roles)) <= DeviceMax
  /\ \A p \in Projects :
       /\ Cardinality(AutomaticIn(R, {p}, Roles)) <= ProjectMax[p]
       /\ \A r \in Roles : Cardinality(AutomaticIn(R, {p}, {r})) <= RoleMax[r]

RoomIn(R, at, p, W) ==
  at \in {"pass", "await", "rejected"} =>
    /\ Cardinality(AutomaticIn(R, Projects, Roles) \ W) < DeviceMax
    /\ Cardinality(AutomaticIn(R, {p}, Roles) \ W) < ProjectMax[p]

AwaitsAt(at, x) == IF at = "await" THEN {x} ELSE {}

LEMMA LimitParts ==
  /\ AutomaticWithinLimits <=> WithinIn(runs)
  /\ AutomaticWithinLimits' <=> WithinIn(runs')
  /\ RoomInv <=> RoomIn(runs, tick.at, tick.project, AwaitsAt(tick.at, tick.run))
  /\ RoomInv' <=> RoomIn(runs', tick'.at, tick'.project, AwaitsAt(tick'.at, tick'.run))
<1>1. AutomaticWithinLimits <=> WithinIn(runs)
  BY DEF AutomaticWithinLimits, WithinIn, Automatic, AutomaticIn
<1>2. AutomaticWithinLimits' <=> WithinIn(runs')
  BY DEF AutomaticWithinLimits, WithinIn, Automatic, AutomaticIn
<1>3. RoomInv <=> RoomIn(runs, tick.at, tick.project, AwaitsAt(tick.at, tick.run))
  BY DEF RoomInv, RoomIn, Automatic, AutomaticIn, Awaits, AwaitsAt
<1>4. RoomInv' <=> RoomIn(runs', tick'.at, tick'.project, AwaitsAt(tick'.at, tick'.run))
  BY DEF RoomInv, RoomIn, Automatic, AutomaticIn, Awaits, AwaitsAt
<1> QED BY <1>1, <1>2, <1>3, <1>4

\* The queued and held runs are counted.
LEMMA AutomaticHeld ==
  ASSUME TypeOK, IsFiniteSet({x \in Runs : runs[x] # None}), NEW ps, NEW rs
  PROVE  /\ AutomaticIn(runs, ps, rs) \subseteq
              {x \in Held : runs[x].project \in ps /\ runs[x].role \in rs}
         /\ IsFiniteSet(AutomaticIn(runs, ps, rs))
<1> DEFINE A == AutomaticIn(runs, ps, rs)
           F == {x \in Runs : runs[x] # None}
<1>1. ASSUME NEW x \in A PROVE x \in Held /\ runs[x].project \in ps /\ runs[x].role \in rs
  <2>1. x \in Runs /\ runs[x] # None /\ runs[x].project \in ps /\ runs[x].role \in rs
    BY DEF AutomaticIn
  <2>2. runs[x] \in Run
    BY <2>1 DEF TypeOK
  <2>3. runs[x].state \in {"queued", "serving", "occupying"}
    BY <2>2 DEF Run
  <2> QED BY <2>1, <2>3 DEF Held, RunsIn, Occupying, Active
<1>2. A \in SUBSET F
  BY DEF AutomaticIn
<1> HIDE DEF F
<1>3. IsFiniteSet(A)
  <2> HIDE DEF A
  <2> QED BY <1>2, FS_Subset DEF F
<1> QED BY <1>1, <1>3

\* Where a count finds room, there is room for one more.
LEMMA RoomCounts ==
  ASSUME TypeOK, IsFiniteSet({x \in Runs : runs[x] # None}), NEW p \in Projects
  PROVE  /\ Room(p) > 0 => RoomIn(runs, "pass", p, {})
         /\ \A r \in Roles : RoleRemaining(p, r) > 0 =>
              Cardinality(AutomaticIn(runs, {p}, {r})) < RoleMax[r]
<1>1. ASSUME NEW A, NEW S \in SUBSET Held, A \subseteq S, NEW n \in Nat, Above0(n - Cardinality(S)) > 0
      PROVE  Cardinality(A) < n
  <2>1. IsFiniteSet(S) /\ Cardinality(S) \in Nat /\ IsFiniteSet(A) /\ Cardinality(A) \in Nat
    BY <1>1, CountsTyped, FS_Subset
  <2>2. Cardinality(A) <= Cardinality(S)
    BY <1>1, <2>1, FS_Subset
  <2> QED BY <1>1, <2>1, <2>2 DEF Above0
<1>2. ASSUME Room(p) > 0 PROVE RoomIn(runs, "pass", p, {})
  <2> DEFINE S == {x \in Held : runs[x].project = p}
             n == ProjectMax[p]
             A == AutomaticIn(runs, Projects, Roles)
             B == AutomaticIn(runs, {p}, Roles)
  <2>1. DeviceRemaining > 0 /\ ProjectRemaining(p) > 0
    <3>1. Held \in SUBSET Held /\ S \in SUBSET Held
      OBVIOUS
    <3>2. Cardinality(Held) \in Nat /\ Cardinality(S) \in Nat
      <4> HIDE DEF S
      <4> QED BY <3>1, CountsTyped
    <3> QED BY <1>2, <3>2, LimitsAssumption DEF Room, Smaller, DeviceRemaining, ProjectRemaining, Above0
  <2>2. A \subseteq Held /\ B \subseteq S
    BY AutomaticHeld
  <2>3. Above0(DeviceMax - Cardinality(Held)) > 0 /\ Above0(n - Cardinality(S)) > 0
    BY <2>1 DEF DeviceRemaining, ProjectRemaining
  <2>4. S \in SUBSET Held /\ Held \in SUBSET Held /\ n \in Nat /\ DeviceMax \in Nat
    BY LimitsAssumption
  <2> HIDE DEF S, A, B, n
  <2>5. Cardinality(A) < DeviceMax /\ Cardinality(B) < n
    BY <1>1, <2>2, <2>3, <2>4
  <2>6. A \ {} = A /\ B \ {} = B
    OBVIOUS
  <2> QED BY <2>5, <2>6 DEF A, B, n, RoomIn
<1>3. ASSUME NEW r \in Roles, RoleRemaining(p, r) > 0
      PROVE  Cardinality(AutomaticIn(runs, {p}, {r})) < RoleMax[r]
  <2> DEFINE S == {x \in Held : runs[x].project = p /\ runs[x].role = r}
             n == RoleMax[r]
             A == AutomaticIn(runs, {p}, {r})
  <2>1. A \subseteq S
    BY AutomaticHeld
  <2>2. Above0(n - Cardinality(S)) > 0 /\ S \in SUBSET Held /\ n \in Nat
    BY <1>3, LimitsAssumption DEF RoleRemaining
  <2> HIDE DEF S, A, n
  <2>3. Cardinality(A) < n
    BY <1>1, <2>1, <2>2
  <2> QED BY <2>3 DEF A, n
<1> QED BY <1>2, <1>3

\* No automatic run comes.
NoneComes(R) ==
  \A x \in Runs : R[x] # None /\ R[x].intent # None =>
    /\ runs[x] # None /\ runs[x].intent = R[x].intent
    /\ runs[x].project = R[x].project /\ runs[x].role = R[x].role

LEMMA LimitsShrink ==
  ASSUME TypeOK, IsFiniteSet({x \in Runs : runs[x] # None}), NEW R, NoneComes(R)
  PROVE  /\ WithinIn(runs) => WithinIn(R)
         /\ \A at, W : \A p \in Projects : RoomIn(runs, at, p, W) => RoomIn(R, at, p, W)
<1>1. ASSUME NEW ps, NEW rs, NEW W
      PROVE  /\ Cardinality(AutomaticIn(R, ps, rs) \ W) <= Cardinality(AutomaticIn(runs, ps, rs) \ W)
             /\ Cardinality(AutomaticIn(R, ps, rs) \ W) \in Nat
             /\ Cardinality(AutomaticIn(runs, ps, rs) \ W) \in Nat
  <2> DEFINE A == AutomaticIn(runs, ps, rs)
             B == AutomaticIn(R, ps, rs)
  <2>1. B \subseteq A
    BY DEF AutomaticIn, NoneComes
  <2>2. IsFiniteSet(A)
    BY AutomaticHeld
  <2> HIDE DEF A, B
  <2> DEFINE C == A \ W
             D == B \ W
  <2>3. C \in SUBSET A /\ D \in SUBSET C
    BY <2>1
  <2> HIDE DEF C, D
  <2>4. IsFiniteSet(C) /\ IsFiniteSet(D) /\ Cardinality(D) <= Cardinality(C)
    BY <2>2, <2>3, FS_Subset
  <2>5. Cardinality(C) \in Nat /\ Cardinality(D) \in Nat
    BY <2>4, FS_CardinalityType
  <2> QED BY <2>4, <2>5 DEF A, B, C, D
<1>2. ASSUME NEW ps, NEW rs
      PROVE  /\ Cardinality(AutomaticIn(R, ps, rs)) <= Cardinality(AutomaticIn(runs, ps, rs))
             /\ Cardinality(AutomaticIn(R, ps, rs)) \in Nat
             /\ Cardinality(AutomaticIn(runs, ps, rs)) \in Nat
  <2> DEFINE A == AutomaticIn(runs, ps, rs)
             B == AutomaticIn(R, ps, rs)
  <2>1. /\ Cardinality(B \ {}) <= Cardinality(A \ {})
        /\ Cardinality(B \ {}) \in Nat /\ Cardinality(A \ {}) \in Nat
    BY <1>1
  <2> HIDE DEF A, B
  <2>2. A \ {} = A /\ B \ {} = B
    OBVIOUS
  <2>3. Cardinality(B) <= Cardinality(A) /\ Cardinality(B) \in Nat /\ Cardinality(A) \in Nat
    BY <2>1, <2>2
  <2> QED BY <2>3 DEF A, B
<1>3. /\ DeviceMax \in Nat
      /\ \A p \in Projects : ProjectMax[p] \in Nat
      /\ \A r \in Roles : RoleMax[r] \in Nat
  BY LimitsAssumption
<1>c. ASSUME NEW m \in Nat, NEW k \in Nat, NEW n \in Nat, k <= m
      PROVE  (m <= n => k <= n) /\ (m < n => k < n)
  BY <1>c
<1>4. ASSUME WithinIn(runs) PROVE WithinIn(R)
  <2>1. Cardinality(AutomaticIn(R, Projects, Roles)) <= DeviceMax
    BY <1>2, <1>3, <1>4, <1>c DEF WithinIn
  <2>2. ASSUME NEW p \in Projects PROVE Cardinality(AutomaticIn(R, {p}, Roles)) <= ProjectMax[p]
    BY <1>2, <1>3, <1>4, <1>c DEF WithinIn
  <2>3. ASSUME NEW p \in Projects, NEW r \in Roles
        PROVE  Cardinality(AutomaticIn(R, {p}, {r})) <= RoleMax[r]
    BY <1>2, <1>3, <1>4, <1>c DEF WithinIn
  <2> QED BY <2>1, <2>2, <2>3 DEF WithinIn
<1>5. ASSUME NEW at, NEW W, NEW p \in Projects, RoomIn(runs, at, p, W) PROVE RoomIn(R, at, p, W)
  <2>1. ASSUME at \in {"pass", "await", "rejected"}
        PROVE  Cardinality(AutomaticIn(R, Projects, Roles) \ W) < DeviceMax
    BY <1>1, <1>3, <1>5, <1>c, <2>1 DEF RoomIn
  <2>2. ASSUME at \in {"pass", "await", "rejected"}
        PROVE  Cardinality(AutomaticIn(R, {p}, Roles) \ W) < ProjectMax[p]
    BY <1>1, <1>3, <1>5, <1>c, <2>2 DEF RoomIn
  <2> QED BY <2>1, <2>2 DEF RoomIn
<1> QED BY <1>4, <1>5

\* One automatic run comes.
LEMMA LimitsGrow ==
  ASSUME TypeOK, IsFiniteSet({x \in Runs : runs[x] # None}),
         NEW x \in Runs, NEW p \in Projects, NEW r \in Roles, NEW id \in Activations,
         QueueOneRun(x, p, r, id), RoomIn(runs, "pass", p, {}), RoleRemaining(p, r) > 0,
         WithinIn(runs)
  PROVE  WithinIn(runs') /\ RoomIn(runs', "await", p, {x})
<1>1. /\ runs[x] = None /\ runs'[x] # None /\ runs'[x].intent = id /\ id # None
      /\ runs'[x].project = p /\ runs'[x].role = r
      /\ \A y \in Runs : y # x => runs'[y] = runs[y]
  BY QueuedRow, Somes
<1>2. ASSUME NEW ps, NEW rs
      PROVE  /\ AutomaticIn(runs', ps, rs) = AutomaticIn(runs, ps, rs) \cup
                  (IF p \in ps /\ r \in rs THEN {x} ELSE {})
             /\ x \notin AutomaticIn(runs, ps, rs)
  BY <1>1 DEF AutomaticIn
<1>3. ASSUME NEW ps, NEW rs
      PROVE  /\ Cardinality(AutomaticIn(runs, ps, rs)) \in Nat
             /\ p \in ps /\ r \in rs =>
                  Cardinality(AutomaticIn(runs', ps, rs)) = Cardinality(AutomaticIn(runs, ps, rs)) + 1
             /\ ~(p \in ps /\ r \in rs) =>
                  AutomaticIn(runs', ps, rs) = AutomaticIn(runs, ps, rs)
             /\ AutomaticIn(runs', ps, rs) \ {x} = AutomaticIn(runs, ps, rs)
  <2> DEFINE A == AutomaticIn(runs, ps, rs)
             B == AutomaticIn(runs', ps, rs)
  <2>1. B = A \cup (IF p \in ps /\ r \in rs THEN {x} ELSE {}) /\ x \notin A
    BY <1>2
  <2>2. IsFiniteSet(A)
    BY AutomaticHeld
  <2> HIDE DEF A, B
  <2>3. Cardinality(A) \in Nat /\ Cardinality(A \cup {x}) = Cardinality(A) + 1
    BY <2>1, <2>2, FS_CardinalityType, FS_AddElement
  <2>4. B \ {x} = A
    BY <2>1
  <2> QED BY <2>1, <2>3, <2>4 DEF A, B
<1>4. /\ DeviceMax \in Nat
      /\ \A q \in Projects : ProjectMax[q] \in Nat
      /\ \A s \in Roles : RoleMax[s] \in Nat
  BY LimitsAssumption
<1>5. /\ Cardinality(AutomaticIn(runs, Projects, Roles)) < DeviceMax
      /\ Cardinality(AutomaticIn(runs, {p}, Roles)) < ProjectMax[p]
  <2>1. \A S : S \ {} = S
    OBVIOUS
  <2> QED BY <2>1 DEF RoomIn
<1>6. Cardinality(AutomaticIn(runs, {p}, {r})) < RoleMax[r]
  BY RoomCounts
<1>7. RoomIn(runs', "await", p, {x})
  BY <1>3, <1>5 DEF RoomIn
<1>8. Cardinality(AutomaticIn(runs', Projects, Roles)) <= DeviceMax
  BY <1>3, <1>4, <1>5
<1>9. ASSUME NEW q \in Projects PROVE Cardinality(AutomaticIn(runs', {q}, Roles)) <= ProjectMax[q]
  <2>1. CASE q = p
    BY <1>3, <1>4, <1>5, <2>1
  <2>2. CASE q # p
    BY <1>3, <2>2 DEF WithinIn
  <2> QED BY <2>1, <2>2
<1>10. ASSUME NEW q \in Projects, NEW s \in Roles
       PROVE  Cardinality(AutomaticIn(runs', {q}, {s})) <= RoleMax[s]
  <2>1. CASE q = p /\ s = r
    BY <1>3, <1>4, <1>6, <2>1
  <2>2. CASE q # p \/ s # r
    BY <1>3, <2>2 DEF WithinIn
  <2> QED BY <2>1, <2>2
<1> QED BY <1>7, <1>8, <1>9, <1>10 DEF WithinIn

\* A pass goes on after a count, a role that got no run, or one that reached its limit.
LEMMA PassGoesOn ==
  ASSUME TypeOK, TickInv, RoundInv, Dispatcher, tick'.at = "pass"
  PROVE  /\ tick'.project = tick.project /\ tick.project \in Projects
         /\ \/ tick.at \in {"room", "after"} /\ Room(tick.project) > 0
            \/ tick.at \in {"pass", "rejected"}
            \/ /\ tick.at = "await" /\ tick.run \in Runs
               /\ \/ ~SeenStarted(tick.run)
                  \/ \E r \in Roles : ExecutionLimit[r] > 0
<1>t. tick \in Tick
  BY DEF TypeOK
<1>p. tick.at \in Working => tick.project \in Projects
  BY TickOKIs DEF TickOK, TypeOK, ShapeOf, Shape, Working
<1>1. ~(WatcherMarks \/ DropUnwanted \/ MarkDue \/ SortsDueIntents \/ PassEnds \/ ListIntents)
  BY <1>t DEF WatcherMarks, DropUnwanted, MarkDue, SortsDueIntents, PassEnds, ListIntents, Tick
<1>2. /\ ~WatcherEnds /\ ~TickAllProjects /\ ~ReadConfiguration /\ ~TickEnds /\ ~TickReturns
      /\ tick' # NextProject
  <2>1. ~WatcherEnds
    BY DEF WatcherEnds, TickIdle
  <2>2. ~TickAllProjects
    BY <1>t DEF TickAllProjects, Tick
  <2>3. ~ReadConfiguration
    BY DEF ReadConfiguration, TickIdle
  <2>4. ~TickEnds
    BY DEF TickEnds, TickIdle
  <2>5. tick' # NextProject
    BY DEF NextProject, TickIdle
  <2>6. ~TickReturns
    BY <2>5 DEF TickReturns
  <2> QED BY <2>1, <2>2, <2>3, <2>4, <2>5, <2>6
<1>3. CASE CheckRoom
  <2>1. tick.at = "room" /\ Room(tick.project) > 0
        /\ tick' = [tick EXCEPT !.at = "pass", !.pass = tick.due, !.progress = FALSE]
    BY <1>2, <1>3 DEF CheckRoom
  <2>2. tick'.project = tick.project
    BY <1>t, <2>1 DEF Tick
  <2> QED BY <1>p, <2>1, <2>2 DEF Working
<1>4. ASSUME NEW due, tick' = Leaves(due) \/ tick' = [Leaves(due) EXCEPT !.progress = TRUE]
      PROVE  tick'.project = tick.project
  BY <1>t, <1>4 DEF Leaves, Tick
<1>5. CASE NoSeatForRole \/ PreflightRefuses \/ DropRejected
  <2>1. tick.at \in {"pass", "rejected"} /\ tick'.project = tick.project
    BY <1>4, <1>5 DEF NoSeatForRole, PreflightRefuses, DropRejected
  <2> QED BY <1>p, <2>1 DEF Working
<1>r. ~RunRejected
  BY <1>t DEF RunRejected, Tick
<1>6. CASE RunNotStarted
  <2>1. tick.at = "await" /\ tick'.project = tick.project /\ ~SeenStarted(tick.run)
    BY <1>4, <1>6 DEF RunNotStarted
  <2>2. tick.run \in Runs
    BY <2>1, TickWorks DEF Starting
  <2> QED BY <1>p, <2>1, <2>2 DEF Working
<1>7. ASSUME NEW x \in Runs, TickQueuesRun(x) PROVE FALSE
  BY <1>7, TickAwaits DEF TickNow
<1>8. CASE RunStarted
  <2> DEFINE i == [tick.copies[Served] EXCEPT !.started = Counted(@, Served)]
  <2>0. tick.at = "await" /\ tick.run \in Runs /\ Served \in Roles
    BY <1>8, TickWorks DEF RunStarted, Starting, Serving
  <2>1. CASE AtLimit(i, Served)
    <3>1. tick' = [Leaves(Without(tick.due, {Served})) EXCEPT !.progress = TRUE]
      BY <1>8, <2>1 DEF RunStarted
    <3>2. tick'.project = tick.project
      BY <1>4, <3>1
    <3>3. ExecutionLimit[Served] > 0
      BY <2>1 DEF AtLimit
    <3> QED BY <1>p, <2>0, <3>2, <3>3 DEF Working
  <2>2. CASE ~AtLimit(i, Served)
    <3>1. tick' = [tick EXCEPT !.at = "after", !.progress = TRUE, !.copies[Served] = i]
      BY <1>8, <2>2 DEF RunStarted
    <3> HIDE DEF i
    <3>2. tick'.at = "after"
      BY <1>t, <3>1 DEF Tick
    <3> QED BY <3>2
  <2> QED BY <2>1, <2>2
<1>9. CASE CountAgain
  <2> DEFINE due == IF RoleRemaining(tick.project, Served) = 0
               THEN Without(tick.due, {Served}) ELSE tick.due
  <2>1. /\ tick.at = "after"
        /\ \/ tick' = Leaves(due) /\ Room(tick.project) > 0
           \/ tick' = [tick EXCEPT !.at = "room", !.due = due, !.pass = <<>>, !.run = None]
    BY <1>9 DEF CountAgain
  <2> HIDE DEF due
  <2>2. tick' # [tick EXCEPT !.at = "room", !.due = due, !.pass = <<>>, !.run = None]
    BY <1>t DEF Tick
  <2>3. tick'.project = tick.project
    BY <1>4, <2>1, <2>2
  <2> QED BY <1>p, <2>1, <2>2, <2>3 DEF Working
<1> QED BY <1>1, <1>2, <1>3, <1>5, <1>r, <1>6, <1>7, <1>8, <1>9 DEF Dispatcher

\* Only a run that was refused has its intent dropped after it was saved.
LEMMA RejectBegins ==
  ASSUME TypeOK, TickInv, RoundInv, Dispatcher, tick'.at = "rejected"
  PROVE  /\ tick.at = "await" /\ tick.run \in Runs /\ ~SeenStarted(tick.run)
         /\ tick'.project = tick.project
<1>t. tick \in Tick
  BY DEF TypeOK
<1>1. ~(WatcherMarks \/ DropUnwanted \/ MarkDue \/ SortsDueIntents \/ PassEnds \/ ListIntents)
  BY <1>t DEF WatcherMarks, DropUnwanted, MarkDue, SortsDueIntents, PassEnds, ListIntents, Tick
<1>2. ~(WatcherEnds \/ TickAllProjects \/ ReadConfiguration \/ TickEnds \/ TickReturns)
  <2>1. ~WatcherEnds
    BY DEF WatcherEnds, TickIdle
  <2>2. ~TickAllProjects
    BY <1>t DEF TickAllProjects, Tick
  <2>3. ~ReadConfiguration
    BY DEF ReadConfiguration, TickIdle
  <2>4. ~TickEnds
    BY DEF TickEnds, TickIdle
  <2>5. ~TickReturns
    BY DEF TickReturns, NextProject, TickIdle
  <2> QED BY <2>1, <2>2, <2>3, <2>4, <2>5
<1>3. ~CheckRoom
  BY <1>t DEF CheckRoom, NextProject, TickIdle, Tick
<1>4. ASSUME NEW due, tick' = Leaves(due) \/ tick' = [Leaves(due) EXCEPT !.progress = TRUE]
      PROVE  FALSE
  BY <1>t, <1>4 DEF Leaves, Tick
<1>5. ~(NoSeatForRole \/ PreflightRefuses \/ RunNotStarted \/ DropRejected)
  BY <1>4 DEF NoSeatForRole, PreflightRefuses, RunNotStarted, DropRejected
<1>6. ~RunStarted
  <2> DEFINE i == [tick.copies[Served] EXCEPT !.started = Counted(@, Served)]
  <2>1. \/ tick' = [tick EXCEPT !.at = "after", !.progress = TRUE, !.copies[Served] = i]
        \/ tick' = [Leaves(Without(tick.due, {Served})) EXCEPT !.progress = TRUE]
        \/ ~RunStarted
    BY DEF RunStarted
  <2> HIDE DEF i
  <2>2. tick' # [tick EXCEPT !.at = "after", !.progress = TRUE, !.copies[Served] = i]
    BY <1>t DEF Tick
  <2> QED BY <1>4, <2>1, <2>2
<1>7. ~CountAgain
  <2> DEFINE due == IF RoleRemaining(tick.project, Served) = 0
               THEN Without(tick.due, {Served}) ELSE tick.due
  <2>1. \/ tick' = Leaves(due)
        \/ tick' = [tick EXCEPT !.at = "room", !.due = due, !.pass = <<>>, !.run = None]
        \/ ~CountAgain
    BY DEF CountAgain
  <2> HIDE DEF due
  <2>2. tick' # [tick EXCEPT !.at = "room", !.due = due, !.pass = <<>>, !.run = None]
    BY <1>t DEF Tick
  <2> QED BY <1>4, <2>1, <2>2
<1>8. ASSUME NEW x \in Runs, TickQueuesRun(x) PROVE FALSE
  BY <1>8, TickAwaits DEF TickNow
<1>9. RunRejected
  BY <1>1, <1>2, <1>3, <1>5, <1>6, <1>7, <1>8 DEF Dispatcher
<1>10. tick.at = "await" /\ ~SeenStarted(tick.run) /\ tick'.project = tick.project
  BY <1>t, <1>9 DEF RunRejected, Tick
<1> QED BY <1>10, TickWorks DEF Starting

\* Without the run a tick waited for in vain, there is the room it had before.
LEMMA RoomWithout ==
  ASSUME AwaitedWorks, tick.at = "await", ~SeenStarted(tick.run),
         RoomIn(runs, "await", tick.project, {tick.run})
  PROVE  RoomIn(runs, "pass", tick.project, {}) /\ RoomIn(runs, "rejected", tick.project, {})
<1>1. runs[tick.run] = None
  BY DEF AwaitedWorks, SeenStarted
<1>2. \A ps, rs : tick.run \notin AutomaticIn(runs, ps, rs)
  BY <1>1 DEF AutomaticIn
<1>3. \A ps, rs : AutomaticIn(runs, ps, rs) \ {tick.run} = AutomaticIn(runs, ps, rs) \ {}
  BY <1>2
<1> QED BY <1>3 DEF RoomIn

LEMMA LimitsKept ==
  ASSUME Base, AwaitedWorks, RoomInv, AutomaticWithinLimits, CountsEachTime, [Next]_vars
  PROVE  RoomInv' /\ AutomaticWithinLimits'
<1>0. /\ TypeOK /\ TickInv /\ RoundInv /\ CommandInv
      /\ IsFiniteSet({x \in Runs : runs[x] # None})
  BY DEF Base
<1>w. /\ WithinIn(runs)
      /\ RoomIn(runs, tick.at, tick.project, AwaitsAt(tick.at, tick.run))
  BY LimitParts
<1>p. tick.at \in {"pass", "await", "rejected"} => tick.project \in Projects
  BY <1>0, TickOKIs DEF TickOK, TypeOK, ShapeOf, Shape
<1>1. ASSUME NoneComes(runs'), tick' = tick PROVE RoomInv' /\ AutomaticWithinLimits'
  <2>1. WithinIn(runs')
    BY <1>0, <1>1, <1>w, LimitsShrink
  <2>2. RoomIn(runs', tick.at, tick.project, AwaitsAt(tick.at, tick.run))
    <3>1. CASE tick.at \in {"pass", "await", "rejected"}
      BY <1>0, <1>1, <1>p, <1>w, <3>1, LimitsShrink
    <3>2. CASE tick.at \notin {"pass", "await", "rejected"}
      BY <3>2 DEF RoomIn
    <3> QED BY <3>1, <3>2
  <2> QED BY <1>1, <2>1, <2>2, LimitParts
<1>2. ASSUME NEW x \in Runs, RunMoves(x) PROVE RoomInv' /\ AutomaticWithinLimits'
  <2>1. NoneComes(runs') /\ tick' = tick
    BY <1>0, <1>2, MovedRow DEF NoneComes
  <2> QED BY <1>1, <2>1
<1>3. ASSUME NEW x \in Runs, NEW p \in Projects, NEW r \in Roles, QueueOneRun(x, p, r, None),
             tick' = tick
      PROVE  RoomInv' /\ AutomaticWithinLimits'
  <2>1. NoneComes(runs')
    BY <1>0, <1>3, QueuedRow DEF NoneComes
  <2> QED BY <1>1, <1>3, <2>1
<1>4. ASSUME NEW x \in Runs, TickQueuesRun(x) PROVE RoomInv' /\ AutomaticWithinLimits'
  <2> DEFINE p == tick.project
             r == Served
             id == tick.copies[Served].id
  <2>1. p \in Projects /\ r \in Roles /\ id \in Activations /\ QueueOneRun(x, p, r, id)
    BY <1>0, <1>4, TickQueues
  <2>2. tick.at = "pass" /\ RoleRemaining(p, r) > 0
    BY <1>4 DEF TickQueuesRun
  <2>3. RoomIn(runs, "pass", p, {})
    BY <1>w, <2>2 DEF AwaitsAt
  <2>4. tick'.at = "await" /\ tick'.project = p /\ tick'.run = x
    BY <1>0, <1>4, TickAwaits DEF TickNow
  <2> HIDE DEF p, r, id
  <2>5. WithinIn(runs') /\ RoomIn(runs', "await", p, {x})
    BY <1>0, <1>w, <2>1, <2>2, <2>3, LimitsGrow
  <2> QED BY <2>4, <2>5, LimitParts DEF AwaitsAt
<1>5. ASSUME runs' = runs, tick' # tick PROVE RoomInv' /\ AutomaticWithinLimits'
  <2>1. WithinIn(runs')
    BY <1>5, <1>w
  <2>2. CASE tick'.at = "pass"
    <3>1. Dispatcher
      <4>1. TickIdle.at # "pass"
        BY DEF TickIdle
      <4>2. ASSUME NEW p \in Projects, WatcherLists(p) PROVE tick'.at # "pass"
        BY <1>0, <4>2 DEF WatcherLists, TypeOK, Tick
      <4> QED BY <1>5, <2>2, <4>1, <4>2, TickMoves
    <3>2. /\ tick'.project = tick.project /\ tick.project \in Projects
          /\ \/ tick.at \in {"room", "after"} /\ Room(tick.project) > 0
             \/ tick.at \in {"pass", "rejected"}
             \/ /\ tick.at = "await" /\ tick.run \in Runs
                /\ \/ ~SeenStarted(tick.run)
                   \/ \E r \in Roles : ExecutionLimit[r] > 0
      BY <1>0, <2>2, <3>1, PassGoesOn
    <3>3. \A r \in Roles : ~(ExecutionLimit[r] > 0)
      BY LimitsAssumption DEF CountsEachTime
    <3>4. RoomIn(runs, "pass", tick.project, {})
      <4>1. CASE Room(tick.project) > 0
        BY <1>0, <3>2, <4>1, RoomCounts
      <4>2. CASE tick.at \in {"pass", "rejected"}
        BY <1>w, <4>2 DEF AwaitsAt, RoomIn
      <4>3. CASE tick.at = "await" /\ tick.run \in Runs /\ ~SeenStarted(tick.run)
        <5>1. RoomIn(runs, "await", tick.project, {tick.run})
          BY <1>w, <4>3 DEF AwaitsAt
        <5> QED BY <4>3, <5>1, RoomWithout
      <4> QED BY <3>2, <3>3, <4>1, <4>2, <4>3
    <3> QED BY <1>5, <2>1, <2>2, <3>2, <3>4, LimitParts DEF AwaitsAt
  <2>3. CASE tick'.at = "await"
    <3>1. Dispatcher
      <4>1. TickIdle.at # "await"
        BY DEF TickIdle
      <4>2. ASSUME NEW p \in Projects, WatcherLists(p) PROVE tick'.at # "await"
        BY <1>0, <4>2 DEF WatcherLists, TypeOK, Tick
      <4> QED BY <1>5, <2>3, <4>1, <4>2, TickMoves
    <3> QED BY <1>0, <1>4, <2>3, <3>1, WaitBegins
  <2>5. CASE tick'.at = "rejected"
    <3>1. Dispatcher
      <4>1. TickIdle.at # "rejected"
        BY DEF TickIdle
      <4>2. ASSUME NEW p \in Projects, WatcherLists(p) PROVE tick'.at # "rejected"
        BY <1>0, <4>2 DEF WatcherLists, TypeOK, Tick
      <4> QED BY <1>5, <2>5, <4>1, <4>2, TickMoves
    <3>2. /\ tick.at = "await" /\ tick.run \in Runs /\ ~SeenStarted(tick.run)
          /\ tick'.project = tick.project
      BY <1>0, <2>5, <3>1, RejectBegins
    <3>3. RoomIn(runs, "await", tick.project, {tick.run})
      BY <1>w, <3>2 DEF AwaitsAt
    <3>4. RoomIn(runs, "rejected", tick.project, {})
      BY <3>2, <3>3, RoomWithout
    <3> QED BY <1>5, <2>1, <2>5, <3>2, <3>4, LimitParts DEF AwaitsAt
  <2>4. CASE tick'.at \notin {"pass", "await", "rejected"}
    BY <2>1, <2>4, LimitParts DEF RoomIn
  <2> QED BY <2>2, <2>3, <2>4, <2>5
<1>6. ASSUME runs' = runs, tick' = tick PROVE NoneComes(runs')
  BY <1>6 DEF NoneComes
<1> QED BY <1>0, <1>1, <1>2, <1>3, <1>4, <1>5, <1>6, RunsMove

LEMMA LimitsInit ==
  ASSUME Init
  PROVE  AwaitedWorks /\ RoomInv /\ AutomaticWithinLimits
<1>1. tick.at = "idle"
  BY DEF Init, TickIdle
<1>2. \A ps, rs : Automatic(ps, rs) = {}
  BY DEF Init, Automatic
<1>3. AutomaticWithinLimits
  <2>1. \A ps, rs : Cardinality(Automatic(ps, rs)) = 0
    BY <1>2, FS_EmptySet
  <2>2. 0 <= DeviceMax
    BY LimitsAssumption
  <2>3. ASSUME NEW p \in Projects PROVE 0 <= ProjectMax[p]
    BY LimitsAssumption
  <2>4. ASSUME NEW r \in Roles PROVE 0 <= RoleMax[r]
    BY LimitsAssumption
  <2> QED BY <2>1, <2>2, <2>3, <2>4 DEF AutomaticWithinLimits
<1> QED BY <1>1, <1>3 DEF AwaitedWorks, RoomInv

\* Whatever is queued by hand beside it, dropped with cleanup left, adopted again or
\* over while a tick waits for another run, ticks never have more runs than a limit
\* allows, as long as the tick counts again after each run it starts (tick_project,
\* agent_dispatch.py:1845): no role has an execution limit, whose end skips the
\* recount, and no run is dropped before its starter has looked.
THEOREM LimitsCorrect == ASSUME CountsEachTime PROVE Spec => []AutomaticWithinLimits
<1> DEFINE I == Base /\ AwaitedWorks /\ RoomInv /\ AutomaticWithinLimits
<1>1. Init => I
  BY BaseInit, LimitsInit
<1>2. I /\ [Next]_vars => I'
  <2> SUFFICES ASSUME I, [Next]_vars PROVE I'
    OBVIOUS
  <2>1. Base'
    BY BaseKept
  <2>2. AwaitedWorks'
    BY AwaitedKept DEF WaitsInPeace, CountsEachTime
  <2>3. RoomInv' /\ AutomaticWithinLimits'
    BY LimitsKept
  <2> QED BY <2>1, <2>2, <2>3
<1>3. I => AutomaticWithinLimits
  OBVIOUS
<1> HIDE DEF I
<1> QED BY <1>1, <1>2, <1>3, PTL DEF Spec

-----------------------------------------------------------------------------
(* An activation serves no more than its limit.                            *)

\* The parts of the invariant, over the tables and the tick they read.
NamedIn(I, t, a, p, r) ==
  \/ I[p][r] # None /\ I[p][r].id = a
  \/ p = t.project /\ t.copies[r] # None /\ t.copies[r].id = a

OneSlotIn(I, t) ==
  \A a \in Activations, p, q \in Projects, r, s \in Roles :
    NamedIn(I, t, a, p, r) /\ NamedIn(I, t, a, q, s) => p = q /\ r = s

PendingIn(R, r, a) ==
  {x \in Runs : R[x] # None /\ R[x].state = "queued" /\ R[x].role = r /\ R[x].intent = a}

UncountedIn(t, R, r, a) ==
  IF /\ t.at = "await" /\ R[t.run] # None
     /\ R[t.run].role = r /\ R[t.run].intent = a THEN 1 ELSE 0

PromisedIn(S, R, r, a) == S[r][a] + Cardinality(PendingIn(R, r, a))

LimitedIn(S, R) ==
  \A r \in Roles, a \in Activations :
    IF ExecutionLimit[r] > 0 THEN PromisedIn(S, R, r, a) <= ExecutionLimit[r]
                             ELSE S[r][a] = 0

CountedIn(S, R, t, r, i) ==
  ExecutionLimit[r] > 0 => PromisedIn(S, R, r, i.id) <= i.started + UncountedIn(t, R, r, i.id)

CountIn(S, R, t, I) ==
  /\ LimitedIn(S, R)
  /\ \A p \in Projects, r \in Roles : I[p][r] # None => CountedIn(S, R, t, r, I[p][r])
  /\ \A r \in Live(t) \cap Roles : t.copies[r] # None => CountedIn(S, R, t, r, t.copies[r])
  /\ \A r \in ToSet(t.due) : ~AtLimit(t.copies[r], r)

KeptIn(I, t, r) == {I[p][r] : p \in Projects} \cup {t.copies[s] : s \in {r} \cap Live(t)}

LEMMA KeptParts ==
  ASSUME NEW I, NEW t, NEW S, NEW R
  PROVE  (\A r \in Roles : \A i \in KeptIn(I, t, r) \ {None} : CountedIn(S, R, t, r, i))
         <=> /\ \A p \in Projects, r \in Roles : I[p][r] # None => CountedIn(S, R, t, r, I[p][r])
             /\ \A r \in Live(t) \cap Roles :
                  t.copies[r] # None => CountedIn(S, R, t, r, t.copies[r])
<1>1. ASSUME \A r \in Roles : \A i \in KeptIn(I, t, r) \ {None} : CountedIn(S, R, t, r, i)
      PROVE  /\ \A p \in Projects, r \in Roles : I[p][r] # None => CountedIn(S, R, t, r, I[p][r])
             /\ \A r \in Live(t) \cap Roles :
                  t.copies[r] # None => CountedIn(S, R, t, r, t.copies[r])
  <2>1. \A p \in Projects, r \in Roles : I[p][r] \in KeptIn(I, t, r)
    BY DEF KeptIn
  <2>2. \A r \in Live(t) : t.copies[r] \in KeptIn(I, t, r)
    BY DEF KeptIn
  <2> QED BY <1>1, <2>1, <2>2
<1>2. ASSUME /\ \A p \in Projects, r \in Roles : I[p][r] # None => CountedIn(S, R, t, r, I[p][r])
             /\ \A r \in Live(t) \cap Roles :
                  t.copies[r] # None => CountedIn(S, R, t, r, t.copies[r]),
             NEW r \in Roles, NEW i \in KeptIn(I, t, r), i # None
      PROVE  CountedIn(S, R, t, r, i)
  <2>1. \/ \E p \in Projects : i = I[p][r]
        \/ r \in Live(t) /\ i = t.copies[r]
    BY DEF KeptIn
  <2> QED BY <1>2, <2>1
<1> QED BY <1>1, <1>2

LEMMA CountParts ==
  /\ OneSlotEach <=> OneSlotIn(intents, tick)
  /\ OneSlotEach' <=> OneSlotIn(intents', tick')
  /\ CountInv <=> CountIn(starts, runs, tick, intents)
  /\ CountInv' <=> CountIn(starts', runs', tick', intents')
<1>1. OneSlotEach <=> OneSlotIn(intents, tick)
  BY DEF OneSlotEach, OneSlotIn, Named, NamedIn
<1>2. OneSlotEach' <=> OneSlotIn(intents', tick')
  BY DEF OneSlotEach, OneSlotIn, Named, NamedIn
<1>3. CountInv <=>
        /\ LimitedIn(starts, runs)
        /\ \A r \in Roles : \A i \in KeptIn(intents, tick, r) \ {None} :
             CountedIn(starts, runs, tick, r, i)
        /\ \A r \in ToSet(tick.due) : ~AtLimit(tick.copies[r], r)
  BY DEF CountInv, LimitedIn, KeptIn, Kept, Live, CountedIn, CountsAll, PromisedIn, Promised,
         PendingIn, Pending, UncountedIn, Uncounted
<1>4. CountInv' <=>
        /\ LimitedIn(starts', runs')
        /\ \A r \in Roles : \A i \in KeptIn(intents', tick', r) \ {None} :
             CountedIn(starts', runs', tick', r, i)
        /\ \A r \in ToSet(tick'.due) : ~AtLimit(tick'.copies[r], r)
  BY DEF CountInv, LimitedIn, KeptIn, Kept, Live, CountedIn, CountsAll, PromisedIn, Promised,
         PendingIn, Pending, UncountedIn, Uncounted
<1>5. CountInv <=> CountIn(starts, runs, tick, intents)
  BY <1>3, KeptParts DEF CountIn
<1>6. CountInv' <=> CountIn(starts', runs', tick', intents')
  BY <1>4, KeptParts DEF CountIn
<1> QED BY <1>1, <1>2, <1>5, <1>6

\* Where a row or a copy comes from, with its project and without.
Source(p, r, j) ==
  /\ j \in Intent
  /\ j = intents[p][r] \/ (p = tick.project /\ r \in Live(tick) /\ j = tick.copies[r])

Origin(r, j) ==
  /\ j \in Intent
  /\ (\E p \in Projects : j = intents[p][r]) \/ (r \in Live(tick) /\ j = tick.copies[r])

RowsStay ==
  \A p \in Projects, r \in Roles : intents'[p][r] # None =>
    \E j : Source(p, r, j) /\ SameCount(intents'[p][r], j)

CopiesStay ==
  /\ \A p \in Projects, r \in Roles : p = tick'.project /\ tick'.copies[r] # None =>
       NamedIn(intents, tick, tick'.copies[r].id, p, r)
  /\ \A r \in Live(tick') \cap Roles : tick'.copies[r] # None =>
       \E j : Origin(r, j) /\ SameCount(tick'.copies[r], j)
  /\ \A r \in ToSet(tick'.due) : ~AtLimit(tick'.copies[r], r)

LEMMA SourceIs ==
  ASSUME CountInv, NEW p \in Projects, NEW r \in Roles, NEW j, Source(p, r, j)
  PROVE  NamedIn(intents, tick, j.id, p, r) /\ Origin(r, j)
<1>1. j # None
  BY Somes DEF Source
<1> QED BY <1>1 DEF Source, Origin, NamedIn

LEMMA OriginCounted ==
  ASSUME CountInv, NEW r \in Roles, NEW j, Origin(r, j)
  PROVE  CountedIn(starts, runs, tick, r, j)
<1>1. j # None
  BY Somes DEF Origin
<1>2. CountIn(starts, runs, tick, intents)
  BY CountParts
<1> QED BY <1>1, <1>2 DEF Origin, CountIn

LEMMA OneSlotKept ==
  ASSUME OneSlotEach, CountInv, RowsStay, CopiesStay
  PROVE  OneSlotEach'
<1>1. ASSUME NEW a, NEW p \in Projects, NEW r \in Roles, NamedIn(intents', tick', a, p, r)
      PROVE  NamedIn(intents, tick, a, p, r)
  <2>1. CASE intents'[p][r] # None /\ intents'[p][r].id = a
    <3>1. PICK j : Source(p, r, j) /\ SameCount(intents'[p][r], j)
      BY <2>1 DEF RowsStay
    <3> QED BY <2>1, <3>1, SourceIs DEF SameCount
  <2>2. CASE p = tick'.project /\ tick'.copies[r] # None /\ tick'.copies[r].id = a
    BY <2>2 DEF CopiesStay
  <2> QED BY <1>1, <2>1, <2>2 DEF NamedIn
<1>2. OneSlotIn(intents, tick)
  BY CountParts
<1>3. OneSlotIn(intents', tick')
  BY <1>1, <1>2 DEF OneSlotIn
<1> QED BY <1>3, CountParts

\* What is promised is a number, and a run that is not counted is one of them.
LEMMA PromisesTyped ==
  ASSUME NEW S \in [Roles -> [Activations -> Nat]], NEW R, IsFiniteSet({x \in Runs : R[x] # None}),
         NEW r \in Roles, NEW a \in Activations
  PROVE  /\ IsFiniteSet(PendingIn(R, r, a)) /\ Cardinality(PendingIn(R, r, a)) \in Nat
         /\ S[r][a] \in Nat /\ PromisedIn(S, R, r, a) \in Nat
         /\ S[r][a] <= PromisedIn(S, R, r, a)
<1> DEFINE F == {x \in Runs : R[x] # None}
           P == PendingIn(R, r, a)
<1>1. P \in SUBSET F
  BY DEF PendingIn
<1> HIDE DEF F, P
<1>2. IsFiniteSet(P) /\ Cardinality(P) \in Nat
  <2>1. IsFiniteSet(F)
    BY DEF F
  <2> QED BY <1>1, <2>1, FS_Subset, FS_CardinalityType
<1> QED BY <1>2 DEF P, PromisedIn

LEMMA UncountedTyped == \A t, R, r, a : UncountedIn(t, R, r, a) \in {0, 1}
  BY DEF UncountedIn

\* No step but the tick's own promises more than it writes down.
CountsStay ==
  /\ LimitedIn(starts', runs')
  /\ \A r \in Roles, a \in Activations : ExecutionLimit[r] > 0 =>
       PromisedIn(starts', runs', r, a) - UncountedIn(tick', runs', r, a)
         <= PromisedIn(starts, runs, r, a) - UncountedIn(tick, runs, r, a)

LEMMA CountKept ==
  ASSUME Base, Base', CountInv, RowsStay, CopiesStay, CountsStay
  PROVE  CountInv'
<1>0. /\ starts \in [Roles -> [Activations -> Nat]] /\ starts' \in [Roles -> [Activations -> Nat]]
      /\ IsFiniteSet({x \in Runs : runs[x] # None}) /\ IsFiniteSet({x \in Runs : runs'[x] # None})
  BY DEF Base, TypeOK
<1>1. ASSUME NEW r \in Roles, NEW i, NEW j, Origin(r, j), SameCount(i, j)
      PROVE  CountedIn(starts', runs', tick', r, i)
  <2>1. CountedIn(starts, runs, tick, r, j)
    BY <1>1, OriginCounted
  <2>2. j.id \in Activations /\ i.id = j.id /\ i.started = j.started /\ j.started \in Nat
    BY <1>1 DEF Origin, Intent, SameCount
  <2> SUFFICES ASSUME ExecutionLimit[r] > 0
               PROVE  PromisedIn(starts', runs', r, i.id)
                        <= i.started + UncountedIn(tick', runs', r, i.id)
    BY DEF CountedIn
  <2> DEFINE P == PromisedIn(starts, runs, r, i.id)
             Q == PromisedIn(starts', runs', r, i.id)
             U == UncountedIn(tick, runs, r, i.id)
             V == UncountedIn(tick', runs', r, i.id)
  <2>3. P <= i.started + U
    BY <2>1, <2>2 DEF CountedIn
  <2>4. Q - V <= P - U
    BY <2>2 DEF CountsStay
  <2>5. P \in Nat /\ Q \in Nat
    BY <1>0, <2>2, PromisesTyped
  <2>6. U \in {0, 1} /\ V \in {0, 1}
    BY UncountedTyped
  <2> HIDE DEF P, Q, U, V
  <2>7. Q <= i.started + V
    BY <2>2, <2>3, <2>4, <2>5, <2>6
  <2> QED BY <2>7 DEF Q, V
<1>2. ASSUME NEW p \in Projects, NEW r \in Roles, intents'[p][r] # None
      PROVE  CountedIn(starts', runs', tick', r, intents'[p][r])
  <2>1. PICK j : Source(p, r, j) /\ SameCount(intents'[p][r], j)
    BY <1>2 DEF RowsStay
  <2> QED BY <1>1, <2>1, SourceIs
<1>3. ASSUME NEW r \in Live(tick') \cap Roles, tick'.copies[r] # None
      PROVE  CountedIn(starts', runs', tick', r, tick'.copies[r])
  <2>1. PICK j : Origin(r, j) /\ SameCount(tick'.copies[r], j)
    BY <1>3 DEF CopiesStay
  <2> QED BY <1>1, <2>1
<1>4. CountIn(starts', runs', tick', intents')
  BY <1>2, <1>3 DEF CountIn, CountsStay, CopiesStay
<1> QED BY <1>4, CountParts

\* The copies a tick may write back are intents.
LEMMA LiveIntents ==
  ASSUME TypeOK, TickInv
  PROVE  \A r \in Live(tick) : r \in Roles /\ tick.copies[r] \in Intent
<1>1. /\ tick.copies \in Copies /\ tick.todo \in Seq(Roles) /\ tick.due \in Seq(Roles)
  BY TickFields DEF TypeOK
<1>2. ToSet(tick.todo) \subseteq Roles /\ ToSet(tick.due) \subseteq Roles
  BY <1>1, ToSetIs
<1> QED BY <1>1, <1>2 DEF TickInv, Live, Copies

\* A row that is not new and not just counted says what a row or a copy said before.
LEMMA RowsKept ==
  ASSUME Base, [Next]_vars, ~RunStarted,
         ~(\E c \in Clients, a \in Activations : Activate(c, a))
  PROVE  RowsStay
<1>0. /\ TypeOK /\ TickInv /\ RoundInv /\ CommandInv
      /\ intents \in [Projects -> [Roles -> Intent \cup {None}]]
  BY DEF Base, TypeOK
<1>1. ASSUME NEW p \in Projects, NEW r \in Roles, intents[p][r] # None
      PROVE  Source(p, r, intents[p][r])
  BY <1>0, <1>1 DEF Source
<1>2. ASSUME \A p \in Projects, r \in Roles :
               intents'[p][r] # None =>
                 intents[p][r] # None /\ SameCount(intents'[p][r], intents[p][r])
      PROVE  RowsStay
  BY <1>1, <1>2 DEF RowsStay
<1>3. CASE intents' = intents
  BY <1>2, <1>3 DEF SameCount
<1>4. ASSUME NEW p \in Projects, NEW r \in Roles, NEW i \in Intent, SaveIntent(p, r, i), Renews(p, r, i)
      PROVE  RowsStay
  <2>1. Source(p, r, tick.copies[r]) /\ SameCount(i, tick.copies[r])
    BY <1>0, <1>4, LiveIntents DEF Source, Renews
  <2>2. \A q \in Projects, s \in Roles :
          intents'[q][s] = IF q = p /\ s = r THEN i ELSE intents[q][s]
    BY <1>0, <1>4 DEF SaveIntent
  <2>3. ASSUME NEW q \in Projects, NEW s \in Roles, intents'[q][s] # None
        PROVE  \E j : Source(q, s, j) /\ SameCount(intents'[q][s], j)
    <3>1. CASE q = p /\ s = r
      BY <2>1, <2>2, <3>1
    <3>2. CASE ~(q = p /\ s = r)
      BY <1>1, <2>2, <2>3, <3>2 DEF SameCount
    <3> QED BY <3>1, <3>2
  <2> QED BY <2>3 DEF RowsStay
<1>5. ASSUME NEW id, intents' = WithoutIntent(id) PROVE RowsStay
  BY <1>0, <1>2, <1>5 DEF WithoutIntent, SameCount
<1>6. ASSUME NEW late, TimePasses(late) PROVE RowsStay
  <2>1. ASSUME NEW p \in Projects, NEW r \in Roles, intents'[p][r] # None
        PROVE  intents[p][r] # None /\ SameCount(intents'[p][r], intents[p][r])
    <3>1. /\ intents[p][r] # None
          /\ intents'[p][r] = intents[p][r] \/ intents'[p][r] = [intents[p][r] EXCEPT !.due = TRUE]
      BY <1>6, <2>1 DEF TimePasses
    <3>2. intents[p][r] \in Intent
      BY <1>0, <3>1
    <3> QED BY <3>1, <3>2 DEF Intent, SameCount
  <2> QED BY <1>2, <2>1
<1>7. ASSUME NEW c \in Clients, SyncDrops(c) PROVE RowsStay
  <2>1. \A p \in Projects, r \in Roles : intents'[p][r] = intents[p][r] \/ intents'[p][r] = None
    BY <1>0, <1>7 DEF SyncDrops
  <2> QED BY <1>2, <2>1 DEF SameCount
<1> QED BY <1>0, <1>3, <1>4, <1>5, <1>6, <1>7, IntentsMove

\* The copies after a step that leaves them, forgets them or lists a project's rows.
LEMMA CopiesLeft ==
  ASSUME TypeOK, TickInv, CountInv, tick'.copies = tick.copies, tick'.project = tick.project,
         Live(tick') \subseteq Live(tick), ToSet(tick'.due) \subseteq ToSet(tick.due)
  PROVE  CopiesStay
<1>1. \A p \in Projects, r \in Roles : p = tick'.project /\ tick'.copies[r] # None =>
        NamedIn(intents, tick, tick'.copies[r].id, p, r)
  BY DEF NamedIn
<1>2. ASSUME NEW r \in Live(tick') \cap Roles
      PROVE  \E j : Origin(r, j) /\ SameCount(tick'.copies[r], j)
  <2>1. r \in Live(tick) /\ tick.copies[r] \in Intent
    BY <1>2, LiveIntents
  <2> QED BY <2>1 DEF Origin, SameCount
<1>3. \A r \in ToSet(tick'.due) : ~AtLimit(tick'.copies[r], r)
  BY CountParts DEF CountIn
<1> QED BY <1>1, <1>2, <1>3 DEF CopiesStay

LEMMA CopiesForgotten ==
  ASSUME NEW at, NEW p, NEW x, TickNow(tick', at, p, NoIntents, <<>>, <<>>, <<>>, x)
  PROVE  CopiesStay
<1>1. /\ tick'.copies = NoIntents /\ Live(tick') = {} /\ ToSet(tick'.due) = {}
  BY EmptyFacts DEF TickNow, Live
<1>2. \A r \in Roles : tick'.copies[r] = None
  BY <1>1 DEF NoIntents
<1> QED BY <1>1, <1>2 DEF CopiesStay

LEMMA CopiesListed ==
  ASSUME TypeOK, NEW at, NEW p \in Projects, NEW s, NEW t, NEW x,
         TickNow(tick', at, p, intents[p], s, <<>>, t, x)
  PROVE  CopiesStay
<1>1. tick'.project = p /\ tick'.copies = intents[p] /\ ToSet(tick'.due) = {}
  BY EmptyFacts DEF TickNow
<1>2. \A r \in Roles : intents[p][r] # None => intents[p][r] \in Intent
  BY DEF TypeOK
<1>3. \A q \in Projects, r \in Roles : q = tick'.project /\ tick'.copies[r] # None =>
        NamedIn(intents, tick, tick'.copies[r].id, q, r)
  BY <1>1 DEF NamedIn
<1>4. ASSUME NEW r \in Live(tick') \cap Roles, tick'.copies[r] # None
      PROVE  \E j : Origin(r, j) /\ SameCount(tick'.copies[r], j)
  <2>1. intents[p][r] \in Intent /\ tick'.copies[r] = intents[p][r]
    BY <1>1, <1>2, <1>4
  <2> QED BY <2>1 DEF Origin, SameCount
<1> QED BY <1>1, <1>3, <1>4 DEF CopiesStay

\* A due intent that a tick has marked is not at its limit.
LEMMA CopiesMarked ==
  ASSUME TypeOK, TickInv, CountInv, MarkDue, tick.copies[Listed].due
  PROVE  CopiesStay
<1> DEFINE i == [tick.copies[Listed] EXCEPT !.due = FALSE]
           k == [tick.copies EXCEPT ![Listed] = i]
           d == Append(tick.due, Listed)
<1>0. /\ tick \in Tick /\ tick.copies \in Copies /\ tick.todo \in Seq(Roles) /\ tick.due \in Seq(Roles)
  BY TickFields DEF TypeOK
<1>1. tick.at = "marking" /\ tick.todo # <<>> /\ ~Unwanted(Listed)
      /\ tick' = [tick EXCEPT !.todo = Tail(@), !.copies[Listed] = i, !.due = Append(@, Listed)]
  BY DEF MarkDue
<1>2. Listed \in Roles /\ Listed \in ToSet(tick.todo) /\ ToSet(Tail(tick.todo)) \subseteq ToSet(tick.todo)
  BY <1>0, <1>1, TailFacts DEF Listed
<1>3. tick.copies[Listed] \in Intent
  BY <1>2, LiveIntents DEF Live
<1>4. i \in Intent /\ SameCount(i, tick.copies[Listed])
  BY <1>3 DEF Intent, SameCount
<1>5. TickNow(tick', "marking", tick.project, k, Tail(tick.todo), d, tick.pass, tick.run)
  BY <1>0, <1>1, <1>4, MarkedNow DEF Listed
<1>6. ToSet(d) = ToSet(tick.due) \cup {Listed}
  BY <1>0, <1>2, AppendFacts
<1>7. \A r \in Roles : k[r] = IF r = Listed THEN i ELSE tick.copies[r]
  BY <1>0 DEF Copies
<1> HIDE DEF i, k, d
<1>8. /\ tick'.project = tick.project /\ tick'.copies = k /\ tick'.todo = Tail(tick.todo) /\ tick'.due = d
  BY <1>5 DEF TickNow
<1>9. tick.copies[Listed] # None
  BY <1>3, Somes
<1>10. \A p \in Projects, r \in Roles : p = tick'.project /\ tick'.copies[r] # None =>
         NamedIn(intents, tick, tick'.copies[r].id, p, r)
  BY <1>4, <1>7, <1>8, <1>9 DEF NamedIn, SameCount
<1>11. Live(tick') \subseteq Live(tick)
  BY <1>2, <1>6, <1>8 DEF Live
<1>12. ASSUME NEW r \in Live(tick') \cap Roles
       PROVE  \E j : Origin(r, j) /\ SameCount(tick'.copies[r], j)
  <2>1. r \in Live(tick) /\ tick.copies[r] \in Intent /\ Origin(r, tick.copies[r])
    BY <1>11, <1>12, LiveIntents DEF Origin
  <2>2. SameCount(tick'.copies[r], tick.copies[r])
    BY <1>4, <1>7, <1>8, <1>12 DEF SameCount
  <2> QED BY <2>1, <2>2
<1>13. ASSUME NEW r \in ToSet(tick'.due) PROVE ~AtLimit(tick'.copies[r], r)
  <2>1. r \in Roles /\ (r = Listed \/ r \in ToSet(tick.due))
    BY <1>0, <1>2, <1>6, <1>8, <1>13, ToSetIs
  <2>2. CASE r = Listed
    BY <1>1, <1>2, <1>4, <1>7, <1>8, <2>2 DEF Unwanted, AtLimit, SameCount
  <2>3. CASE r # Listed
    <3>1. ~AtLimit(tick.copies[r], r)
      BY <2>1, <2>3, CountParts DEF CountIn
    <3> QED BY <1>7, <1>8, <2>1, <2>3, <3>1
  <2> QED BY <2>2, <2>3
<1> QED BY <1>10, <1>12, <1>13 DEF CopiesStay

LEMMA CopiesKept ==
  ASSUME Base, CountInv, [Next]_vars, ~RunStarted
  PROVE  CopiesStay
<1>0. TypeOK /\ TurnsInv /\ TickInv /\ RoundInv /\ TickOK /\ tick \in Tick
  BY DEF Base, TickOK, TypeOK
<1>t. ShapeOf(tick) /\ (tick.at = "idle" => tick = TickIdle)
  BY <1>0, TickOKIs
<1>f. /\ tick.rest \in Seq(Projects) /\ tick.project \in Projects \cup {None}
      /\ tick.todo \in Seq(Roles) /\ tick.due \in Seq(Roles) /\ tick.pass \in Seq(Roles)
  BY <1>0, TickFields
<1>p. /\ "wake" \in TickPc /\ "next" \in TickPc /\ "recovered" \in TickPc /\ "marking" \in TickPc
      /\ "room" \in TickPc /\ "pass" \in TickPc /\ "await" \in TickPc
      /\ "rejected" \in TickPc /\ "after" \in TickPc
  BY DEF TickPc
<1>m. ASSUME NEW at, NEW todo, NEW due, NEW pass, NEW run,
             TickNow(tick', at, tick.project, tick.copies, todo, due, pass, run),
             ToSet(todo) \subseteq ToSet(tick.todo), ToSet(due) \subseteq ToSet(tick.due)
      PROVE  CopiesStay
  <2>1. /\ tick'.copies = tick.copies /\ tick'.project = tick.project
        /\ Live(tick') \subseteq Live(tick) /\ ToSet(tick'.due) \subseteq ToSet(tick.due)
    BY <1>m DEF TickNow, Live
  <2> QED BY <1>0, <2>1, CopiesLeft
<1>n. ASSUME NEW rest \in Seq(Projects), tick' = [TickIdle EXCEPT !.at = "next", !.rest = rest]
      PROVE  CopiesStay
  BY <1>n, <1>p, NextNow, CopiesForgotten
<1>1. CASE tick' = tick
  BY <1>0, <1>1, CopiesLeft
<1>2. CASE tick' = TickIdle
  BY <1>2, IdleNow, CopiesForgotten
<1>3. ASSUME NEW p \in Projects, WatcherLists(p) PROVE CopiesStay
  <2>1. intents[p] \in Copies /\ ListOrder(p) \in Seq(Roles)
    BY <1>0, ListedShape
  <2>2. tick.at = "idle"
        /\ tick' = [tick EXCEPT !.at = "wake", !.project = p,
                                !.copies = intents[p], !.todo = ListOrder(p)]
    BY <1>3 DEF WatcherLists
  <2>3. TickNow(tick', "wake", p, intents[p], ListOrder(p), tick.due, tick.pass, tick.run)
    BY <1>0, <1>p, <2>1, <2>2, WakeNow
  <2>4. tick.due = <<>>
    BY <1>t, <2>2, IdleNow DEF TickNow
  <2> QED BY <1>0, <2>3, <2>4, CopiesListed
<1>4. CASE WatcherMarks \/ DropUnwanted \/ (MarkDue /\ ~tick.copies[Listed].due)
  <2>1. tick.todo # <<>> /\ tick' = [tick EXCEPT !.todo = Tail(@)]
    BY <1>4 DEF WatcherMarks, DropUnwanted, MarkDue
  <2>2. TickNow(tick', tick.at, tick.project, tick.copies, Tail(tick.todo), tick.due, tick.pass, tick.run)
    BY <1>0, <2>1, TodoNow
  <2>3. ToSet(Tail(tick.todo)) \subseteq ToSet(tick.todo)
    BY <1>f, <2>1, TailFacts
  <2> QED BY <1>m, <2>2, <2>3
<1>5. CASE WatcherEnds
  BY <1>0, <1>5, <1>n, OrdersTyped DEF WatcherEnds
<1>6. CASE TickAllProjects
  BY <1>0, <1>6, <1>n, <1>t, OrdersTyped DEF TickAllProjects
<1>7. CASE ReadConfiguration
  <2>1. tick' = [TickIdle EXCEPT !.at = "recovered", !.rest = Tail(tick.rest),
                              !.project = Head(tick.rest),
                              !.configuration = configuration[Head(tick.rest)]]
        /\ tick.rest # <<>>
    BY <1>7 DEF ReadConfiguration
  <2>2. Head(tick.rest) \in Projects /\ Tail(tick.rest) \in Seq(Projects)
    BY <1>f, <2>1, TailFacts
  <2>3. configuration[Head(tick.rest)] \in Configuration
    BY <1>0, <2>2 DEF TypeOK
  <2>4. TickNow(tick', "recovered", Head(tick.rest), NoIntents, <<>>, <<>>, <<>>, None)
    BY <2>1, <2>2, <2>3, <1>p, RecoveredNow
  <2> QED BY <2>4, CopiesForgotten
<1>8. CASE TickEnds
  BY <1>2, <1>8 DEF TickEnds
<1>9. CASE TickReturns
  BY <1>9, <1>f, <1>n DEF TickReturns, NextProject
<1>10. CASE ListIntents
  <2>1. tick.at = "recovered"
        /\ tick' = [tick EXCEPT !.at = "marking", !.copies = intents[tick.project],
                          !.todo = ListOrder(tick.project)]
    BY <1>10 DEF ListIntents
  <2>2. tick.project \in Projects /\ tick.due = <<>>
    BY <1>t, <2>1 DEF ShapeOf, Shape
  <2>3. intents[tick.project] \in Copies /\ ListOrder(tick.project) \in Seq(Roles)
    BY <1>0, <2>2, ListedShape
  <2>4. TickNow(tick', "marking", tick.project, intents[tick.project], ListOrder(tick.project),
                <<>>, tick.pass, tick.run)
    BY <1>0, <1>p, <2>1, <2>2, <2>3, ListedNow
  <2> QED BY <1>0, <2>2, <2>4, CopiesListed
<1>11. CASE MarkDue /\ tick.copies[Listed].due
  BY <1>0, <1>11, CopiesMarked
<1>12. CASE SortsDueIntents
  <2> DEFINE d == SortDue(tick.project, ToSet(tick.due))
  <2>1. tick.at = "marking" /\ tick' = [tick EXCEPT !.at = "room", !.progress = TRUE, !.due = d]
    BY <1>12 DEF SortsDueIntents
  <2>2. tick.project \in Projects
    BY <1>t, <2>1 DEF ShapeOf, Shape
  <2>3. d \in Seq(Roles) /\ ToSet(d) \subseteq ToSet(tick.due)
    BY <1>0, <2>2, OrdersTyped
  <2> HIDE DEF d
  <2>4. TickNow(tick', "room", tick.project, tick.copies, tick.todo, d, tick.pass, tick.run)
    BY <1>0, <1>p, <2>1, <2>3, SortedNow
  <2> QED BY <1>m, <2>3, <2>4
<1>13. CASE CheckRoom
  <2>1. CASE tick' = NextProject
    BY <2>1, <1>f, <1>n DEF NextProject
  <2>2. CASE tick' = [tick EXCEPT !.at = "pass", !.pass = tick.due, !.progress = FALSE]
    <3>1. TickNow(tick', "pass", tick.project, tick.copies, tick.todo, tick.due, tick.due, tick.run)
      BY <1>0, <1>f, <1>p, <2>2, PassNow
    <3> QED BY <1>m, <3>1
  <2> QED BY <1>13, <2>1, <2>2 DEF CheckRoom
<1>14. CASE PassEnds
  <2>1. tick' = [tick EXCEPT !.at = "room"]
    BY <1>14 DEF PassEnds
  <2>2. TickNow(tick', "room", tick.project, tick.copies, tick.todo, tick.due, tick.pass, tick.run)
    BY <1>0, <1>p, <2>1, AtNow
  <2> QED BY <1>m, <2>2
<1>15. ASSUME tick.at \in Serving, tick.pass # <<>>, NEW due,
              due = tick.due \/ due = Without(tick.due, {Served}), tick' = Leaves(due)
       PROVE  CopiesStay
  <2>1. due \in Seq(Roles) /\ ToSet(due) \subseteq ToSet(tick.due)
    BY <1>0, <1>15, LeavesShape
  <2>2. TickNow(tick', "pass", tick.project, tick.copies, tick.todo, due, Tail(tick.pass), None)
    BY <1>0, <1>15, <2>1, LeavesNow
  <2> QED BY <1>m, <2>1, <2>2
<1>16. CASE NoSeatForRole \/ PreflightRefuses
  BY <1>15, <1>16 DEF NoSeatForRole, PreflightRefuses, Serving
<1>s. tick.at \in Starting => tick.pass # <<>> /\ tick.run \in Runs
  BY <1>t DEF ShapeOf, Shape
<1>17. CASE RunNotStarted \/ DropRejected
  BY <1>15, <1>17, <1>s DEF RunNotStarted, DropRejected, Serving, Starting
<1>r. CASE RunRejected
  <2>1. tick' = [tick EXCEPT !.at = "rejected"]
    BY <1>r DEF RunRejected
  <2>2. TickNow(tick', "rejected", tick.project, tick.copies, tick.todo, tick.due, tick.pass, tick.run)
    BY <1>0, <1>p, <2>1, AtNow
  <2> QED BY <1>m, <2>2
<1>18. ASSUME NEW x \in Runs, TickQueuesRun(x) PROVE CopiesStay
  BY <1>0, <1>18, <1>m, TickAwaits
<1>19. CASE CountAgain
  <2> DEFINE due == IF RoleRemaining(tick.project, Served) = 0
               THEN Without(tick.due, {Served}) ELSE tick.due
  <2>1. tick.at = "after" /\ tick.pass # <<>> /\ tick.at \in Serving
    BY <1>19, <1>s DEF CountAgain, Starting, Serving
  <2>2. due = tick.due \/ due = Without(tick.due, {Served})
    OBVIOUS
  <2>3. \/ tick' = Leaves(due)
        \/ tick' = [tick EXCEPT !.at = "room", !.due = due, !.pass = <<>>, !.run = None]
    BY <1>19 DEF CountAgain
  <2> HIDE DEF due
  <2>4. CASE tick' = Leaves(due)
    BY <1>15, <2>1, <2>2, <2>4
  <2>5. CASE tick' = [tick EXCEPT !.at = "room", !.due = due, !.pass = <<>>, !.run = None]
    <3>1. due \in Seq(Roles) /\ ToSet(due) \subseteq ToSet(tick.due)
      BY <1>0, <2>1, <2>2, LeavesShape
    <3>2. TickNow(tick', "room", tick.project, tick.copies, tick.todo, due, <<>>, None)
      BY <1>0, <1>p, <2>5, <3>1, FullNow
    <3> QED BY <1>m, <3>1, <3>2
  <2> QED BY <2>3, <2>4, <2>5
<1>20. CASE Dispatcher
  BY <1>4, <1>5, <1>6, <1>7, <1>8, <1>9, <1>10, <1>11, <1>12, <1>13, <1>14, <1>16, <1>17,
     <1>r, <1>18, <1>19, <1>20 DEF Dispatcher
<1> QED BY <1>1, <1>2, <1>3, <1>20, TickMoves

\* Only the run's end or start, or the dispatcher's death, ends the wait for it.
LEMMA WaitEnds ==
  ASSUME [Next]_vars, tick.at = "await", tick' # tick
  PROVE  RunNotStarted \/ RunRejected \/ RunStarted \/ DispatcherDies
<1>1. ~(\E p \in Projects : WatcherLists(p))
  BY DEF WatcherLists
<1>2. Dispatcher => RunNotStarted \/ RunRejected \/ RunStarted
  BY DEF Dispatcher, WatcherMarks, WatcherEnds, TickAllProjects, ReadConfiguration, TickEnds,
         TickReturns, ListIntents, DropUnwanted, MarkDue, SortsDueIntents, CheckRoom, PassEnds,
         NoSeatForRole, PreflightRefuses, TickQueuesRun, DropRejected, CountAgain
<1> QED BY <1>1, <1>2, TickMoves

\* One run more or less among those that may still serve.
LEMMA PendingMoves ==
  ASSUME NEW R, NEW Q, NEW x \in Runs, \A y \in Runs : y # x => Q[y] = R[y],
         NEW r, NEW a, IsFiniteSet(PendingIn(R, r, a)), IsFiniteSet(PendingIn(Q, r, a))
  PROVE  LET was == x \in PendingIn(R, r, a)
             is  == x \in PendingIn(Q, r, a)
             m   == Cardinality(PendingIn(R, r, a))
             n   == Cardinality(PendingIn(Q, r, a)) IN
         /\ (was <=> is) => n = m
         /\ ~was /\ is => n = m + 1
         /\ was /\ ~is => m = n + 1
<1> DEFINE A == PendingIn(R, r, a)
           B == PendingIn(Q, r, a)
<1>1. /\ (x \in A <=> x \in B) => B = A
      /\ x \notin A /\ x \in B => B = A \cup {x}
      /\ x \in A /\ x \notin B => A = B \cup {x}
  BY DEF PendingIn
<1> HIDE DEF A, B
<1>2. IsFiniteSet(A) /\ IsFiniteSet(B)
  BY DEF A, B
<1>3. /\ (x \in A <=> x \in B) => Cardinality(B) = Cardinality(A)
      /\ x \notin A /\ x \in B => Cardinality(B) = Cardinality(A) + 1
      /\ x \in A /\ x \notin B => Cardinality(A) = Cardinality(B) + 1
  BY <1>1, <1>2, FS_AddElement
<1> QED BY <1>3 DEF A, B

\* The tables, as far as counting goes.
Countable ==
  /\ starts \in [Roles -> [Activations -> Nat]]
  /\ starts' \in [Roles -> [Activations -> Nat]]
  /\ IsFiniteSet({x \in Runs : runs[x] # None})
  /\ IsFiniteSet({x \in Runs : runs'[x] # None})
  /\ LimitedIn(starts, runs)

Promise(r, a) == PromisedIn(starts, runs, r, a)
PromiseNext(r, a) == PromisedIn(starts', runs', r, a)
Waits(r, a) == UncountedIn(tick, runs, r, a)
WaitsNext(r, a) == UncountedIn(tick', runs', r, a)

LEMMA PromiseTyped ==
  ASSUME Countable, NEW r \in Roles, NEW a \in Activations
  PROVE  /\ Promise(r, a) \in Nat /\ PromiseNext(r, a) \in Nat
         /\ Waits(r, a) \in {0, 1} /\ WaitsNext(r, a) \in {0, 1}
         /\ Promise(r, a) = starts[r][a] + Cardinality(PendingIn(runs, r, a))
         /\ PromiseNext(r, a) = starts'[r][a] + Cardinality(PendingIn(runs', r, a))
         /\ IsFiniteSet(PendingIn(runs, r, a)) /\ IsFiniteSet(PendingIn(runs', r, a))
         /\ Cardinality(PendingIn(runs, r, a)) \in Nat /\ Cardinality(PendingIn(runs', r, a)) \in Nat
         /\ starts[r][a] \in Nat /\ starts'[r][a] \in Nat /\ ExecutionLimit[r] \in Nat
  BY PromisesTyped, UncountedTyped, LimitsAssumption
     DEF Countable, Promise, PromiseNext, Waits, WaitsNext, PromisedIn

\* Nothing is promised without being waited for.
NoneIsPromised ==
  \A r \in Roles, a \in Activations :
    IF ExecutionLimit[r] > 0
      THEN /\ PromiseNext(r, a) <= Promise(r, a)
           /\ PromiseNext(r, a) + Waits(r, a) <= Promise(r, a) + WaitsNext(r, a)
      ELSE starts'[r][a] = starts[r][a]

LEMMA NoPromise ==
  ASSUME Countable, NoneIsPromised
  PROVE  CountsStay
<1>1. ASSUME NEW r \in Roles, NEW a \in Activations
      PROVE  /\ IF ExecutionLimit[r] > 0 THEN PromiseNext(r, a) <= ExecutionLimit[r]
                                         ELSE starts'[r][a] = 0
             /\ ExecutionLimit[r] > 0 =>
                  PromiseNext(r, a) - WaitsNext(r, a) <= Promise(r, a) - Waits(r, a)
  <2> DEFINE P == Promise(r, a)
             Q == PromiseNext(r, a)
             U == Waits(r, a)
             V == WaitsNext(r, a)
  <2>1. P \in Nat /\ Q \in Nat /\ U \in {0, 1} /\ V \in {0, 1} /\ ExecutionLimit[r] \in Nat
    BY PromiseTyped
  <2>2. IF ExecutionLimit[r] > 0 THEN P <= ExecutionLimit[r] ELSE starts[r][a] = 0
    BY DEF Countable, LimitedIn, Promise
  <2>3. IF ExecutionLimit[r] > 0 THEN Q <= P /\ Q + U <= P + V ELSE starts'[r][a] = starts[r][a]
    BY DEF NoneIsPromised
  <2> HIDE DEF P, Q, U, V
  <2>4. /\ ExecutionLimit[r] > 0 => Q <= ExecutionLimit[r] /\ Q - V <= P - U
        /\ ~(ExecutionLimit[r] > 0) => starts'[r][a] = 0
    BY <2>1, <2>2, <2>3
  <2> QED BY <2>4 DEF P, Q, U, V
<1> QED BY <1>1 DEF CountsStay, LimitedIn, Promise, PromiseNext, Waits, WaitsNext

\* The run a tick waits for is not over, or has been seen.
LEMMA NoneAwaited ==
  ASSUME Base, AwaitedWorks, SeesEachRun, [Next]_vars, ~RunStarted, tick' # tick,
         NEW r, NEW a
  PROVE  Waits(r, a) = 0
<1> SUFFICES ASSUME tick.at = "await", runs[tick.run] # None PROVE FALSE
  BY DEF Waits, UncountedIn
<1>1. ~DispatcherDies
  BY DEF DispatcherDies, SeesEachRun
<1>2. ~SeenStarted(tick.run)
  BY <1>1, WaitEnds DEF RunNotStarted, RunRejected
<1> QED BY <1>2 DEF SeenStarted, AwaitedWorks

\* A run that moves keeps its promise or breaks it.
LEMMA MoveCounts ==
  ASSUME Base, SeesEachRun, Countable, NEW x \in Runs, RunMoves(x)
  PROVE  NoneIsPromised
<1>0. TypeOK /\ TickInv /\ RoundInv /\ runs \in [Runs -> Run \cup {None}]
  BY DEF Base, TypeOK
<1>1. /\ runs[x] # None /\ runs[x] \in Run /\ tick' = tick
      /\ runs'[x] # None => runs'[x].role = runs[x].role /\ runs'[x].intent = runs[x].intent
      /\ \A y \in Runs : y # x => runs'[y] = runs[y]
  BY <1>0, MovedRow
<1>2. tick.at = "await" => tick.run \in Runs
  BY <1>0, TickWorks DEF Starting
<1>3. ASSUME NEW r \in Roles, NEW a \in Activations, runs'[x] # None \/ tick.at # "await" \/ tick.run # x
      PROVE  WaitsNext(r, a) = Waits(r, a)
  <2>1. CASE tick.at = "await" /\ tick.run # x
    BY <1>1, <1>2, <2>1 DEF Waits, WaitsNext, UncountedIn
  <2>2. CASE tick.at # "await"
    BY <1>1, <2>2 DEF Waits, WaitsNext, UncountedIn
  <2>3. CASE tick.run = x /\ runs'[x] # None
    BY <1>1, <2>3 DEF Waits, WaitsNext, UncountedIn
  <2> QED BY <1>3, <2>1, <2>2, <2>3
<1>4. ASSUME NEW r \in Roles, NEW a \in Activations
      PROVE  LET was == x \in PendingIn(runs, r, a)
                 is  == x \in PendingIn(runs', r, a)
                 m   == Cardinality(PendingIn(runs, r, a))
                 n   == Cardinality(PendingIn(runs', r, a)) IN
             /\ (was <=> is) => n = m
             /\ was /\ ~is => m = n + 1
  BY <1>1, PendingMoves, PromiseTyped
<1>5. ASSUME runs[x].state \in {"serving", "occupying"}, starts' = starts,
             runs'[x] # None => runs'[x].state \in {"serving", "occupying"},
             runs'[x] # None \/ tick.at # "await" \/ tick.run # x
      PROVE  NoneIsPromised
  <2>1. \A r, a : x \notin PendingIn(runs, r, a) /\ x \notin PendingIn(runs', r, a)
    BY <1>5 DEF PendingIn
  <2>2. \A r \in Roles, a \in Activations :
          PromiseNext(r, a) = Promise(r, a) /\ WaitsNext(r, a) = Waits(r, a)
    BY <1>3, <1>4, <1>5, <2>1, PromiseTyped
  <2>3. ASSUME NEW r \in Roles, NEW a \in Activations
        PROVE  /\ PromiseNext(r, a) <= Promise(r, a)
               /\ PromiseNext(r, a) + Waits(r, a) <= Promise(r, a) + WaitsNext(r, a)
    BY <2>2, PromiseTyped
  <2> QED BY <1>5, <2>3 DEF NoneIsPromised
<1>6. CASE RunServes(x)
  <2>1. /\ runs[x].state = "queued" /\ runs' = [runs EXCEPT ![x].state = "serving"]
        /\ starts' = IF runs[x].intent = None THEN starts
                     ELSE [starts EXCEPT ![runs[x].role][runs[x].intent] = Counted(@, runs[x].role)]
    BY <1>6 DEF RunServes
  <2>2. runs'[x] # None /\ runs'[x].state = "serving"
    <3> DEFINE n == [runs[x] EXCEPT !.state = "serving"]
    <3>1. n \in Run /\ n.state = "serving"
      BY <1>1 DEF Run
    <3>2. n # None
      BY <3>1, Somes
    <3> HIDE DEF n
    <3>3. runs'[x] = n
      BY <1>0, <2>1 DEF n
    <3> QED BY <3>1, <3>2, <3>3
  <2>3. ASSUME NEW r \in Roles, NEW a \in Activations
        PROVE  IF ExecutionLimit[r] > 0
                 THEN /\ PromiseNext(r, a) <= Promise(r, a)
                      /\ PromiseNext(r, a) + Waits(r, a) <= Promise(r, a) + WaitsNext(r, a)
                 ELSE starts'[r][a] = starts[r][a]
    <3>1. /\ x \notin PendingIn(runs', r, a)
          /\ x \in PendingIn(runs, r, a) <=> runs[x].role = r /\ runs[x].intent = a
      BY <1>1, <2>1, <2>2 DEF PendingIn
    <3>2. a # None
      BY Somes
    <3>3. CASE runs[x].role = r /\ runs[x].intent = a
      <4>1. starts'[r][a] = Counted(starts[r][a], r)
        BY <2>1, <3>2, <3>3 DEF Countable
      <4>2. Cardinality(PendingIn(runs, r, a)) = Cardinality(PendingIn(runs', r, a)) + 1
        BY <1>4, <3>1, <3>3
      <4>3. WaitsNext(r, a) = Waits(r, a)
        BY <1>3, <2>2
      <4> QED BY <4>1, <4>2, <4>3, PromiseTyped DEF Counted
    <3>4. CASE ~(runs[x].role = r /\ runs[x].intent = a)
      <4>1. starts'[r][a] = starts[r][a]
        BY <2>1, <3>4 DEF Countable
      <4>2. Cardinality(PendingIn(runs', r, a)) = Cardinality(PendingIn(runs, r, a))
        BY <1>4, <3>1, <3>4
      <4>3. WaitsNext(r, a) = Waits(r, a)
        BY <1>3, <2>2
      <4> QED BY <4>1, <4>2, <4>3, PromiseTyped
    <3> QED BY <3>3, <3>4
  <2> QED BY <2>3 DEF NoneIsPromised
<1>7. CASE RunGivesUp(x)
  <2>1. runs[x].state = "queued" /\ runs'[x] = None /\ starts' = starts
    BY <1>0, <1>7 DEF RunGivesUp, history
  <2>2. ASSUME NEW r \in Roles, NEW a \in Activations
        PROVE  /\ PromiseNext(r, a) <= Promise(r, a)
               /\ PromiseNext(r, a) + Waits(r, a) <= Promise(r, a) + WaitsNext(r, a)
    <3>1. /\ x \notin PendingIn(runs', r, a)
          /\ x \in PendingIn(runs, r, a) <=> runs[x].role = r /\ runs[x].intent = a
      BY <1>1, <2>1 DEF PendingIn
    <3>2. CASE runs[x].role = r /\ runs[x].intent = a
      <4>1. Cardinality(PendingIn(runs, r, a)) = Cardinality(PendingIn(runs', r, a)) + 1
        BY <1>4, <3>1, <3>2
      <4> QED BY <2>1, <4>1, PromiseTyped
    <3>3. CASE ~(runs[x].role = r /\ runs[x].intent = a)
      <4>1. Cardinality(PendingIn(runs', r, a)) = Cardinality(PendingIn(runs, r, a))
        BY <1>4, <3>1, <3>3
      <4>2. WaitsNext(r, a) = Waits(r, a)
        <5>1. CASE tick.run = x
          BY <1>1, <2>1, <3>3, <5>1 DEF Waits, WaitsNext, UncountedIn
        <5>2. CASE tick.run # x
          BY <1>3, <5>2
        <5> QED BY <5>1, <5>2
      <4> QED BY <2>1, <4>1, <4>2, PromiseTyped
    <3> QED BY <3>2, <3>3
  <2> QED BY <2>1, <2>2 DEF NoneIsPromised
<1>8. CASE RunEnds(x)
  <2>1. /\ runs[x].state \in {"serving", "occupying"} /\ runs'[x] = None /\ starts' = starts
        /\ tick.run # x
    BY <1>0, <1>8 DEF RunEnds, history, SeesEachRun, Awaited
  <2> QED BY <1>5, <2>1
<1>9. CASE RunDropped(x) \/ RunAdopted(x)
  <2>1. PICK s \in {"serving", "occupying"} : runs' = [runs EXCEPT ![x].state = s]
    BY <1>9 DEF RunDropped, RunAdopted
  <2>2. runs[x].state \in {"serving", "occupying"} /\ starts' = starts
    BY <1>9 DEF RunDropped, RunAdopted, history
  <2>3. runs'[x] # None /\ runs'[x].state = s
    <3> DEFINE n == [runs[x] EXCEPT !.state = s]
    <3>1. n \in Run /\ n.state = s
      BY <1>1 DEF Run
    <3>2. n # None
      BY <3>1, Somes
    <3> HIDE DEF n
    <3>3. runs'[x] = n
      BY <1>0, <2>1 DEF n
    <3> QED BY <3>1, <3>2, <3>3
  <2> QED BY <1>5, <2>2, <2>3
<1> QED BY <1>6, <1>7, <1>8, <1>9 DEF RunMoves

\* A run by hand serves for no activation.
LEMMA ManualCounts ==
  ASSUME Base, Countable, NEW x \in Runs, NEW p \in Projects, NEW r0 \in Roles,
         QueueOneRun(x, p, r0, None), tick' = tick, starts' = starts
  PROVE  NoneIsPromised
<1>0. TypeOK /\ TickInv /\ RoundInv
  BY DEF Base
<1>1. /\ runs[x] = None /\ runs'[x] # None /\ runs'[x].intent = None
      /\ \A y \in Runs : y # x => runs'[y] = runs[y]
  BY <1>0, QueuedRow
<1>2. tick.at = "await" => tick.run \in Runs /\ tick.run # x
  BY <1>0, TickWorks DEF Starting, QueueOneRun, Unused, Awaited
<1>3. ASSUME NEW r \in Roles, NEW a \in Activations
      PROVE  /\ PromiseNext(r, a) <= Promise(r, a)
             /\ PromiseNext(r, a) + Waits(r, a) <= Promise(r, a) + WaitsNext(r, a)
  <2>1. WaitsNext(r, a) = Waits(r, a)
    BY <1>1, <1>2 DEF Waits, WaitsNext, UncountedIn
  <2>2. x \notin PendingIn(runs, r, a) /\ x \notin PendingIn(runs', r, a)
    BY <1>1, Somes DEF PendingIn
  <2>3. Cardinality(PendingIn(runs', r, a)) = Cardinality(PendingIn(runs, r, a))
    BY <1>1, <2>2, PendingMoves, PromiseTyped
  <2> QED BY <2>1, <2>3, PromiseTyped
<1> QED BY <1>3 DEF NoneIsPromised

\* A tick promises one run more, of an activation that is not at its limit, and
\* waits for it.
LEMMA TickCounts ==
  ASSUME Base, Countable, CountInv, NEW x \in Runs, TickQueuesRun(x), starts' = starts
  PROVE  CountsStay
<1> DEFINE r0 == Served
           i  == tick.copies[Served]
<1>0. TypeOK /\ TickInv /\ RoundInv
  BY DEF Base
<1>1. /\ tick.project \in Projects /\ r0 \in Roles /\ r0 \in ToSet(tick.due)
      /\ i \in Intent /\ i.id \in Activations /\ i.started \in Nat
      /\ QueueOneRun(x, tick.project, r0, i.id)
  BY <1>0, TickQueues DEF Intent
<1> HIDE DEF r0
<1>2. /\ runs[x] = None /\ runs'[x] # None /\ runs'[x].state = "queued"
      /\ runs'[x].role = r0 /\ runs'[x].intent = i.id
      /\ \A y \in Runs : y # x => runs'[y] = runs[y]
  BY <1>0, <1>1, QueuedRow
<1>3. tick.at = "pass" /\ tick'.at = "await" /\ tick'.run = x
  BY <1>0, TickAwaits DEF TickNow
<1>4. /\ CountedIn(starts, runs, tick, r0, i)
      /\ ~AtLimit(i, r0)
  <2>1. i # None /\ r0 \in Live(tick) \cap Roles
    BY <1>1, Somes DEF Live
  <2>2. i = tick.copies[r0]
    BY DEF r0
  <2> QED BY <1>1, <2>1, <2>2, CountParts DEF CountIn
<1>5. ASSUME NEW r \in Roles, NEW a \in Activations
      PROVE  /\ IF ExecutionLimit[r] > 0 THEN PromiseNext(r, a) <= ExecutionLimit[r]
                                         ELSE starts'[r][a] = 0
             /\ ExecutionLimit[r] > 0 =>
                  PromiseNext(r, a) - WaitsNext(r, a) <= Promise(r, a) - Waits(r, a)
  <2>1. x \notin PendingIn(runs, r, a) /\ (x \in PendingIn(runs', r, a) <=> r = r0 /\ a = i.id)
    BY <1>2 DEF PendingIn
  <2>2. IF ExecutionLimit[r] > 0 THEN Promise(r, a) <= ExecutionLimit[r] ELSE starts[r][a] = 0
    BY DEF Countable, LimitedIn, Promise
  <2>3. Waits(r, a) = 0 /\ WaitsNext(r, a) = IF r = r0 /\ a = i.id THEN 1 ELSE 0
    BY <1>2, <1>3 DEF Waits, WaitsNext, UncountedIn
  <2>4. /\ r = r0 /\ a = i.id => Cardinality(PendingIn(runs', r, a)) = Cardinality(PendingIn(runs, r, a)) + 1
        /\ ~(r = r0 /\ a = i.id) => Cardinality(PendingIn(runs', r, a)) = Cardinality(PendingIn(runs, r, a))
    BY <1>2, <2>1, PendingMoves, PromiseTyped
  <2>5. CASE r = r0 /\ a = i.id
    <3>1. ExecutionLimit[r] > 0 => Promise(r, a) <= i.started /\ i.started < ExecutionLimit[r]
      <4>1. ExecutionLimit[r] > 0 => Promise(r, a) <= i.started + Waits(r, a)
        BY <1>4, <2>5 DEF CountedIn, Promise, Waits
      <4> HIDE DEF i
      <4> QED BY <1>1, <1>4, <2>3, <2>5, <4>1, PromiseTyped DEF AtLimit
    <3>2. PromiseNext(r, a) = Promise(r, a) + 1 /\ WaitsNext(r, a) = 1
      BY <2>3, <2>4, <2>5, PromiseTyped
    <3> HIDE DEF i
    <3> QED BY <1>1, <2>2, <2>3, <3>1, <3>2, PromiseTyped
  <2>6. CASE ~(r = r0 /\ a = i.id)
    <3>1. PromiseNext(r, a) = Promise(r, a) /\ WaitsNext(r, a) = 0
      BY <2>3, <2>4, <2>6, PromiseTyped
    <3> QED BY <2>2, <2>3, <3>1, PromiseTyped
  <2> QED BY <2>5, <2>6
<1> QED BY <1>5 DEF CountsStay, LimitedIn, Promise, PromiseNext, Waits, WaitsNext

LEMMA CountsKept ==
  ASSUME Base, Base', AwaitedWorks, CountInv, SeesEachRun, [Next]_vars, ~RunStarted,
         ~(\E c \in Clients, a \in Activations : Activate(c, a))
  PROVE  CountsStay
<1>0. TypeOK /\ TickInv /\ RoundInv /\ CommandInv
  BY DEF Base
<1>1. Countable
  BY CountParts DEF Base, TypeOK, Countable, CountIn
<1>2. ASSUME NEW x \in Runs, RunMoves(x) PROVE CountsStay
  BY <1>1, <1>2, MoveCounts, NoPromise
<1>3. CASE starts' # starts
  BY <1>2, <1>3, OthersMove DEF RunMoves
<1>4. ASSUME starts' = starts, NEW x \in Runs, TickQueuesRun(x) PROVE CountsStay
  BY <1>1, <1>4, TickCounts
<1>5. ASSUME starts' = starts, NEW x \in Runs, NEW p \in Projects, NEW r \in Roles,
             QueueOneRun(x, p, r, None), tick' = tick
      PROVE  CountsStay
  BY <1>1, <1>5, ManualCounts, NoPromise
<1>6. CASE starts' = starts /\ runs' = runs
  <2>1. ASSUME NEW r \in Roles, NEW a \in Activations
        PROVE  /\ PromiseNext(r, a) <= Promise(r, a)
               /\ PromiseNext(r, a) + Waits(r, a) <= Promise(r, a) + WaitsNext(r, a)
    <3>1. PromiseNext(r, a) = Promise(r, a)
      BY <1>6 DEF PromiseNext, Promise
    <3>2. WaitsNext(r, a) >= Waits(r, a)
      <4>1. CASE tick' = tick
        <5>1. WaitsNext(r, a) = Waits(r, a)
          BY <1>6, <4>1 DEF Waits, WaitsNext
        <5> QED BY <1>1, <5>1, PromiseTyped
      <4>2. CASE tick' # tick
        <5>1. Waits(r, a) = 0
          BY <4>2, NoneAwaited
        <5> QED BY <1>1, <5>1, PromiseTyped
      <4> QED BY <4>1, <4>2
    <3> QED BY <1>1, <3>1, <3>2, PromiseTyped
  <2>2. NoneIsPromised
    BY <1>6, <2>1 DEF NoneIsPromised
  <2> QED BY <1>1, <2>2, NoPromise
<1> QED BY <1>0, <1>2, <1>3, <1>4, <1>5, <1>6, RunsMove

\* A run that has started is counted, in the copy and in the row.
LEMMA StartCounts ==
  ASSUME Base, AwaitedWorks, OneSlotEach, CountInv, RunStarted
  PROVE  OneSlotEach' /\ CountInv'
<1> DEFINE r0 == Served
           p0 == tick.project
           j0 == tick.copies[Served]
           i  == [tick.copies[Served] EXCEPT !.started = Counted(@, Served)]
           k  == [tick.copies EXCEPT ![Served] = i]
           due == Without(tick.due, {Served})
<1>0. /\ TypeOK /\ TickInv /\ RoundInv /\ TickOK /\ tick \in Tick
      /\ intents \in [Projects -> [Roles -> Intent \cup {None}]]
      /\ runs' = runs /\ starts' = starts
  BY DEF Base, TypeOK, TickOK, RunStarted
<1>f. /\ tick.copies \in Copies /\ tick.due \in Seq(Roles)
      /\ "after" \in TickPc
  BY <1>0, TickFields DEF TickPc
<1>1. /\ tick.at = "await" /\ tick.at \in Serving /\ tick.pass # <<>> /\ tick.run \in Runs
      /\ p0 \in Projects /\ r0 \in Roles /\ r0 \in ToSet(tick.due) /\ j0 \in Intent
      /\ tick.todo = <<>> /\ SeenStarted(tick.run)
  BY <1>0, TickWorks DEF RunStarted, Serving, Starting
<1>2. /\ i \in Intent /\ i.id = j0.id /\ j0.id \in Activations /\ j0.started \in Nat
      /\ i.started = Counted(j0.started, r0)
  BY <1>1, CountedIntent DEF Intent
<1>3. runs[tick.run] # None /\ runs[tick.run].role = r0 /\ runs[tick.run].intent = j0.id
  BY <1>1 DEF SeenStarted, AwaitedWorks
<1>4. \A s : k[s] = IF s = r0 /\ s \in Roles THEN i ELSE tick.copies[s]
  BY <1>f, <1>1 DEF Copies
<1>5. due \in Seq(Roles) /\ ToSet(due) = ToSet(tick.due) \ {r0}
  BY <1>f, WithoutFacts
<1>6. /\ AtLimit(i, r0) => /\ intents' = WithoutIntent(i.id)
                           /\ tick' = [Leaves(due) EXCEPT !.progress = TRUE]
      /\ ~AtLimit(i, r0) => /\ SaveIntent(p0, r0, i)
                            /\ tick' = [tick EXCEPT !.at = "after", !.progress = TRUE,
                                                    !.copies[Served] = i]
  BY DEF RunStarted
<1>7. j0 # None /\ i # None /\ j0 = tick.copies[r0]
  BY <1>1, <1>2, Somes
<1> HIDE DEF i, k, due
<1>8. AtLimit(i, r0) =>
        TickNow(tick', "pass", p0, tick.copies, tick.todo, due, Tail(tick.pass), None)
  <2> SUFFICES ASSUME AtLimit(i, r0)
               PROVE  TickNow(tick', "pass", p0, tick.copies, tick.todo, due, Tail(tick.pass), None)
    OBVIOUS
  <2>1. TickNow(Leaves(due), "pass", p0, tick.copies, tick.todo, due, Tail(tick.pass), None)
    BY <1>0, <1>1, <1>5, LeavesNow
  <2> QED BY <1>6, <2>1, ProgressNow DEF TickNow
<1>9. ~AtLimit(i, r0) =>
        TickNow(tick', "after", p0, k, tick.todo, tick.due, tick.pass, tick.run)
  <2> SUFFICES ASSUME ~AtLimit(i, r0)
               PROVE  TickNow(tick', "after", p0, k, tick.todo, tick.due, tick.pass, tick.run)
    OBVIOUS
  <2>1. tick' = [tick EXCEPT !.at = "after", !.progress = TRUE, !.copies[Served] = i]
    BY <1>6
  <2>2. Served \in Roles
    BY <1>1
  <2>3. TickNow([tick EXCEPT !.at = "after", !.progress = TRUE, !.copies[Served] = i],
                "after", tick.project, [tick.copies EXCEPT ![Served] = i],
                tick.todo, tick.due, tick.pass, tick.run)
    BY <1>0, <1>f, <1>2, <2>2, AfterNow
  <2> QED BY <2>1, <2>3 DEF k
<1> HIDE DEF r0, p0, j0
<1>10. OneSlotIn(intents, tick) /\ CountIn(starts, runs, tick, intents)
  BY CountParts
<1>11. NamedIn(intents, tick, j0.id, p0, r0)
  BY <1>7 DEF NamedIn, p0
<1>12. ASSUME NEW s \in Roles, NEW j, j \in Intent, CountedIn(starts, runs, tick, s, j),
              s # r0 \/ j.id # j0.id, tick'.at # "await"
       PROVE  CountedIn(starts', runs', tick', s, j)
  <2>1. UncountedIn(tick, runs, s, j.id) = 0
    BY <1>3, <1>12 DEF UncountedIn
  <2>2. UncountedIn(tick', runs', s, j.id) = 0
    BY <1>12 DEF UncountedIn
  <2> QED BY <1>0, <1>12, <2>1, <2>2 DEF CountedIn
<1>13. CASE AtLimit(i, r0)
  <2>1. /\ tick'.at = "pass" /\ tick'.project = tick.project /\ tick'.copies = tick.copies
        /\ tick'.todo = <<>> /\ tick'.due = due
    BY <1>1, <1>8, <1>13 DEF TickNow, p0
  <2>2. \A p \in Projects, r \in Roles : intents'[p][r] # None =>
          intents'[p][r] = intents[p][r] /\ intents[p][r].id # j0.id
    BY <1>0, <1>2, <1>6, <1>13 DEF WithoutIntent
  <2>3. \A a \in Activations, p \in Projects, r \in Roles :
          NamedIn(intents', tick', a, p, r) => NamedIn(intents, tick, a, p, r)
    BY <2>1, <2>2 DEF NamedIn
  <2>4. OneSlotIn(intents', tick')
    BY <1>10, <2>3 DEF OneSlotIn
  <2>5. ASSUME NEW p \in Projects, NEW r \in Roles, intents'[p][r] # None
        PROVE  CountedIn(starts', runs', tick', r, intents'[p][r])
    <3>1. intents'[p][r] = intents[p][r] /\ intents[p][r] \in Intent
      BY <1>0, <2>2, <2>5
    <3>2. CountedIn(starts, runs, tick, r, intents[p][r])
      BY <1>10, <2>5, <3>1 DEF CountIn
    <3> QED BY <1>12, <2>1, <2>2, <2>5, <3>1, <3>2
  <2>6. ASSUME NEW r \in Live(tick') \cap Roles PROVE CountedIn(starts', runs', tick', r, tick'.copies[r])
    <3>1. r \in ToSet(tick.due) /\ r # r0
      BY <1>5, <2>1, <2>6, EmptyFacts DEF Live
    <3>2. r \in Live(tick) /\ tick.copies[r] \in Intent
      BY <1>0, <3>1, LiveIntents DEF Live
    <3>3. CountedIn(starts, runs, tick, r, tick.copies[r])
      BY <1>10, <2>6, <3>2, Somes DEF CountIn
    <3> QED BY <1>12, <2>1, <2>6, <3>1, <3>2, <3>3
  <2>7. \A r \in ToSet(tick'.due) : ~AtLimit(tick'.copies[r], r)
    BY <1>5, <1>10, <2>1 DEF CountIn
  <2>8. LimitedIn(starts', runs')
    BY <1>0, <1>10 DEF CountIn
  <2>9. CountIn(starts', runs', tick', intents')
    BY <2>5, <2>6, <2>7, <2>8 DEF CountIn
  <2> QED BY <2>4, <2>9, CountParts
<1>14. CASE ~AtLimit(i, r0)
  <2>1. /\ tick'.at = "after" /\ tick'.project = tick.project /\ tick'.copies = k
        /\ tick'.todo = <<>> /\ tick'.due = tick.due
    BY <1>1, <1>9, <1>14 DEF TickNow, p0
  <2>2. \A p \in Projects, r \in Roles :
          intents'[p][r] = IF p = p0 /\ r = r0 THEN i ELSE intents[p][r]
    BY <1>0, <1>6, <1>14 DEF SaveIntent
  <2>3. \A r \in Roles :
          \/ k[r] # None /\ tick.copies[r] # None /\ k[r].id = tick.copies[r].id
          \/ k[r] = tick.copies[r]
    BY <1>2, <1>4, <1>7
  <2>4. ASSUME NEW a, NEW p \in Projects, NEW r \in Roles, NamedIn(intents', tick', a, p, r)
        PROVE  NamedIn(intents, tick, a, p, r)
    <3>1. CASE p = p0 /\ r = r0 /\ a = i.id
      BY <1>2, <1>11, <3>1
    <3>2. CASE ~(p = p0 /\ r = r0 /\ a = i.id)
      BY <2>1, <2>2, <2>3, <2>4, <3>2 DEF NamedIn
    <3> QED BY <3>1, <3>2
  <2>5. OneSlotIn(intents', tick')
    BY <1>10, <2>4 DEF OneSlotIn
  <2>c. CountedIn(starts', runs', tick', r0, i)
    <3>1. CountedIn(starts, runs, tick, r0, j0)
      BY <1>1, <1>7, <1>10 DEF CountIn, Live
    <3>2. UncountedIn(tick, runs, r0, j0.id) \in {0, 1} /\ UncountedIn(tick', runs', r0, i.id) \in {0, 1}
      BY UncountedTyped
    <3>3. PromisedIn(starts, runs, r0, j0.id) \in Nat
      BY <1>0, <1>1, <1>2, PromisesTyped DEF Base, TypeOK
    <3>4. CASE ExecutionLimit[r0] > 0
      <4>1. i.started = j0.started + 1
        BY <1>2, <3>4 DEF Counted
      <4>2. PromisedIn(starts, runs, r0, j0.id) <= j0.started + UncountedIn(tick, runs, r0, j0.id)
        BY <3>1, <3>4 DEF CountedIn
      <4>3. PromisedIn(starts, runs, r0, i.id) <= i.started + UncountedIn(tick', runs', r0, i.id)
        BY <1>2, <3>2, <3>3, <4>1, <4>2
      <4> QED BY <1>0, <4>3 DEF CountedIn
    <3>5. CASE ~(ExecutionLimit[r0] > 0)
      BY <3>5 DEF CountedIn
    <3> QED BY <3>4, <3>5
  <2>6. ASSUME NEW p \in Projects, NEW r \in Roles, intents'[p][r] # None
        PROVE  CountedIn(starts', runs', tick', r, intents'[p][r])
    <3>1. CASE p = p0 /\ r = r0
      BY <2>2, <2>c, <3>1
    <3>2. CASE ~(p = p0 /\ r = r0)
      <4>1. intents'[p][r] = intents[p][r] /\ intents[p][r] \in Intent /\ intents[p][r] # None
        BY <1>0, <2>2, <2>6, <3>2
      <4>2. CountedIn(starts, runs, tick, r, intents[p][r])
        BY <1>10, <4>1 DEF CountIn
      <4>3. r # r0 \/ intents[p][r].id # j0.id
        <5>1. NamedIn(intents, tick, intents[p][r].id, p, r)
          BY <4>1 DEF NamedIn
        <5> QED BY <1>1, <1>2, <1>10, <1>11, <3>2, <5>1 DEF OneSlotIn
      <4> QED BY <1>12, <2>1, <4>1, <4>2, <4>3
    <3> QED BY <3>1, <3>2
  <2>7. ASSUME NEW r \in Live(tick') \cap Roles PROVE CountedIn(starts', runs', tick', r, tick'.copies[r])
    <3>1. CASE r = r0
      BY <1>4, <2>1, <2>7, <2>c, <3>1
    <3>2. CASE r # r0
      <4>1. r \in Live(tick) /\ tick.copies[r] \in Intent /\ tick'.copies[r] = tick.copies[r]
        BY <1>0, <1>1, <1>4, <2>1, <2>7, <3>2, LiveIntents DEF Live
      <4>2. CountedIn(starts, runs, tick, r, tick.copies[r])
        BY <1>10, <2>7, <4>1, Somes DEF CountIn
      <4> QED BY <1>12, <2>1, <2>7, <3>2, <4>1, <4>2
    <3> QED BY <3>1, <3>2
  <2>8. \A r \in ToSet(tick'.due) : ~AtLimit(tick'.copies[r], r)
    BY <1>4, <1>10, <1>14, <2>1 DEF CountIn
  <2>9. LimitedIn(starts', runs')
    BY <1>0, <1>10 DEF CountIn
  <2>10. CountIn(starts', runs', tick', intents')
    BY <2>6, <2>7, <2>8, <2>9 DEF CountIn
  <2> QED BY <2>5, <2>10, CountParts
<1> QED BY <1>13, <1>14

\* A new activation has had no run, and nothing else is called like it.
LEMMA ActivateCounts ==
  ASSUME Base, OneSlotEach, CountInv, NEW c \in Clients, NEW a \in Activations, Activate(c, a)
  PROVE  OneSlotEach' /\ CountInv'
<1> DEFINE p0 == cmd[c].project
           r0 == Head(cmd[c].todo)
           i  == [id |-> a, started |-> 0, due |-> TRUE]
<1>0. /\ TypeOK /\ TickInv /\ CommandInv
      /\ intents \in [Projects -> [Roles -> Intent \cup {None}]]
      /\ starts \in [Roles -> [Activations -> Nat]]
      /\ runs' = runs /\ tick' = tick
  BY DEF Base, TypeOK, Activate
<1>1. /\ p0 \in Projects /\ r0 \in Roles /\ ~Remembered(a) /\ SaveIntent(p0, r0, i)
      /\ starts' = [s \in Roles |-> [starts[s] EXCEPT ![a] = 0]]
  BY <1>0, CommandWorks DEF Activate
<1>2. i \in Intent /\ i.id = a /\ i.started = 0
  BY DEF Intent
<1> HIDE DEF p0, r0, i
<1>3. \A p \in Projects, r \in Roles :
        intents'[p][r] = IF p = p0 /\ r = r0 THEN i ELSE intents[p][r]
  BY <1>0, <1>1 DEF SaveIntent
<1>4. /\ \A p \in Projects, r \in Roles : intents[p][r] # None => intents[p][r].id # a
      /\ \A r \in Roles : tick.copies[r] # None => tick.copies[r].id # a
      /\ \A x \in Runs : runs[x] # None => runs[x].intent # a
  BY <1>1 DEF Remembered
<1>5. OneSlotIn(intents, tick) /\ CountIn(starts, runs, tick, intents)
  BY CountParts
<1>6. ASSUME NEW b \in Activations, NEW p \in Projects, NEW r \in Roles,
             NamedIn(intents', tick', b, p, r)
      PROVE  IF b = a THEN p = p0 /\ r = r0 ELSE NamedIn(intents, tick, b, p, r)
  BY <1>0, <1>2, <1>3, <1>4, <1>6 DEF NamedIn
<1>7. OneSlotIn(intents', tick')
  BY <1>5, <1>6 DEF OneSlotIn
<1>8. \A r \in Roles : PendingIn(runs, r, a) = {}
  BY <1>4 DEF PendingIn
<1>9. ASSUME NEW r \in Roles, NEW b \in Activations
      PROVE  PromisedIn(starts', runs', r, b) = IF b = a THEN 0 ELSE PromisedIn(starts, runs, r, b)
  <2>1. starts'[r][b] = IF b = a THEN 0 ELSE starts[r][b]
    BY <1>0, <1>1
  <2>2. Cardinality(PendingIn(runs, r, a)) = 0
    BY <1>8, FS_EmptySet
  <2> QED BY <1>0, <2>1, <2>2 DEF PromisedIn
<1>10. ASSUME NEW r \in Roles, NEW j, j \in Intent, j.id # a, CountedIn(starts, runs, tick, r, j)
       PROVE  CountedIn(starts', runs', tick', r, j)
  <2>1. j.id \in Activations
    BY <1>10 DEF Intent
  <2>2. PromisedIn(starts', runs', r, j.id) = PromisedIn(starts, runs, r, j.id)
    BY <1>9, <1>10, <2>1
  <2> QED BY <1>0, <1>10, <2>2 DEF CountedIn
<1>11. CountedIn(starts', runs', tick', r0, i)
  <2>1. PromisedIn(starts', runs', r0, i.id) = 0
    BY <1>1, <1>2, <1>9
  <2>2. UncountedIn(tick', runs', r0, i.id) \in {0, 1}
    BY UncountedTyped
  <2> QED BY <1>2, <2>1, <2>2 DEF CountedIn
<1>12. ASSUME NEW p \in Projects, NEW r \in Roles, intents'[p][r] # None
       PROVE  CountedIn(starts', runs', tick', r, intents'[p][r])
  <2>1. CASE p = p0 /\ r = r0
    BY <1>3, <1>11, <2>1
  <2>2. CASE ~(p = p0 /\ r = r0)
    <3>1. /\ intents'[p][r] = intents[p][r] /\ intents[p][r] \in Intent
          /\ intents[p][r] # None /\ intents[p][r].id # a
      BY <1>0, <1>3, <1>4, <1>12, <2>2
    <3>2. CountedIn(starts, runs, tick, r, intents[p][r])
      BY <1>5, <3>1 DEF CountIn
    <3> QED BY <1>10, <3>1, <3>2
  <2> QED BY <2>1, <2>2
<1>13. ASSUME NEW r \in Live(tick) \cap Roles PROVE CountedIn(starts', runs', tick', r, tick.copies[r])
  <2>1. tick.copies[r] \in Intent /\ tick.copies[r] # None /\ tick.copies[r].id # a
    BY <1>0, <1>4, <1>13, LiveIntents, Somes
  <2>2. CountedIn(starts, runs, tick, r, tick.copies[r])
    BY <1>5, <1>13, <2>1 DEF CountIn
  <2> QED BY <1>10, <1>13, <2>1, <2>2
<1>14. LimitedIn(starts', runs')
  <2>1. ASSUME NEW r \in Roles, NEW b \in Activations
        PROVE  IF ExecutionLimit[r] > 0 THEN PromisedIn(starts', runs', r, b) <= ExecutionLimit[r]
                                        ELSE starts'[r][b] = 0
    <3>1. starts'[r][b] = IF b = a THEN 0 ELSE starts[r][b]
      BY <1>0, <1>1
    <3>2. IF ExecutionLimit[r] > 0 THEN PromisedIn(starts, runs, r, b) <= ExecutionLimit[r]
                                   ELSE starts[r][b] = 0
      BY <1>5 DEF CountIn, LimitedIn
    <3>3. ExecutionLimit[r] \in Nat
      BY LimitsAssumption
    <3> QED BY <1>9, <3>1, <3>2, <3>3
  <2> QED BY <2>1 DEF LimitedIn
<1>15. CountIn(starts', runs', tick', intents')
  BY <1>0, <1>5, <1>12, <1>13, <1>14 DEF CountIn
<1> QED BY <1>7, <1>15, CountParts

LEMMA CountInit ==
  ASSUME Init
  PROVE  OneSlotEach /\ CountInv
<1>1. /\ tick.at = "idle" /\ tick.project = None /\ tick.copies = NoIntents
      /\ Live(tick) = {} /\ ToSet(tick.due) = {}
  BY IdleNow, EmptyFacts DEF Init, TickNow, Live
<1>2. /\ intents \in [Projects -> [Roles -> [id : Activations, started : {0}, due : {TRUE}]]]
      /\ \A p, q \in Projects, r, s \in Roles :
           intents[p][r].id = intents[q][s].id => p = q /\ r = s
  BY DEF Init
<1>4. OneSlotIn(intents, tick)
  <2> SUFFICES ASSUME NEW a \in Activations, NEW p \in Projects, NEW q \in Projects,
                      NEW r \in Roles, NEW s \in Roles,
                      NamedIn(intents, tick, a, p, r), NamedIn(intents, tick, a, q, s)
               PROVE  p = q /\ r = s
    BY DEF OneSlotIn
  <2>1. intents[p][r].id = a /\ intents[q][s].id = a
    BY <1>1, Somes DEF NamedIn, NoIntents
  <2> QED BY <1>2, <2>1
<1>5. \A r, a : PendingIn(runs, r, a) = {}
  BY DEF Init, PendingIn
<1>6. ASSUME NEW r \in Roles, NEW a \in Activations
      PROVE  PromisedIn(starts, runs, r, a) = 0 /\ starts[r][a] = 0
  <2>1. Cardinality(PendingIn(runs, r, a)) = 0
    BY <1>5, FS_EmptySet
  <2>2. starts[r][a] = 0
    BY DEF Init
  <2> QED BY <2>1, <2>2 DEF PromisedIn
<1>7. LimitedIn(starts, runs)
  BY <1>6, LimitsAssumption DEF LimitedIn
<1>8. ASSUME NEW p \in Projects, NEW r \in Roles
      PROVE  CountedIn(starts, runs, tick, r, intents[p][r])
  <2> DEFINE New == [id : Activations, started : {0}, due : {TRUE}]
  <2>n. \A j \in New : j.started = 0 /\ j.id \in Activations
    OBVIOUS
  <2>0. intents \in [Projects -> [Roles -> New]]
    BY <1>2
  <2> HIDE DEF New
  <2>1. intents[p][r].started = 0 /\ intents[p][r].id \in Activations
    BY <2>0, <2>n
  <2>2. UncountedIn(tick, runs, r, intents[p][r].id) = 0
    BY <1>1 DEF UncountedIn
  <2> QED BY <1>6, <2>1, <2>2 DEF CountedIn
<1>9. CountIn(starts, runs, tick, intents)
  BY <1>1, <1>7, <1>8 DEF CountIn
<1> QED BY <1>4, <1>9, CountParts

LEMMA CountsHold ==
  ASSUME Base, CountInv
  PROVE  WithinExecutionLimit
<1>1. LimitedIn(starts, runs)
  BY CountParts DEF CountIn
<1>2. ASSUME NEW r \in Roles, NEW a \in Activations PROVE starts[r][a] <= ExecutionLimit[r]
  <2>1. /\ PromisedIn(starts, runs, r, a) \in Nat /\ starts[r][a] \in Nat
        /\ starts[r][a] <= PromisedIn(starts, runs, r, a)
    BY PromisesTyped DEF Base, TypeOK
  <2>2. ExecutionLimit[r] \in Nat
    BY LimitsAssumption
  <2> QED BY <1>1, <2>1, <2>2 DEF LimitedIn
<1> QED BY <1>2 DEF WithinExecutionLimit

\* An activation serves no more often than its executionLimit, although the count is
\* kept in copies that a tick writes back over whatever config.write, a file event or
\* another command has left in the row (tick_project, agent_dispatch.py:1832), as long
\* as no run is over before its starter has looked and the dispatcher does not die
\* between the two.
THEOREM ExecutionCorrect == ASSUME SeesEachRun PROVE Spec => []WithinExecutionLimit
<1> DEFINE I == Base /\ AwaitedWorks /\ OneSlotEach /\ CountInv
<1>1. Init => I
  BY BaseInit, CountInit, LimitsInit
<1>2. I /\ [Next]_vars => I'
  <2> SUFFICES ASSUME I, [Next]_vars PROVE I'
    OBVIOUS
  <2>1. Base'
    BY BaseKept
  <2>2. AwaitedWorks'
    BY AwaitedKept DEF WaitsInPeace, SeesEachRun
  <2>3. CASE RunStarted
    BY <2>1, <2>2, <2>3, StartCounts
  <2>4. CASE \E c \in Clients, a \in Activations : Activate(c, a)
    BY <2>1, <2>2, <2>4, ActivateCounts
  <2>5. CASE ~RunStarted /\ ~(\E c \in Clients, a \in Activations : Activate(c, a))
    <3>1. RowsStay /\ CopiesStay /\ CountsStay
      BY <2>1, <2>5, RowsKept, CopiesKept, CountsKept
    <3>2. OneSlotEach' /\ CountInv'
      BY <2>1, <3>1, OneSlotKept, CountKept
    <3> QED BY <2>1, <2>2, <3>2
  <2> QED BY <2>3, <2>4, <2>5
<1>3. I => WithinExecutionLimit
  BY CountsHold
<1> HIDE DEF I
<1> QED BY <1>1, <1>2, <1>3, PTL DEF Spec
=============================================================================
