---------------------------- MODULE UnionDataProofs ----------------------------
(***************************************************************************)
(* What a union keeps and looks at: its weights (UnionWeights), the        *)
(* performances of its members while they are being loaded (Performance)   *)
(* and the pages of its listings while rows come and go (Listings).  The   *)
(* three have no state in common; each section proves its invariants of    *)
(* its own specification.                                                  *)
(***************************************************************************)
EXTENDS UnionWeights, Performance, Listings, FiniteSetTheorems, WellFoundedInduction, TLAPS

----------------------------------------------------------------------------
(* UnionWeights: only a PATCH over a row that changed since its load leaves  *)
(* weights that miss the total                                              *)

\* An UPDATE leaves weights, and exactly the wanted ones when the row is the
\* one loaded.
LEMMA FlushedWeights ==
    ASSUME NEW l \in Weights, NEW w \in Weights, NEW n \in Weights
    PROVE  Flush(l, w, n) \in Weights /\ Flush(l, w, l) = w
BY DEF Flush, Weights

\* The union of a request to commit, and what it holds.
LEMMA HeldWeights ==
    ASSUME WeightsTypeOK, NEW r \in Requests
    PROVE  /\ req[r].op = "insert" => req[r] \in Inserting
           /\ req[r].op = "update" => /\ req[r] \in Updating
                                      /\ weight[req[r].union] \in Weights
<1>1. req[r] \in {Idle} \union Inserting \union Updating
  BY DEF WeightsTypeOK
<1>2. req[r].op = "update" => req[r] \in Updating
  BY <1>1 DEF Idle, Inserting
<1>3. req[r].op = "update" => req[r].union \in Unions /\ weight[req[r].union] # NoRow
  BY <1>2 DEF WeightsTypeOK, Updating
<1>4. req[r].op = "insert" => req[r] \in Inserting
  BY <1>1 DEF Idle, Updating
<1>5. QED BY <1>2, <1>3, <1>4 DEF WeightsTypeOK

\* Stored weights stay in range, requests carry balanced weights, and rows that
\* are to be updated are there.
THEOREM WeightsTypeCorrect == WeightsSpec => []WeightsTypeOK
<1>1. WeightsInit => WeightsTypeOK
  BY DEF WeightsInit, WeightsTypeOK, Idle
<1>2. WeightsTypeOK /\ [WeightsNext]_weightVars => WeightsTypeOK'
  <2> SUFFICES ASSUME WeightsTypeOK, [WeightsNext]_weightVars PROVE WeightsTypeOK'
    OBVIOUS
  <2>0. /\ weight \in [Unions -> Weights \union {NoRow}]
        /\ req \in [Requests -> {Idle} \union Inserting \union Updating]
        /\ \A r \in Requests : req[r].op = "update" => weight[req[r].union] # NoRow
        /\ \A r \in Requests : req[r].op = "update" => req[r].union \in Unions
    BY HeldWeights DEF WeightsTypeOK, Updating
  <2>1. ASSUME NEW r \in Requests, NEW u \in Unions, ReadMissing(r, u) PROVE WeightsTypeOK'
    <3>1. [op |-> "insert", union |-> u, wanted |-> Default] \in Inserting
      BY WeightsAssumption DEF Inserting
    <3>2. QED BY <2>0, <2>1, <3>1 DEF ReadMissing, WeightsTypeOK
  <2>2. ASSUME NEW r \in Requests, NEW u \in Unions, NEW w \in Weights, ReadForPatch(r, u, w)
        PROVE  WeightsTypeOK'
    <3>1. w \in Balanced
      BY <2>2 DEF ReadForPatch, Accepts, Balanced
    <3>2. CASE weight[u] = NoRow
      <4>1. [op |-> "insert", union |-> u, wanted |-> w] \in Inserting
        BY <3>1 DEF Inserting
      <4>2. req' = [req EXCEPT ![r] = [op |-> "insert", union |-> u, wanted |-> w]] /\ weight' = weight
        BY <2>2, <3>2 DEF ReadForPatch
      <4>3. QED BY <2>0, <4>1, <4>2 DEF WeightsTypeOK
    <3>3. CASE weight[u] # NoRow
      <4>1. [op |-> "update", union |-> u, loaded |-> weight[u], wanted |-> w] \in Updating
        BY <2>0, <3>1, <3>3 DEF Updating
      <4>2. /\ req' = [req EXCEPT ![r] = [op |-> "update", union |-> u, loaded |-> weight[u], wanted |-> w]]
            /\ weight' = weight
        BY <2>2, <3>3 DEF ReadForPatch
      <4>3. QED BY <2>0, <3>3, <4>1, <4>2 DEF WeightsTypeOK
    <3>4. QED BY <3>2, <3>3
  <2>3. ASSUME NEW r \in Requests, CommitInsert(r) PROVE WeightsTypeOK'
    <3>1. req[r].union \in Unions /\ req[r].wanted \in Weights
      BY <2>3, HeldWeights DEF CommitInsert, Inserting, Balanced
    <3>2. req[r].wanted # NoRow
      BY <3>1, WeightsAssumption
    <3>3. QED BY <2>0, <2>3, <3>1, <3>2 DEF CommitInsert, WeightsTypeOK, Idle
  <2>4. ASSUME NEW r \in Requests, InsertConflict(r) PROVE WeightsTypeOK'
    BY <2>0, <2>4 DEF InsertConflict, WeightsTypeOK, Idle
  <2>5. ASSUME NEW r \in Requests, CommitUpdate(r) PROVE WeightsTypeOK'
    <3> DEFINE u == req[r].union
               new == Flush(req[r].loaded, req[r].wanted, weight[u])
    <3>1. u \in Unions /\ req[r].loaded \in Weights /\ req[r].wanted \in Weights /\ weight[u] \in Weights
      BY <2>5, HeldWeights DEF CommitUpdate, Updating, Balanced
    <3>2. new \in Weights
      BY <3>1, FlushedWeights
    <3>3. new # NoRow
      BY <3>2, WeightsAssumption
    <3>4. weight' = [weight EXCEPT ![u] = new] /\ req' = [req EXCEPT ![r] = Idle]
      BY <2>5 DEF CommitUpdate
    <3> HIDE DEF new
    <3>5. QED BY <2>0, <3>1, <3>2, <3>3, <3>4 DEF WeightsTypeOK, Idle
  <2>6. ASSUME NEW r \in Requests, Rollback(r) PROVE WeightsTypeOK'
    BY <2>0, <2>6 DEF Rollback, WeightsTypeOK, Idle
  <2>7. CASE UNCHANGED weightVars
    BY <2>7 DEF weightVars, WeightsTypeOK
  <2>8. QED BY <2>1, <2>2, <2>3, <2>4, <2>5, <2>6, <2>7 DEF WeightsNext
<1>3. QED BY <1>1, <1>2, PTL DEF WeightsSpec

\* The lazy default, first PATCHes and every PATCH of the row it loaded leave
\* weights that sum up to the total; what misses it was written over a change.
THEOREM OnlyOverlapsUnbalance == WeightsSpec => OnlyStaleWritesUnbalance
<1>1. WeightsTypeOK /\ [WeightsNext]_weightVars =>
        [\A u \in Unions :
          weight'[u] # weight[u] /\ weight'[u] \notin Balanced =>
             \E r \in Requests : Stale(r) /\ req[r].union = u /\ req'[r] = Idle]_weightVars
  <2> SUFFICES ASSUME WeightsTypeOK, WeightsNext, NEW u \in Unions,
                      weight'[u] # weight[u], weight'[u] \notin Balanced
               PROVE  \E r \in Requests : Stale(r) /\ req[r].union = u /\ req'[r] = Idle
    OBVIOUS
  <2>0. /\ weight \in [Unions -> Weights \union {NoRow}]
        /\ req \in [Requests -> {Idle} \union Inserting \union Updating]
    BY DEF WeightsTypeOK
  <2>1. ASSUME NEW r \in Requests, CommitInsert(r) PROVE FALSE
    <3>1. req[r] \in Inserting
      BY <2>1, HeldWeights DEF CommitInsert
    <3>2. req[r].wanted \in Balanced /\ req[r].union \in Unions
      BY <3>1 DEF Inserting
    <3>3. weight' = [weight EXCEPT ![req[r].union] = req[r].wanted]
      BY <2>1 DEF CommitInsert
    <3>4. QED BY <2>0, <3>2, <3>3
  <2>2. ASSUME NEW r \in Requests, CommitUpdate(r)
        PROVE  Stale(r) /\ req[r].union = u /\ req'[r] = Idle
    <3> DEFINE new == Flush(req[r].loaded, req[r].wanted, weight[req[r].union])
    <3>1. /\ weight' = [weight EXCEPT ![req[r].union] = new]
          /\ req' = [req EXCEPT ![r] = Idle] /\ req[r].op = "update"
      BY <2>2 DEF CommitUpdate
    <3>2. req[r].union = u /\ weight'[u] = new
      BY <2>0, <3>1
    <3>3. req[r].loaded \in Weights /\ req[r].wanted \in Balanced /\ req[r].wanted \in Weights
      BY <3>1, HeldWeights DEF Updating, Balanced
    <3>4. ASSUME req[r].loaded = weight[u] PROVE new = req[r].wanted
      BY <3>2, <3>3, <3>4, FlushedWeights
    <3>5. req[r].loaded # weight[u]
      BY <3>2, <3>3, <3>4
    <3>6. QED BY <2>0, <3>1, <3>2, <3>5 DEF Stale
  <2>3. QED
    BY <2>1, <2>2 DEF WeightsNext, ReadMissing, ReadForPatch, InsertConflict, Rollback
<1>2. QED BY <1>1, WeightsTypeCorrect, PTL DEF WeightsSpec, OnlyStaleWritesUnbalance

----------------------------------------------------------------------------
(* Finite sets: the smallest of some, the greatest of numbers, and sums        *)

\* Of some finite sets one has the fewest elements.
LEMMA SmallestSet ==
    ASSUME NEW C, C # {}, \A U \in C : IsFiniteSet(U)
    PROVE  \E U \in C : \A V \in C : ~(Cardinality(V) < Cardinality(U))
<1> DEFINE R == OpToRel(<, Nat)
           counts == {Cardinality(U) : U \in C}
<1>1. IsWellFoundedOn(R, Nat)
  BY NatLessThanWellFounded
<1>2. \A k, n \in Nat : k < n => <<k, n>> \in R
  BY DEF OpToRel
<1>3. \A U \in C : Cardinality(U) \in Nat
  BY FS_CardinalityType
<1>4. counts \subseteq Nat /\ counts # {}
  BY <1>3
<1> HIDE DEF R, counts
<1>5. PICK n \in counts : \A k \in counts : ~(<<k, n>> \in R)
  BY <1>1, <1>4, WFMin
<1> USE DEF counts
<1>6. PICK U \in C : n = Cardinality(U)
  BY <1>5
<1>7. \A V \in C : ~(Cardinality(V) < Cardinality(U))
  BY <1>2, <1>3, <1>5, <1>6
<1>8. QED BY <1>7

\* A finite, non-empty set of numbers has a greatest element: the one with the
\* fewest elements above it.
LEMMA MaxOfFinite ==
    ASSUME NEW S \in SUBSET Nat, IsFiniteSet(S), S # {}
    PROVE  Max(S) \in S
<1> DEFINE above(x) == {y \in S : y > x}
           C == {above(x) : x \in S}
<1>1. \A x \in S : IsFiniteSet(above(x)) /\ Cardinality(above(x)) \in Nat
  BY FS_Subset, FS_CardinalityType
<1>2. C # {} /\ \A U \in C : IsFiniteSet(U)
  BY <1>1
<1> HIDE DEF C
<1>3. PICK U \in C : \A V \in C : ~(Cardinality(V) < Cardinality(U))
  BY <1>2, SmallestSet
<1> USE DEF C
<1>4. PICK x \in S : U = above(x)
  BY <1>3
<1>5. ASSUME NEW y \in S, y > x PROVE FALSE
  <2>1. above(y) \in SUBSET above(x)
    <3>1. \A z \in above(y) : z \in S /\ z \in Nat /\ x \in Nat /\ y \in Nat /\ z > y
      OBVIOUS
    <3>2. \A z \in above(y) : z > x
      BY <1>5, <3>1
    <3>3. QED BY <3>1, <3>2
  <2>2. y \in above(x) /\ y \notin above(y)
    BY <1>5
  <2>3. Cardinality(above(y)) # Cardinality(above(x)) /\ Cardinality(above(y)) <= Cardinality(above(x))
    BY <1>1, <2>1, <2>2, FS_Subset
  <2>4. Cardinality(above(y)) < Cardinality(above(x))
    BY <1>1, <2>3
  <2>5. above(y) \in C
    OBVIOUS
  <2>6. QED BY <1>3, <1>4, <2>4, <2>5
<1>6. \A y \in S : x >= y
  BY <1>5
<1>7. QED BY <1>6 DEF Max

\* The sums of the values of f over the subsets of S, as MapThenSumSet forms
\* them: one element is taken out after another.
Picked(s)        == CHOOSE x \in s : TRUE
IsSums(f, S, h)  == h = [s \in SUBSET S |-> IF s = {} THEN 0
                                            ELSE f[Picked(s)] + h[s \ {Picked(s)}]]
SumOver(f, S)    == (CHOOSE h : IsSums(f, S, h))[S]

\* What sums are at a set.
LEMMA SumsAt ==
    ASSUME NEW f, NEW S, NEW h, IsSums(f, S, h), NEW U \in SUBSET S
    PROVE  /\ U = {} => h[U] = 0
           /\ U # {} => /\ Picked(U) \in U /\ U \ {Picked(U)} \in SUBSET S
                        /\ h[U] = f[Picked(U)] + h[U \ {Picked(U)}]
<1>1. U # {} => Picked(U) \in U
  BY DEF Picked
<1>2. h[U] = IF U = {} THEN 0 ELSE f[Picked(U)] + h[U \ {Picked(U)}]
  BY DEF IsSums
<1>3. QED BY <1>1, <1>2

\* Sums over the subsets of two sets agree where they overlap.
LEMMA SumsAgree ==
    ASSUME NEW f, NEW S, NEW T, IsFiniteSet(S), NEW h, NEW k, IsSums(f, S, h), IsSums(f, T, k),
           NEW U \in SUBSET S, U \in SUBSET T
    PROVE  h[U] = k[U]
<1> DEFINE bad == {V \in SUBSET (S \intersect T) : h[V] # k[V]}
<1> SUFFICES ASSUME bad # {} PROVE FALSE
  OBVIOUS
<1>1. \A V \in bad : V \in SUBSET S /\ V \in SUBSET T /\ IsFiniteSet(V) /\ h[V] # k[V]
  BY FS_Subset
<1> HIDE DEF bad
<1>2. PICK V \in bad : \A W \in bad : ~(Cardinality(W) < Cardinality(V))
  BY <1>1, SmallestSet
<1>3. V \in SUBSET S /\ V \in SUBSET T /\ h[V] # k[V]
  BY <1>1, <1>2
<1>4. V # {}
  BY <1>3, SumsAt
<1> DEFINE W == V \ {Picked(V)}
<1>5. /\ Picked(V) \in V /\ h[V] = f[Picked(V)] + h[W] /\ k[V] = f[Picked(V)] + k[W]
  BY <1>3, <1>4, SumsAt
<1>6. h[W] # k[W]
  BY <1>3, <1>5
<1>7. W \in bad
  BY <1>3, <1>6 DEF bad
<1>8. Cardinality(W) = Cardinality(V) - 1 /\ Cardinality(V) \in Nat
  BY <1>1, <1>2, <1>5, FS_RemoveElement, FS_CardinalityType
<1>9. Cardinality(W) < Cardinality(V)
  BY <1>8
<1>10. QED BY <1>2, <1>7, <1>9

\* A function that is built from sums over the smaller subsets is sums.
LEMMA SumsExtend ==
    ASSUME NEW f, NEW T, NEW sums,
           \A U \in SUBSET T : U # T => IsSums(f, U, sums[U]), IsFiniteSet(T),
           NEW g, g = [U \in SUBSET T |->
                         IF U = {} THEN 0 ELSE f[Picked(U)] + sums[U \ {Picked(U)}][U \ {Picked(U)}]]
    PROVE  IsSums(f, T, g)
<1>1. ASSUME NEW U \in SUBSET T, U # T PROVE g[U] = sums[U][U]
  <2> DEFINE W == U \ {Picked(U)}
  <2>1. IsSums(f, U, sums[U]) /\ IsFiniteSet(U) /\ U \in SUBSET U
    BY <1>1, FS_Subset
  <2>2. CASE U = {}
    BY <2>1, <2>2, SumsAt
  <2>3. CASE U # {}
    <3>1. PICK k : k = sums[U]
      OBVIOUS
    <3>2. Picked(U) \in U /\ k[U] = f[Picked(U)] + k[W]
      <4>1. IsSums(f, U, k) /\ U \in SUBSET U
        BY <2>1, <3>1
      <4>2. QED BY <2>3, <4>1, SumsAt
    <3>3. W \in SUBSET T /\ W # T /\ IsFiniteSet(W) /\ W \in SUBSET U /\ W \in SUBSET W
      BY <1>1, <2>1, <3>2, FS_Subset
    <3>4. PICK j : j = sums[W]
      OBVIOUS
    <3>5. g[U] = f[Picked(U)] + j[W]
      BY <2>3, <3>4
    <3>6. k[W] = j[W]
      <4>1. IsSums(f, U, k) /\ IsFiniteSet(U)
        BY <2>1, <3>1
      <4>2. IsSums(f, W, j)
        BY <3>3, <3>4
      <4> HIDE DEF W
      <4>3. QED BY <3>3, <4>1, <4>2, SumsAgree
    <3>7. QED BY <3>1, <3>2, <3>5, <3>6
  <2>4. QED BY <2>2, <2>3
<1>2. ASSUME NEW U \in SUBSET T, U # {}
      PROVE  g[U] = f[Picked(U)] + g[U \ {Picked(U)}]
  <2>1. Picked(U) \in U
    BY <1>2 DEF Picked
  <2>2. U \ {Picked(U)} \in SUBSET T /\ U \ {Picked(U)} # T
    BY <2>1
  <2>3. g[U] = f[Picked(U)] + sums[U \ {Picked(U)}][U \ {Picked(U)}]
    BY <1>2
  <2>4. QED BY <1>1, <2>2, <2>3
<1>3. \A U \in SUBSET T : U = {} => g[U] = 0
  OBVIOUS
<1>4. \A U \in SUBSET T : g[U] = IF U = {} THEN 0 ELSE f[Picked(U)] + g[U \ {Picked(U)}]
  BY <1>2, <1>3
<1>5. g = [U \in SUBSET T |-> g[U]]
  OBVIOUS
<1>6. g = [U \in SUBSET T |-> IF U = {} THEN 0 ELSE f[Picked(U)] + g[U \ {Picked(U)}]]
  BY <1>4, <1>5, Zenon
<1>7. QED BY <1>6 DEF IsSums

\* There are sums over the subsets of a finite set.
LEMMA SumsExist ==
    ASSUME NEW f, NEW S, IsFiniteSet(S)
    PROVE  \E h : IsSums(f, S, h)
<1> DEFINE bad == {T \in SUBSET S : ~ \E h : IsSums(f, T, h)}
<1> SUFFICES ASSUME bad # {} PROVE FALSE
  OBVIOUS
<1>1. \A T \in bad : T \in SUBSET S /\ IsFiniteSet(T) /\ ~ \E h : IsSums(f, T, h)
  BY FS_Subset
<1>2. \A T \in SUBSET S : T \notin bad => \E h : IsSums(f, T, h)
  OBVIOUS
<1> HIDE DEF bad
<1>3. PICK T \in bad : \A W \in bad : ~(Cardinality(W) < Cardinality(T))
  BY <1>1, SmallestSet
<1> DEFINE sums == [U \in SUBSET T |-> CHOOSE h : IsSums(f, U, h)]
           g == [U \in SUBSET T |->
                   IF U = {} THEN 0 ELSE f[Picked(U)] + sums[U \ {Picked(U)}][U \ {Picked(U)}]]
<1>4. ASSUME NEW U \in SUBSET T, U # T PROVE IsSums(f, U, sums[U])
  <2>1. IsFiniteSet(T)
    BY <1>1, <1>3
  <2>2. /\ Cardinality(U) <= Cardinality(T) /\ Cardinality(U) # Cardinality(T)
        /\ Cardinality(U) \in Nat /\ Cardinality(T) \in Nat
    BY <1>4, <2>1, FS_Subset, FS_CardinalityType
  <2>3. Cardinality(U) < Cardinality(T)
    BY <2>2
  <2>4. U \in SUBSET S
    BY <1>1, <1>3
  <2>5. \E h : IsSums(f, U, h)
    BY <1>2, <1>3, <2>3, <2>4
  <2>6. sums[U] = CHOOSE h : IsSums(f, U, h)
    OBVIOUS
  <2> HIDE DEF sums
  <2>7. QED BY <2>5, <2>6
<1>5. IsSums(f, T, g)
  <2> HIDE DEF sums
  <2>1. QED BY <1>1, <1>3, <1>4, SumsExtend
<1>6. QED BY <1>1, <1>3, <1>5

\* Any sums give SumOver.
LEMMA SumsGive ==
    ASSUME NEW f, NEW S, IsFiniteSet(S), NEW h, IsSums(f, S, h), NEW U \in SUBSET S
    PROVE  h[U] = SumOver(f, U)
<1> DEFINE k == CHOOSE j : IsSums(f, U, j)
<1>1. IsFiniteSet(U)
  BY FS_Subset
<1>2. IsSums(f, U, k)
  BY <1>1, SumsExist
<1>3. U \in SUBSET U
  OBVIOUS
<1>4. h[U] = k[U]
  <2> HIDE DEF k
  <2>1. QED BY <1>2, <1>3, SumsAgree
<1>5. QED BY <1>4 DEF SumOver

\* In particular of the whole set.
LEMMA SumsGiveAll ==
    ASSUME NEW f, NEW S, IsFiniteSet(S), NEW h, IsSums(f, S, h)
    PROVE  h[S] = SumOver(f, S)
<1>1. S \in SUBSET S
  OBVIOUS
<1>2. QED BY <1>1, SumsGive

\* The sum over a set, one element taken out.
LEMMA SumStep ==
    ASSUME NEW f, NEW S, IsFiniteSet(S)
    PROVE  /\ S = {} => SumOver(f, S) = 0
           /\ S # {} => /\ Picked(S) \in S
                        /\ SumOver(f, S) = f[Picked(S)] + SumOver(f, S \ {Picked(S)})
<1>1. PICK h : IsSums(f, S, h)
  BY SumsExist
<1>2. S \in SUBSET S /\ S \ {Picked(S)} \in SUBSET S
  OBVIOUS
<1>3. h[S] = SumOver(f, S)
  BY <1>1, <1>2, SumsGive
<1>4. h[S \ {Picked(S)}] = SumOver(f, S \ {Picked(S)})
  <2> DEFINE W == S \ {Picked(S)}
  <2>1. W \in SUBSET S
    OBVIOUS
  <2> HIDE DEF W
  <2>2. h[W] = SumOver(f, W)
    BY <1>1, <2>1, SumsGive
  <2>3. QED BY <2>2 DEF W
<1>5. S = {} => h[S] = 0
  BY <1>1, <1>2, SumsAt
<1>6. S # {} => Picked(S) \in S /\ h[S] = f[Picked(S)] + h[S \ {Picked(S)}]
  BY <1>1, <1>2, SumsAt
<1>7. QED BY <1>3, <1>4, <1>5, <1>6

\* Sums of naturals are naturals.
LEMMA SumIsNat ==
    ASSUME NEW f, NEW S, IsFiniteSet(S), \A x \in S : f[x] \in Nat
    PROVE  SumOver(f, S) \in Nat
<1> DEFINE bad == {V \in SUBSET S : SumOver(f, V) \notin Nat}
<1> SUFFICES ASSUME bad # {} PROVE FALSE
  OBVIOUS
<1>1. \A V \in bad : IsFiniteSet(V) /\ V \in SUBSET S /\ SumOver(f, V) \notin Nat
  BY FS_Subset
<1> HIDE DEF bad
<1>2. PICK V \in bad : \A W \in bad : ~(Cardinality(W) < Cardinality(V))
  BY <1>1, SmallestSet
<1>3. V # {}
  <2>1. IsFiniteSet(V) /\ SumOver(f, V) \notin Nat
    BY <1>1, <1>2
  <2>2. V = {} => SumOver(f, V) = 0
    BY <2>1, SumStep
  <2>3. QED BY <2>1, <2>2
<1>4. Picked(V) \in V /\ SumOver(f, V) = f[Picked(V)] + SumOver(f, V \ {Picked(V)})
  BY <1>1, <1>2, <1>3, SumStep
<1>5. V \ {Picked(V)} \notin bad
  <2>1. Cardinality(V \ {Picked(V)}) = Cardinality(V) - 1 /\ Cardinality(V) \in Nat
    BY <1>1, <1>2, <1>4, FS_RemoveElement, FS_CardinalityType
  <2>2. Cardinality(V \ {Picked(V)}) < Cardinality(V)
    BY <2>1
  <2>3. QED BY <1>2, <2>2
<1>6. SumOver(f, V \ {Picked(V)}) \in Nat
  BY <1>1, <1>2, <1>5 DEF bad
<1>7. f[Picked(V)] \in Nat
  BY <1>1, <1>2, <1>4
<1>8. QED BY <1>1, <1>2, <1>4, <1>6, <1>7

\* Whichever element of a set is taken out.
LEMMA SumRemove ==
    ASSUME NEW f, NEW S, IsFiniteSet(S), \A x \in S : f[x] \in Nat, NEW x \in S
    PROVE  SumOver(f, S) = f[x] + SumOver(f, S \ {x})
<1> DEFINE fits(V, y) == SumOver(f, V) = f[y] + SumOver(f, V \ {y})
           bad == {V \in SUBSET S : \E y \in V : ~fits(V, y)}
<1> SUFFICES ASSUME bad # {} PROVE FALSE
  OBVIOUS
<1>1. \A V \in bad : IsFiniteSet(V) /\ V \in SUBSET S /\ \E y \in V : ~fits(V, y)
  BY FS_Subset
<1>2. \A V \in SUBSET S : V \notin bad => \A y \in V : fits(V, y)
  OBVIOUS
<1> HIDE DEF bad
<1>3. PICK V \in bad : \A W \in bad : ~(Cardinality(W) < Cardinality(V))
  BY <1>1, SmallestSet
<1>4. PICK y \in V : ~fits(V, y)
  BY <1>1, <1>3
<1> DEFINE p == Picked(V)
<1>5. p \in V /\ SumOver(f, V) = f[p] + SumOver(f, V \ {p})
  BY <1>1, <1>3, <1>4, SumStep
<1>6. p # y
  BY <1>4, <1>5
<1>7. ASSUME NEW z \in V PROVE V \ {z} \in SUBSET S /\ V \ {z} \notin bad
  <2>1. Cardinality(V \ {z}) = Cardinality(V) - 1 /\ Cardinality(V) \in Nat
    BY <1>1, <1>3, FS_RemoveElement, FS_CardinalityType
  <2>2. Cardinality(V \ {z}) < Cardinality(V)
    BY <2>1
  <2>3. QED BY <1>1, <1>3, <2>2
<1>8. SumOver(f, V \ {p}) = f[y] + SumOver(f, (V \ {p}) \ {y})
  BY <1>2, <1>4, <1>5, <1>6, <1>7
<1>9. SumOver(f, V \ {y}) = f[p] + SumOver(f, (V \ {y}) \ {p})
  BY <1>2, <1>4, <1>5, <1>6, <1>7
<1>10. (V \ {p}) \ {y} = (V \ {y}) \ {p}
  OBVIOUS
<1>11. f[p] \in Nat /\ f[y] \in Nat /\ SumOver(f, (V \ {p}) \ {y}) \in Nat
  <2>1. p \in S /\ y \in S /\ (V \ {p}) \ {y} \in SUBSET S
    BY <1>1, <1>3, <1>5
  <2>2. IsFiniteSet((V \ {p}) \ {y})
    BY <2>1, FS_Subset
  <2>3. SumOver(f, (V \ {p}) \ {y}) \in Nat
    <3> DEFINE W == (V \ {p}) \ {y}
    <3>1. \A u \in W : f[u] \in Nat
      BY <2>1
    <3> HIDE DEF W
    <3>2. IsFiniteSet(W) => SumOver(f, W) \in Nat
      BY <3>1, SumIsNat
    <3>3. QED BY <2>2, <3>2 DEF W
  <2>4. QED BY <2>1, <2>3
<1>12. SumOver(f, V) = f[y] + SumOver(f, V \ {y})
  <2> DEFINE rest == SumOver(f, (V \ {p}) \ {y})
  <2>1. SumOver(f, V) = f[p] + (f[y] + rest) /\ SumOver(f, V \ {y}) = f[p] + rest
    BY <1>5, <1>8, <1>9, <1>10
  <2>2. f[p] \in Nat /\ f[y] \in Nat /\ rest \in Nat
    BY <1>11
  <2> HIDE DEF p, rest
  <2>3. f[p] + (f[y] + rest) = f[y] + (f[p] + rest)
    BY <2>2
  <2>4. QED BY <2>1, <2>3
<1>13. QED BY <1>4, <1>12

\* The sum over two disjoint sets.
LEMMA SumOfBoth ==
    ASSUME NEW f, NEW S, NEW T, IsFiniteSet(S), IsFiniteSet(T), S \intersect T = {},
           \A x \in S \union T : f[x] \in Nat
    PROVE  SumOver(f, S \union T) = SumOver(f, S) + SumOver(f, T)
<1> DEFINE bad == {V \in SUBSET S : SumOver(f, V \union T) # SumOver(f, V) + SumOver(f, T)}
<1> SUFFICES ASSUME bad # {} PROVE FALSE
  OBVIOUS
<1>1. \A V \in bad : /\ IsFiniteSet(V) /\ V \in SUBSET S
                      /\ SumOver(f, V \union T) # SumOver(f, V) + SumOver(f, T)
  BY FS_Subset
<1>2. \A V \in SUBSET S : V \notin bad => SumOver(f, V \union T) = SumOver(f, V) + SumOver(f, T)
  OBVIOUS
<1> HIDE DEF bad
<1>3. PICK V \in bad : \A W \in bad : ~(Cardinality(W) < Cardinality(V))
  BY <1>1, SmallestSet
<1>4. SumOver(f, T) \in Nat
  BY SumIsNat
<1>5. V # {}
  <2> SUFFICES ASSUME V = {} PROVE FALSE
    OBVIOUS
  <2>1. V \union T = T
    OBVIOUS
  <2>2. SumOver(f, V) = 0
    BY <1>1, <1>3, SumStep
  <2>3. QED BY <1>1, <1>3, <1>4, <2>1, <2>2
<1> DEFINE p == Picked(V)
           W == V \ {p}
<1>6. p \in V /\ SumOver(f, V) = f[p] + SumOver(f, W)
  BY <1>1, <1>3, <1>5, SumStep
<1>7. W \in SUBSET S /\ W \notin bad
  <2>1. Cardinality(W) = Cardinality(V) - 1 /\ Cardinality(V) \in Nat
    BY <1>1, <1>3, <1>6, FS_RemoveElement, FS_CardinalityType
  <2>2. Cardinality(W) < Cardinality(V)
    BY <2>1
  <2>3. QED BY <1>1, <1>3, <2>2
<1>8. SumOver(f, W \union T) = SumOver(f, W) + SumOver(f, T)
  BY <1>2, <1>7
<1>9. SumOver(f, V \union T) = f[p] + SumOver(f, W \union T)
  <2> DEFINE B == V \union T
  <2>1. IsFiniteSet(B) /\ p \in B /\ B \ {p} = W \union T /\ \A x \in B : f[x] \in Nat
    BY <1>1, <1>3, <1>6, FS_Union
  <2> HIDE DEF B, p
  <2>2. SumOver(f, B) = f[p] + SumOver(f, B \ {p})
    BY <2>1, SumRemove
  <2>3. QED BY <2>1, <2>2 DEF B
<1>10. f[p] \in Nat /\ SumOver(f, W) \in Nat
  <2>1. \A u \in W : f[u] \in Nat
    BY <1>7
  <2>2. IsFiniteSet(W)
    BY <1>7, FS_Subset
  <2>3. f[p] \in Nat
    BY <1>1, <1>3, <1>6
  <2> HIDE DEF W
  <2>4. QED BY <2>1, <2>2, <2>3, SumIsNat
<1>11. QED
  <2> HIDE DEF p, W
  <2>1. QED BY <1>1, <1>3, <1>4, <1>6, <1>8, <1>9, <1>10

\* The sum over one element.
LEMMA SumOverOne ==
    ASSUME NEW f, NEW r, f[r] \in Nat
    PROVE  SumOver(f, {r}) = f[r]
<1>1. IsFiniteSet({r}) /\ IsFiniteSet({}) /\ {r} # {}
  BY FS_Singleton, FS_EmptySet
<1>2. Picked({r}) = r /\ {r} \ {r} = {}
  BY DEF Picked
<1>3. SumOver(f, {r}) = f[r] + SumOver(f, {})
  <2> DEFINE S == {r}
  <2>1. S # {} /\ IsFiniteSet(S)
    BY <1>1
  <2> HIDE DEF S
  <2>2. SumOver(f, S) = f[Picked(S)] + SumOver(f, S \ {Picked(S)})
    BY <2>1, SumStep
  <2>3. QED BY <1>2, <2>2 DEF S
<1>4. SumOver(f, {}) = 0
  BY <1>1, SumStep
<1>5. QED BY <1>3, <1>4

----------------------------------------------------------------------------
(* Performance: an analysis of five SELECTs, suggestions and hit rates         *)

\* The analysis in its phases.
NotAsked  == [pc : {"none"}]
Asking    == [pc : {"latest", "row", "missing"}, member : Members,
              asked : Periods \union {Null}, period : Periods \union {Null}]
RowRead   == [pc : {"count"}, member : Members, asked : Periods \union {Null},
              period : Periods, row : PerfRows]
Ranked    == [pc : {"history"}, member : Members, asked : Periods \union {Null},
              period : Periods, row : PerfRows, rankTotal : 1..Cardinality(Members)]
WithPast  == [pc : {"periods", "failed"}, member : Members, asked : Periods \union {Null},
              period : Periods, row : PerfRows, rankTotal : 1..Cardinality(Members),
              history : SUBSET Periods]
Complete  == [pc : {"done"}, member : Members, asked : Periods \union {Null},
              period : Periods, row : PerfRows, rankTotal : 1..Cardinality(Members),
              history : SUBSET Periods, periods : SUBSET Periods]

PerfTypeOK ==
    /\ perf \in [Members \X Periods -> PerfRows \union {Null}]
    /\ ask \in NotAsked \union Asking \union RowRead \union Ranked \union WithPast \union Complete

\* What the SELECTs so far have established.  A row once loaded stays, so that
\* the month found for the union, the member's row and the history remain true
\* of every later table.
AskConsistent ==
    /\ ask.pc = "latest" => ask.asked = Null /\ ask.period = Null
    /\ ask.pc = "row" =>
          /\ ask.period \in Periods /\ ask.asked \in {Null, ask.period}
          /\ ask.asked = Null => \E m \in Members : perf[<<m, ask.period>>] # Null
    /\ ask.pc \in {"count", "history", "periods", "done"} =>
          /\ ask.row = perf[<<ask.member, ask.period>>]
          /\ ask.asked \in {Null, ask.period}
    /\ ask.pc \in {"periods", "done"} =>
          /\ ask.period \in ask.history
          /\ ask.history \subseteq PeriodsOf(ask.member)
    /\ ask.pc = "done" => ask.history \subseteq ask.periods
    /\ MissingOnlyMidLoad

AnalysisInv == PerfTypeOK /\ AskConsistent

\* The phase determines the fields.
LEMMA AskPhases ==
    ASSUME PerfTypeOK
    PROVE  /\ ask.pc \in {"latest", "row", "missing"} => ask \in Asking
           /\ ask.pc = "count" => ask \in RowRead
           /\ ask.pc = "history" => ask \in Ranked
           /\ ask.pc \in {"periods", "failed"} => ask \in WithPast
           /\ ask.pc = "done" => ask \in Complete
BY DEF PerfTypeOK, NotAsked, Asking, RowRead, Ranked, WithPast, Complete

\* The months of a finite table are finitely many, and the latest of them is
\* the month of some member's row.
LEMMA LatestIsLoaded ==
    ASSUME AvailablePeriods # {}
    PROVE  /\ Max(AvailablePeriods) \in Periods
           /\ \E m \in Members : perf[<<m, Max(AvailablePeriods)>>] # Null
<1>1. AvailablePeriods \subseteq Periods
  BY DEF AvailablePeriods, PeriodsOf
<1>2. IsFiniteSet(AvailablePeriods) /\ AvailablePeriods \in SUBSET Nat
  BY <1>1, FS_Subset, PerformanceAssumption
<1>3. Max(AvailablePeriods) \in AvailablePeriods
  BY <1>2, MaxOfFinite
<1>4. QED BY <1>1, <1>3 DEF AvailablePeriods, PeriodsOf

\* A loaded row is counted, and no more members than there are.
LEMMA RankedMembers ==
    ASSUME NEW m \in Members, NEW p, perf[<<m, p>>] # Null
    PROVE  Cardinality({x \in Members : perf[<<x, p>>] # Null}) \in 1..Cardinality(Members)
<1> DEFINE loaded == {x \in Members : perf[<<x, p>>] # Null}
<1>1. IsFiniteSet(loaded) /\ Cardinality(loaded) <= Cardinality(Members)
  BY FS_Subset, PerformanceAssumption
<1>2. Cardinality(loaded) \in Nat /\ Cardinality(Members) \in Nat
  BY <1>1, FS_CardinalityType, PerformanceAssumption
<1>3. Cardinality(loaded) # 0
  BY <1>1, FS_EmptySet
<1>4. QED BY <1>1, <1>2, <1>3

\* Loading rows and reading them keeps what has been read in step.
LEMMA AnalysisInvHolds == PerfSpec => []AnalysisInv
<1>1. PerfInit => AnalysisInv
  BY DEF PerfInit, AnalysisInv, PerfTypeOK, AskConsistent, NotAsked, MissingOnlyMidLoad
<1>2. AnalysisInv /\ [PerfNext]_perfVars => AnalysisInv'
  <2> SUFFICES ASSUME AnalysisInv, [PerfNext]_perfVars PROVE AnalysisInv'
    OBVIOUS
  <2>0. /\ PerfTypeOK /\ AskConsistent /\ MissingOnlyMidLoad
        /\ perf \in [Members \X Periods -> PerfRows \union {Null}]
        /\ Null \notin PerfRows /\ Null \notin Periods
    BY PerformanceAssumption DEF AnalysisInv, PerfTypeOK, AskConsistent
  <2>1. ASSUME NEW m \in Members, NEW p \in Periods, NEW row \in PerfRows, Load(m, p, row)
        PROVE  AnalysisInv'
    <3>1. perf[<<m, p>>] = Null /\ perf' = [perf EXCEPT ![<<m, p>>] = row] /\ ask' = ask
      BY <2>1 DEF Load
    <3>2. perf' \in [Members \X Periods -> PerfRows \union {Null}]
      BY <2>0, <3>1
    <3>3. PerfTypeOK'
      BY <2>0, <3>1, <3>2 DEF PerfTypeOK
    <3>4. \A x \in Members, q \in Periods : perf[<<x, q>>] # Null => perf'[<<x, q>>] = perf[<<x, q>>]
      BY <2>0, <3>1
    <3>5. ask.pc \in {"count", "history", "periods", "done"} =>
            ask.member \in Members /\ ask.period \in Periods /\ ask.row # Null
      BY <2>0, AskPhases DEF RowRead, Ranked, WithPast, Complete
    <3>6. \A x \in Members : PeriodsOf(x) \subseteq PeriodsOf(x)'
      BY <2>0, <3>4 DEF PeriodsOf
    <3>7. ask.pc \in {"row", "missing"} => ask.member \in Members /\ ask.period \in Periods \union {Null}
      BY <2>0, AskPhases DEF Asking
    <3>8. MissingOnlyMidLoad'
      BY <2>0, <3>1, <3>4, <3>7 DEF MissingOnlyMidLoad
    <3>9. AskConsistent'
      BY <2>0, <3>1, <3>4, <3>5, <3>6, <3>7, <3>8 DEF AskConsistent
    <3>10. QED BY <3>3, <3>9 DEF AnalysisInv
  <2>2. ASSUME NEW m \in Members, NEW p \in Periods \union {Null}, BeginAnalysis(m, p)
        PROVE  AnalysisInv'
    <3>1. /\ ask' = [pc |-> IF p = Null THEN "latest" ELSE "row",
                     member |-> m, asked |-> p, period |-> p]
          /\ perf' = perf
      BY <2>2 DEF BeginAnalysis
    <3>2. ask' \in Asking
      BY <3>1 DEF Asking
    <3>3. QED BY <2>0, <3>1, <3>2 DEF AnalysisInv, PerfTypeOK, AskConsistent, MissingOnlyMidLoad
  <2>3. CASE LatestPeriod
    <3>1. ask.pc = "latest" /\ ask \in Asking /\ ask.asked = Null /\ ask.period = Null /\ perf' = perf
      BY <2>0, <2>3, AskPhases DEF LatestPeriod, AskConsistent
    <3>2. CASE AvailablePeriods = {}
      <4>1. ask' = [ask EXCEPT !.pc = "missing"]
        BY <2>3, <3>2 DEF LatestPeriod
      <4>2. ask' \in Asking /\ ask'.pc = "missing" /\ ask'.period = Null
        BY <3>1, <4>1 DEF Asking
      <4>3. QED BY <2>0, <3>1, <4>2 DEF AnalysisInv, PerfTypeOK, AskConsistent, MissingOnlyMidLoad
    <3>3. CASE AvailablePeriods # {}
      <4> DEFINE last == Max(AvailablePeriods)
      <4>1. ask' = [ask EXCEPT !.pc = "row", !.period = last]
        BY <2>3, <3>3 DEF LatestPeriod
      <4>2. last \in Periods /\ \E x \in Members : perf[<<x, last>>] # Null
        BY <3>3, LatestIsLoaded
      <4> HIDE DEF last
      <4>3. ask' \in Asking /\ ask'.pc = "row" /\ ask'.period = last /\ ask'.asked = Null
        BY <3>1, <4>1, <4>2 DEF Asking
      <4>4. QED BY <2>0, <3>1, <4>2, <4>3 DEF AnalysisInv, PerfTypeOK, AskConsistent, MissingOnlyMidLoad
    <3>4. QED BY <3>2, <3>3
  <2>4. CASE ReadRow
    <3>1. /\ ask.pc = "row" /\ ask \in Asking /\ perf' = perf
          /\ ask.period \in Periods /\ ask.asked \in {Null, ask.period}
          /\ ask.asked = Null => \E x \in Members : perf[<<x, ask.period>>] # Null
      BY <2>0, <2>4, AskPhases DEF ReadRow, AskConsistent
    <3>2. CASE perf[<<ask.member, ask.period>>] = Null
      <4>1. ask' = [ask EXCEPT !.pc = "missing"]
        BY <2>4, <3>2 DEF ReadRow
      <4>2. /\ ask' \in Asking /\ ask'.pc = "missing" /\ ask'.member = ask.member
            /\ ask'.period = ask.period /\ ask'.asked = ask.asked
        BY <3>1, <4>1 DEF Asking
      <4>3. QED BY <2>0, <3>1, <3>2, <4>2 DEF AnalysisInv, PerfTypeOK, AskConsistent, MissingOnlyMidLoad
    <3>3. CASE perf[<<ask.member, ask.period>>] # Null
      <4>1. ask' = [pc |-> "count", member |-> ask.member, asked |-> ask.asked,
                    period |-> ask.period, row |-> perf[<<ask.member, ask.period>>]]
        BY <2>4, <3>3 DEF ReadRow
      <4>2. perf[<<ask.member, ask.period>>] \in PerfRows
        BY <2>0, <3>1, <3>3 DEF Asking
      <4>3. ask' \in RowRead
        BY <3>1, <4>1, <4>2 DEF Asking, RowRead
      <4>4. QED BY <2>0, <3>1, <4>1, <4>3 DEF AnalysisInv, PerfTypeOK, AskConsistent, MissingOnlyMidLoad
    <3>4. QED BY <3>2, <3>3
  <2>5. CASE CountRanked
    <3> DEFINE n == Cardinality({x \in Members : perf[<<x, ask.period>>] # Null})
    <3>1. ask.pc = "count" /\ ask \in RowRead /\ perf' = perf
      BY <2>0, <2>5, AskPhases DEF CountRanked
    <3>2. ask' = [pc |-> "history", member |-> ask.member, asked |-> ask.asked,
                  period |-> ask.period, row |-> ask.row, rankTotal |-> n]
      BY <2>5 DEF CountRanked
    <3>3. ask.row = perf[<<ask.member, ask.period>>] /\ ask.row # Null /\ ask.member \in Members
      BY <2>0, <3>1 DEF AskConsistent, RowRead
    <3>4. n \in 1..Cardinality(Members)
      BY <3>3, RankedMembers
    <3> HIDE DEF n
    <3>5. ask' \in Ranked
      BY <3>1, <3>2, <3>4 DEF RowRead, Ranked
    <3>6. QED BY <2>0, <3>1, <3>2, <3>5 DEF AnalysisInv, PerfTypeOK, AskConsistent, MissingOnlyMidLoad
  <2>6. CASE ReadHistory
    <3>1. ask.pc = "history" /\ ask \in Ranked /\ perf' = perf
      BY <2>0, <2>6, AskPhases DEF ReadHistory
    <3>2. ask' = [pc |-> "periods", member |-> ask.member, asked |-> ask.asked,
                  period |-> ask.period, row |-> ask.row, rankTotal |-> ask.rankTotal,
                  history |-> PeriodsOf(ask.member)]
      BY <2>6 DEF ReadHistory
    <3>3. PeriodsOf(ask.member) \in SUBSET Periods /\ ask.period \in PeriodsOf(ask.member)
      BY <2>0, <3>1 DEF PeriodsOf, AskConsistent, Ranked
    <3>4. ask' \in WithPast
      BY <3>1, <3>2, <3>3 DEF Ranked, WithPast
    <3>5. PeriodsOf(ask.member)' = PeriodsOf(ask.member)
      BY <3>1, <3>2 DEF PeriodsOf
    <3>6. QED BY <2>0, <3>1, <3>2, <3>3, <3>4, <3>5
              DEF AnalysisInv, PerfTypeOK, AskConsistent, MissingOnlyMidLoad
  <2>7. CASE ReadPeriods
    <3>1. ask.pc = "periods" /\ ask \in WithPast /\ perf' = perf
      BY <2>0, <2>7, AskPhases DEF ReadPeriods
    <3>2. ask' = [pc |-> "done", member |-> ask.member, asked |-> ask.asked,
                  period |-> ask.period, row |-> ask.row, rankTotal |-> ask.rankTotal,
                  history |-> ask.history, periods |-> AvailablePeriods]
      BY <2>7 DEF ReadPeriods
    <3>3. AvailablePeriods \in SUBSET Periods
      BY DEF AvailablePeriods, PeriodsOf
    <3>4. ask.history \subseteq AvailablePeriods
      BY <2>0, <3>1 DEF AskConsistent, AvailablePeriods, WithPast
    <3>5. ask' \in Complete
      BY <3>1, <3>2, <3>3 DEF WithPast, Complete
    <3>6. PeriodsOf(ask.member)' = PeriodsOf(ask.member)
      BY <3>1, <3>2 DEF PeriodsOf
    <3>7. QED BY <2>0, <3>1, <3>2, <3>4, <3>5, <3>6
              DEF AnalysisInv, PerfTypeOK, AskConsistent, MissingOnlyMidLoad
  <2>8. CASE DivideByZero
    <3>1. ask.pc = "periods" /\ ask \in WithPast /\ perf' = perf
      BY <2>0, <2>8, AskPhases DEF DivideByZero
    <3>2. ask' = [ask EXCEPT !.pc = "failed"]
      BY <2>8 DEF DivideByZero
    <3>3. ask' \in WithPast /\ ask'.pc = "failed"
      BY <3>1, <3>2 DEF WithPast
    <3>4. QED BY <2>0, <3>1, <3>3 DEF AnalysisInv, PerfTypeOK, AskConsistent, MissingOnlyMidLoad
  <2>9. CASE UNCHANGED perfVars
    BY <2>0, <2>9 DEF perfVars, AnalysisInv, PerfTypeOK, AskConsistent, MissingOnlyMidLoad, PeriodsOf
  <2>10. QED BY <2>1, <2>2, <2>3, <2>4, <2>5, <2>6, <2>7, <2>8, <2>9 DEF PerfNext
<1>3. QED BY <1>1, <1>2, PTL DEF PerfSpec

\* An analysis that was answered fits together, whatever was loaded between its
\* five SELECTs.
THEOREM AnalysesFitTogether == PerfSpec => []AnalysisFitsTogether
<1>1. AnalysisInv => AnalysisFitsTogether
  BY AskPhases DEF AnalysisInv, AskConsistent, AnalysisFitsTogether, Complete
<1>2. QED BY <1>1, AnalysisInvHolds, PTL

\* An analysis without a month is refused only while the union's latest month is
\* loaded in part.
THEOREM RefusedOnlyMidLoad == PerfSpec => []MissingOnlyMidLoad
BY AnalysisInvHolds, PTL DEF AnalysisInv, AskConsistent

\* The best rows are those of the best other members, and with one month each no
\* member is suggested for two rows: rows and members correspond, and the best rows
\* are of as many members.
THEOREM SuggestedAreBest == PerfSpec => []SuggestionsAreBest
<1>1. ASSUME NEW mentee \in Members, NEW size \in 1..2, NEW S \in Suggestions(mentee, size)
      PROVE  LET others == {m \in Members \ {mentee} : PeriodsOf(m) # {}}
                 named  == {x[1] : x \in S}
             IN  /\ named \subseteq others
                 /\ \A x \in S, o \in others \ named : \A p \in PeriodsOf(o) :
                       perf[<<o, p>>].score <= perf[x].score
                 /\ (\A m \in Members : Cardinality(PeriodsOf(m)) <= 1) =>
                       Cardinality(named) = Lower(size, Cardinality(others))
  <2> DEFINE others == {m \in Members \ {mentee} : PeriodsOf(m) # {}}
             named  == {x[1] : x \in S}
             rows   == Candidates(mentee)
             first(T) == [x \in T |-> x[1]]
             once   == \A m \in Members : Cardinality(PeriodsOf(m)) <= 1
  <2>1. \A x \in rows : /\ x \in Members \X Periods /\ x[1] \in others
                        /\ x[2] \in PeriodsOf(x[1])
    BY DEF Candidates, PeriodsOf
  <2>2. /\ S \subseteq rows /\ Cardinality(S) = Lower(size, Cardinality(rows))
        /\ \A x \in S, y \in rows \ S : perf[x].score >= perf[y].score
    BY <1>1 DEF Suggestions
  <2>3. IsFiniteSet(rows)
    <3>1. IsFiniteSet(Members \X Periods)
      BY FS_Product, PerformanceAssumption
    <3>2. rows \subseteq Members \X Periods
      BY DEF Candidates
    <3>3. QED BY <3>1, <3>2, FS_Subset
  <2>4. ASSUME once, NEW x \in rows, NEW y \in rows, x[1] = y[1] PROVE x = y
    <3> DEFINE months == PeriodsOf(x[1])
    <3>1. months \subseteq Periods /\ x[2] \in months /\ y[2] \in months
      BY <2>1, <2>4 DEF PeriodsOf
    <3>2. IsFiniteSet(months) /\ Cardinality(months) <= 1
      BY <2>4, <2>1, <3>1, FS_Subset, PerformanceAssumption
    <3>3. Cardinality(months) \in Nat /\ Cardinality(months) # 0
      BY <3>1, <3>2, FS_CardinalityType, FS_EmptySet
    <3>4. Cardinality(months) = 1
      BY <3>2, <3>3
    <3>5. PICK p : months = {p}
      BY <3>2, <3>4, FS_Singleton
    <3>6. x[2] = y[2]
      BY <3>1, <3>5
    <3>7. x = <<x[1], x[2]>> /\ y = <<y[1], y[2]>>
      BY <2>1
    <3>8. QED BY <2>4, <3>6, <3>7
  <2>5. ASSUME once PROVE Cardinality(named) = Cardinality(S)
    <3>1. first(S) \in Bijection(S, named)
      BY <2>2, <2>4, <2>5 DEF Bijection, Injection, Surjection, IsInjective
    <3>2. IsFiniteSet(S)
      BY <2>2, <2>3, FS_Subset
    <3>3. QED BY <3>1, <3>2, FS_Bijection DEF ExistsBijection
  <2>6. ASSUME once PROVE Cardinality(others) = Cardinality(rows)
    <3>1. \A m \in others : \E x \in rows : x[1] = m
      <4> SUFFICES ASSUME NEW m \in others PROVE \E x \in rows : x[1] = m
        OBVIOUS
      <4>1. PICK p \in Periods : perf[<<m, p>>] # Null
        BY DEF PeriodsOf
      <4>2. <<m, p>> \in rows
        BY <4>1 DEF Candidates
      <4>3. QED BY <4>2
    <3>2. first(rows) \in Bijection(rows, others)
      BY <2>1, <2>4, <2>6, <3>1 DEF Bijection, Injection, Surjection, IsInjective
    <3>3. QED BY <2>3, <3>2, FS_Bijection DEF ExistsBijection
  <2>7. named \subseteq others
    BY <2>1, <2>2
  <2>8. ASSUME NEW x \in S, NEW o \in others \ named, NEW p \in PeriodsOf(o)
        PROVE  perf[<<o, p>>].score <= perf[x].score
    <3>1. <<o, p>> \in rows /\ <<o, p>>[1] = o
      BY DEF Candidates, PeriodsOf
    <3>2. <<o, p>> \notin S
      BY <3>1
    <3>3. perf[x].score >= perf[<<o, p>>].score
      BY <2>2, <3>1, <3>2
    <3>4. QED BY <3>3
  <2>9. QED BY <2>2, <2>5, <2>6, <2>7, <2>8
<1>2. SuggestionsAreBest
  BY <1>1 DEF SuggestionsAreBest
<1>3. QED BY <1>2, PTL

\* The sum of a metric over some members.
LEMMA SumOfMetric ==
    ASSUME NEW metric, NEW p, NEW S, IsFiniteSet(S),
           NEW f, \A m \in S : f[m] = perf[<<m, p>>][metric]
    PROVE  SumOf(metric, p, S) = SumOver(f, S)
<1> DEFINE F(h) == [s \in SUBSET S |->
                      IF s = {} THEN 0
                      ELSE perf[<<CHOOSE x \in s : TRUE, p>>][metric] + h[s \ {CHOOSE x \in s : TRUE}]]
           sums == CHOOSE h : h = F(h)
<1>1. ASSUME NEW h PROVE IsSums(f, S, h) <=> h = F(h)
  <2>1. \A s \in SUBSET S : s # {} => Picked(s) \in S /\ f[Picked(s)] = perf[<<Picked(s), p>>][metric]
    BY DEF Picked
  <2>2. [s \in SUBSET S |-> IF s = {} THEN 0 ELSE f[Picked(s)] + h[s \ {Picked(s)}]] = F(h)
    BY <2>1 DEF Picked
  <2> HIDE DEF F
  <2>3. QED BY <2>2 DEF IsSums
<1>2. sums = F(sums)
  <2>1. \E h : h = F(h)
    <3> HIDE DEF F
    <3>1. QED BY <1>1, SumsExist
  <2> HIDE DEF F
  <2>2. QED BY <2>1
<1>3. IsSums(f, S, sums)
  <2> HIDE DEF F, sums
  <2>1. QED BY <1>1, <1>2
<1>4. SumOf(metric, p, S) = sums[S]
  BY DEF SumOf, MapThenSumSet, MapThenFoldSet
<1>5. sums[S] = SumOver(f, S)
  <2> HIDE DEF F, sums
  <2>1. QED BY <1>3, SumsGiveAll
<1>6. QED BY <1>4, <1>5

\* The numerator of the average.
LEMMA SumOfWeighted ==
    ASSUME NEW S, IsFiniteSet(S), NEW f, \A r \in S : f[r] = r.value * r.count
    PROVE  MapThenSumSet(LAMBDA r : r.value * r.count, S) = SumOver(f, S)
<1> DEFINE F(h) == [s \in SUBSET S |->
                      IF s = {} THEN 0
                      ELSE (CHOOSE x \in s : TRUE).value * (CHOOSE x \in s : TRUE).count
                             + h[s \ {CHOOSE x \in s : TRUE}]]
           sums == CHOOSE h : h = F(h)
<1>1. ASSUME NEW h PROVE IsSums(f, S, h) <=> h = F(h)
  <2>1. \A s \in SUBSET S : s # {} => Picked(s) \in S /\ f[Picked(s)] = Picked(s).value * Picked(s).count
    BY DEF Picked
  <2>2. [s \in SUBSET S |-> IF s = {} THEN 0 ELSE f[Picked(s)] + h[s \ {Picked(s)}]] = F(h)
    BY <2>1 DEF Picked
  <2> HIDE DEF F
  <2>3. QED BY <2>2 DEF IsSums
<1>2. sums = F(sums)
  <2>1. \E h : h = F(h)
    <3> HIDE DEF F
    <3>1. QED BY <1>1, SumsExist
  <2> HIDE DEF F
  <2>2. QED BY <2>1
<1>3. IsSums(f, S, sums)
  <2> HIDE DEF F, sums
  <2>1. QED BY <1>1, <1>2
<1>4. MapThenSumSet(LAMBDA r : r.value * r.count, S) = sums[S]
  BY DEF MapThenSumSet, MapThenFoldSet
<1>5. sums[S] = SumOver(f, S)
  <2> HIDE DEF F, sums
  <2>1. QED BY <1>3, SumsGiveAll
<1>6. QED BY <1>4, <1>5

\* Its denominator.
LEMMA SumOfCounts ==
    ASSUME NEW S, IsFiniteSet(S), NEW f, \A r \in S : f[r] = r.count
    PROVE  MapThenSumSet(LAMBDA r : r.count, S) = SumOver(f, S)
<1> DEFINE F(h) == [s \in SUBSET S |->
                      IF s = {} THEN 0
                      ELSE (CHOOSE x \in s : TRUE).count + h[s \ {CHOOSE x \in s : TRUE}]]
           sums == CHOOSE h : h = F(h)
<1>1. ASSUME NEW h PROVE IsSums(f, S, h) <=> h = F(h)
  <2>1. \A s \in SUBSET S : s # {} => Picked(s) \in S /\ f[Picked(s)] = Picked(s).count
    BY DEF Picked
  <2>2. [s \in SUBSET S |-> IF s = {} THEN 0 ELSE f[Picked(s)] + h[s \ {Picked(s)}]] = F(h)
    BY <2>1 DEF Picked
  <2> HIDE DEF F
  <2>3. QED BY <2>2 DEF IsSums
<1>2. sums = F(sums)
  <2>1. \E h : h = F(h)
    <3> HIDE DEF F
    <3>1. QED BY <1>1, SumsExist
  <2> HIDE DEF F
  <2>2. QED BY <2>1
<1>3. IsSums(f, S, sums)
  <2> HIDE DEF F, sums
  <2>1. QED BY <1>1, <1>2
<1>4. MapThenSumSet(LAMBDA r : r.count, S) = sums[S]
  BY DEF MapThenSumSet, MapThenFoldSet
<1>5. sums[S] = SumOver(f, S)
  <2> HIDE DEF F, sums
  <2>1. QED BY <1>3, SumsGiveAll
<1>6. QED BY <1>4, <1>5

\* The sum over one member is the value of that member.
LEMMA SumOfOne ==
    ASSUME NEW m, NEW p, NEW metric, perf[<<m, p>>][metric] \in Nat
    PROVE  SumOf(metric, p, {m}) = perf[<<m, p>>][metric]
<1> DEFINE f == [x \in {m} |-> perf[<<x, p>>][metric]]
<1>1. f[m] = perf[<<m, p>>][metric] /\ \A x \in {m} : f[x] = perf[<<x, p>>][metric]
  OBVIOUS
<1> HIDE DEF f
<1>2. SumOf(metric, p, {m}) = SumOver(f, {m})
  <2>1. IsFiniteSet({m})
    BY FS_Singleton
  <2> DEFINE S == {m}
  <2>2. IsFiniteSet(S) /\ \A x \in S : f[x] = perf[<<x, p>>][metric]
    BY <1>1, <2>1
  <2> HIDE DEF S
  <2>3. SumOf(metric, p, S) = SumOver(f, S)
    BY <2>2, SumOfMetric
  <2>4. QED BY <2>3 DEF S
<1>3. SumOver(f, {m}) = f[m]
  BY <1>1, SumOverOne
<1>4. QED BY <1>1, <1>2, <1>3

\* The point of a group of one member is Scale times that member's score.
LEMMA PointOfOne ==
    ASSUME NEW p \in Periods, NEW g \in {"TOP", "LOW"}, NEW m,
           Group(p, g) = {m}, perf[<<m, p>>]["shipping"] \in Nat
    PROVE  GroupPoint(Normalized("shipping", p, p), p, g) = Scale * perf[<<m, p>>]["shipping"]
<1> DEFINE v == perf[<<m, p>>]["shipping"]
           rows == Normalized("shipping", p, p)
           own  == {r \in rows : r.period = p /\ r.group = g}
           row  == GroupRow("shipping", p, g)
           here == {y \in (Periods \intersect p..p) \X {"TOP", "MID", "LOW"} : Group(y[1], y[2]) # {}}
<1>1. row.period = p /\ row.group = g /\ row.value = Scale * v
  <2>1. Cardinality(Group(p, g)) = 1
    BY FS_Singleton
  <2>2. SumOf("shipping", p, Group(p, g)) = v
    BY SumOfOne
  <2>3. (Scale * v) \div 1 = Scale * v
    BY PerformanceAssumption
  <2>4. QED BY <2>1, <2>2, <2>3 DEF GroupRow
<1>2. <<p, g>> \in here
  BY PerformanceAssumption
<1>3. Grouped("shipping", p, p) = {GroupRow("shipping", x[1], x[2]) : x \in here}
  BY DEF Grouped
<1>4. row \in Grouped("shipping", p, p)
  <2>1. row = GroupRow("shipping", <<p, g>>[1], <<p, g>>[2])
    OBVIOUS
  <2> HIDE DEF row, here
  <2>2. QED BY <1>2, <1>3, <2>1
<1>5. rows = Grouped("shipping", p, p)
  BY <1>4 DEF Normalized
<1>6. \A r \in own : r = row
  <2> SUFFICES ASSUME NEW r \in own PROVE r = row
    OBVIOUS
  <2>1. PICK x \in here : r = GroupRow("shipping", x[1], x[2])
    BY <1>3, <1>5
  <2>2. r.period = x[1] /\ r.group = x[2]
    BY <2>1 DEF GroupRow
  <2>3. QED BY <2>1, <2>2
<1>7. row \in own
  BY <1>1, <1>4, <1>5
<1>8. (CHOOSE r \in own : TRUE) = row
  <2> HIDE DEF own, row
  <2>1. QED BY <1>6, <1>7
<1>9. GroupPoint(rows, p, g) = (CHOOSE r \in own : TRUE).value
  BY <1>7 DEF GroupPoint
<1>10. QED BY <1>1, <1>8, <1>9

\* Division of naturals.
LEMMA DivBounds ==
    ASSUME NEW n \in Nat \ {0}, NEW m \in Nat
    PROVE  /\ m \div n \in Nat
           /\ n * (m \div n) <= m
           /\ m < n * ((m \div n) + 1)
OBVIOUS

LEMMA DivUnique ==
    ASSUME NEW n \in Nat \ {0}, NEW m \in Nat, NEW q \in Nat, n * q <= m, m < n * (q + 1)
    PROVE  m \div n = q
OBVIOUS

LEMMA DivMultiple ==
    ASSUME NEW n \in Nat \ {0}, NEW m \in Nat
    PROVE  (n * m) \div n = m
OBVIOUS

\* The two ways to compute the share of 35 points, in whole percents.
LEMMA SharesAgree ==
    ASSUME NEW v \in Nat
    PROVE  HitRate(Scale * v) \div Scale = Value(v, 35) \div 100
<1> DEFINE S == Scale
           part == ((S * v) * 100) \div 35
           q == (100 * v) \div 35
<1>1. S \in Nat \ {0}
  BY PerformanceAssumption
<1>2. (S * v) * 100 \in Nat /\ S * v \in Nat
  BY <1>1
<1>3. HitRate(Scale * v) = Lower(100 * S, part) /\ Value(v, 35) = Lower(10000, (v * 10000) \div 35)
  BY DEF HitRate, Value
<1> HIDE DEF S
<1>4. part \in Nat /\ 35 * part <= (S * v) * 100 /\ (S * v) * 100 < 35 * (part + 1)
  BY <1>2
<1> HIDE DEF part
<1>5. CASE v >= 35
  <2>1. S * v >= S * 35
    BY <1>1, <1>5
  <2>2. part >= 100 * S
    BY <1>1, <1>2, <1>4, <2>1
  <2>3. Lower(100 * S, part) = 100 * S
    BY <1>1, <1>4, <2>2 DEF Lower
  <2>4. (S * 100) \div S = 100 /\ S * 100 = 100 * S
    BY <1>1, DivMultiple
  <2>5. Lower(10000, (v * 10000) \div 35) = 10000
    BY <1>5 DEF Lower
  <2>6. QED BY <1>3, <2>3, <2>4, <2>5 DEF S
<1>6. CASE v < 35
  <2>1. q \in Nat /\ 35 * q <= 100 * v /\ 100 * v < 35 * (q + 1)
    OBVIOUS
  <2>2. (v * 10000) \div 35 <= 10000
    BY <1>6
  <2>3. Lower(10000, (v * 10000) \div 35) \div 100 = q
    <3>1. ((10000 * v) \div 35) \div 100 = (100 * v) \div 35
      OBVIOUS
    <3>2. v * 10000 = 10000 * v
      OBVIOUS
    <3>3. QED BY <2>2, <3>1, <3>2 DEF Lower
  <2> HIDE DEF q
  <2>4. S * v <= S * 35
    BY <1>1, <1>6
  <2>5. part <= 100 * S
    BY <1>1, <1>2, <1>4, <2>4
  <2>6. Lower(100 * S, part) = part
    BY <1>1, <1>4, <2>5 DEF Lower
  <2>7. S * (35 * q) <= S * (100 * v) /\ S * (100 * v) < S * (35 * (q + 1))
    <3> DEFINE x == 35 * q
               y == 100 * v
               z == 35 * (q + 1)
    <3>1. x \in Nat /\ y \in Nat /\ z \in Nat /\ x <= y /\ y < z
      BY <2>1
    <3> HIDE DEF x, y, z
    <3>2. S * x <= S * y /\ S * y < S * z
      BY <1>1, <3>1
    <3>3. QED BY <3>2 DEF x, y, z
  <2>8. S * q <= part /\ part < S * (q + 1)
    <3>1. /\ S * (35 * q) = 35 * (S * q) /\ S * (35 * (q + 1)) = 35 * (S * (q + 1))
          /\ S * (100 * v) = (S * v) * 100
          /\ S * q \in Nat /\ S * (q + 1) \in Nat
      BY <1>1, <2>1
    <3> DEFINE x == S * q
               y == (S * v) * 100
               z == S * (q + 1)
    <3>2. x \in Nat /\ y \in Nat /\ z \in Nat /\ 35 * x <= y /\ y < 35 * z
      BY <1>2, <2>7, <3>1
    <3>3. 35 * part <= y /\ y < 35 * (part + 1)
      BY <1>4
    <3> HIDE DEF x, y, z
    <3>4. x <= part /\ part < z
      BY <1>4, <3>2, <3>3
    <3>5. QED BY <3>4 DEF x, z
  <2>9. part \div S = q
    BY <1>1, <1>4, <2>1, <2>8, DivUnique
  <2>10. QED BY <1>3, <2>3, <2>6, <2>9 DEF S
<1>7. QED BY <1>5, <1>6

\* The hit rate of the dashboard and the bar of the analysis agree for a group
\* of one member, as long as the weight is the default.
THEOREM HitRatesMatch == PerfSpec => []HitRatesAgree
<1>1. PerfTypeOK => HitRatesAgree
  <2> SUFFICES ASSUME PerfTypeOK, NEW p \in Periods, NEW g \in {"TOP", "LOW"}, NEW m \in Members,
                      Group(p, g) = {m}, perf[<<m, p>>].shippingWeight = 35
               PROVE  HitRate(GroupPoint(Normalized("shipping", p, p), p, g)) \div Scale
                        = Value(perf[<<m, p>>].shipping, 35) \div 100
    BY DEF HitRatesAgree
  <2>1. perf[<<m, p>>] \in PerfRows
    BY DEF PerfTypeOK, Group
  <2>2. perf[<<m, p>>]["shipping"] \in Nat
    BY <2>1, PerformanceAssumption
  <2>3. QED BY <2>2, PointOfOne, SharesAgree
<1>2. QED BY <1>1, AnalysisInvHolds, PTL DEF AnalysisInv

\* Scale divides by the size of any group, so that the average of a group
\* times its size is Scale times its sum.
LEMMA ScaleDivides ==
    ASSUME NEW s \in Nat, NEW n \in 1..Cardinality(Members)
    PROVE  ((Scale * s) \div n) \in Nat /\ ((Scale * s) \div n) * n = Scale * s
<1>1. PICK k \in 1..Scale : Scale = n * k
  BY PerformanceAssumption
<1>2. n \in Nat \ {0} /\ k \in Nat
  BY <1>1, PerformanceAssumption
<1>3. k * s \in Nat /\ Scale * s = n * (k * s)
  BY <1>1, <1>2
<1>4. (Scale * s) \div n = k * s
  <2> DEFINE m == k * s
  <2>1. m \in Nat /\ Scale * s = n * m
    BY <1>3
  <2> HIDE DEF m
  <2>2. (n * m) \div n = m
    BY <1>2, <2>1, DivMultiple
  <2>3. QED BY <2>1, <2>2 DEF m
<1>5. (k * s) * n = n * (k * s)
  BY <1>2
<1>6. QED BY <1>3, <1>4, <1>5

\* The members of a group that have a row of the month are few and have scores.
LEMMA GroupsAreSmall ==
    ASSUME PerfTypeOK, NEW p \in Periods, NEW g
    PROVE  /\ IsFiniteSet(Group(p, g)) /\ Cardinality(Group(p, g)) \in Nat
           /\ Group(p, g) # {} => Cardinality(Group(p, g)) \in 1..Cardinality(Members)
           /\ \A m \in Group(p, g) : perf[<<m, p>>]["score"] \in Nat
<1>1. Group(p, g) \subseteq Members
  BY DEF Group
<1>2. /\ IsFiniteSet(Group(p, g)) /\ Cardinality(Group(p, g)) <= Cardinality(Members)
  BY <1>1, FS_Subset, PerformanceAssumption
<1>3. Cardinality(Group(p, g)) \in Nat /\ Cardinality(Members) \in Nat
  BY <1>2, FS_CardinalityType, PerformanceAssumption
<1>4. Group(p, g) # {} => Cardinality(Group(p, g)) # 0
  BY <1>2, FS_EmptySet
<1>5. ASSUME NEW m \in Group(p, g) PROVE perf[<<m, p>>]["score"] \in Nat
  <2>1. perf[<<m, p>>] \in PerfRows
    BY DEF PerfTypeOK, Group
  <2>2. QED BY <2>1, PerformanceAssumption
<1>6. QED BY <1>2, <1>3, <1>4, <1>5, PerformanceAssumption

\* What the row of a group adds to the two sums of the average.
RowsOf(p, g) == IF Group(p, g) = {} THEN {} ELSE {GroupRow("score", p, g)}

\* f are scores, w and c the summands of numerator and denominator.
Summands(p, g, f, w, c) ==
    /\ \A m \in Group(p, g) : f[m] = perf[<<m, p>>]["score"]
    /\ \A r \in RowsOf(p, g) : w[r] = r.value * r.count
    /\ \A r \in RowsOf(p, g) : c[r] = r.count

AddUp(p, g, f, w, c) ==
    /\ IsFiniteSet(RowsOf(p, g))
    /\ \A r \in RowsOf(p, g) : w[r] \in Nat /\ c[r] \in Nat
    /\ SumOver(f, Group(p, g)) \in Nat
    /\ SumOver(w, RowsOf(p, g)) = Scale * SumOver(f, Group(p, g))
    /\ SumOver(c, RowsOf(p, g)) = Cardinality(Group(p, g))

LEMMA GroupAdds ==
    ASSUME PerfTypeOK, NEW p \in Periods, NEW g, NEW f, NEW w, NEW c, Summands(p, g, f, w, c)
    PROVE  AddUp(p, g, f, w, c)
<1> USE DEF Summands, AddUp
<1> DEFINE G == Group(p, g)
           n == Cardinality(G)
           s == SumOver(f, G)
           row == GroupRow("score", p, g)
<1>1. IsFiniteSet(G) /\ \A m \in G : f[m] \in Nat
  BY GroupsAreSmall
<1>2. s \in Nat
  <2> HIDE DEF G
  <2>1. QED BY <1>1, SumIsNat
<1>3. SumOf("score", p, G) = s
  <2>1. \A m \in G : f[m] = perf[<<m, p>>]["score"]
    OBVIOUS
  <2> HIDE DEF G
  <2>2. QED BY <1>1, <2>1, SumOfMetric
<1>4. CASE G = {}
  <2>1. RowsOf(p, g) = {}
    BY <1>4 DEF RowsOf
  <2>2. n = 0 /\ IsFiniteSet({})
    BY <1>4, FS_EmptySet
  <2>3. SumOver(f, {}) = 0 /\ SumOver(w, {}) = 0 /\ SumOver(c, {}) = 0
    BY <2>2, SumStep
  <2>4. QED BY <1>4, <2>1, <2>2, <2>3, PerformanceAssumption
<1>5. CASE G # {}
  <2>1. RowsOf(p, g) = {row}
    BY <1>5 DEF RowsOf
  <2>2. row.value = (Scale * s) \div n /\ row.count = n
    BY <1>3 DEF GroupRow
  <2>3. n \in 1..Cardinality(Members)
    BY <1>5, GroupsAreSmall
  <2>4. row.value \in Nat /\ row.value * row.count = Scale * s
    <3> HIDE DEF row, s, n
    <3>1. QED BY <1>2, <2>2, <2>3, ScaleDivides
  <2>5. w[row] = Scale * s /\ c[row] = n
    <3>1. row \in RowsOf(p, g)
      BY <2>1
    <3> HIDE DEF row, s, n
    <3>2. QED BY <2>2, <2>4, <3>1
  <2>6. w[row] \in Nat /\ c[row] \in Nat
    <3> HIDE DEF row, s, n
    <3>1. QED BY <1>2, <2>3, <2>5, PerformanceAssumption
  <2>7. SumOver(w, {row}) = w[row] /\ SumOver(c, {row}) = c[row] /\ IsFiniteSet({row})
    <3> HIDE DEF row
    <3>1. QED BY <2>6, SumOverOne, FS_Singleton
  <2>8. QED
    <3> HIDE DEF row
    <3>1. QED BY <1>2, <2>1, <2>5, <2>6, <2>7
<1>6. QED BY <1>4, <1>5

\* With rows of the month, the average over the groups is the mean over the
\* members: both have Scale times the sum of all scores above the number of all.
LEMMA AverageOverGroups ==
    ASSUME PerfTypeOK, NEW p \in Periods, {m \in Members : perf[<<m, p>>] # Null} # {}
    PROVE  LET all == {m \in Members : perf[<<m, p>>] # Null}
           IN  Average(Normalized("score", p, p), p)
                 = (Scale * SumOf("score", p, all)) \div Cardinality(all)
<1> DEFINE all  == {m \in Members : perf[<<m, p>>] # Null}
           rows == Normalized("score", p, p)
           here == {r \in rows : r.period = p}
           T == Group(p, "TOP")
           M == Group(p, "MID")
           L == Group(p, "LOW")
           RT == RowsOf(p, "TOP")
           RM == RowsOf(p, "MID")
           RL == RowsOf(p, "LOW")
           f == [m \in all |-> perf[<<m, p>>]["score"]]
           w == [r \in here |-> r.value * r.count]
           c == [r \in here |-> r.count]
<1>1. /\ all = (T \union M) \union L
      /\ T \intersect M = {} /\ (T \union M) \intersect L = {}
  BY PerformanceAssumption DEF Group
<1>2. /\ here = (RT \union RM) \union RL
      /\ RT \intersect RM = {} /\ (RT \union RM) \intersect RL = {}
  <2> DEFINE present == {y \in (Periods \intersect p..p) \X {"TOP", "MID", "LOW"} :
                             Group(y[1], y[2]) # {}}
  <2>1. Grouped("score", p, p) = {GroupRow("score", x[1], x[2]) : x \in present}
    BY DEF Grouped
  <2>2. present = {<<p, g>> : g \in {h \in {"TOP", "MID", "LOW"} : Group(p, h) # {}}}
    <3>1. Periods \intersect p..p = {p}
      BY PerformanceAssumption
    <3>2. QED BY <3>1
  <2>3. Grouped("score", p, p) = (RT \union RM) \union RL
    <3>1. ASSUME NEW r PROVE r \in Grouped("score", p, p)
                              <=> \E g \in {"TOP", "MID", "LOW"} : r \in RowsOf(p, g)
      <4>1. r \in Grouped("score", p, p)
              <=> \E g \in {"TOP", "MID", "LOW"} : Group(p, g) # {} /\ r = GroupRow("score", p, g)
        <5> HIDE DEF present
        <5>1. r \in Grouped("score", p, p) <=> \E x \in present : r = GroupRow("score", x[1], x[2])
          BY <2>1
        <5>2. ASSUME NEW g \in {"TOP", "MID", "LOW"}, Group(p, g) # {} PROVE <<p, g>> \in present
          BY <2>2, <5>2
        <5>3. ASSUME NEW x \in present
              PROVE  \E g \in {"TOP", "MID", "LOW"} : Group(p, g) # {} /\ x = <<p, g>>
          BY <2>2, <5>3
        <5>4. \A g : <<p, g>>[1] = p /\ <<p, g>>[2] = g
          OBVIOUS
        <5>5. QED BY <5>1, <5>2, <5>3, <5>4
      <4>2. QED BY <4>1 DEF RowsOf
    <3>2. QED BY <3>1
  <2>4. \E g \in {"TOP", "MID", "LOW"} : Group(p, g) # {}
    BY <1>1
  <2>5. Grouped("score", p, p) # {}
    BY <2>3, <2>4 DEF RowsOf
  <2>6. rows = Grouped("score", p, p)
    BY <2>5 DEF Normalized
  <2>7. \A g : \A r \in RowsOf(p, g) : r.period = p /\ r.group = g
    BY DEF RowsOf, GroupRow
  <2>8. here = rows
    BY <2>3, <2>6, <2>7
  <2>9. /\ \A r \in RT : r.group = "TOP"
        /\ \A r \in RM : r.group = "MID"
        /\ \A r \in RL : r.group = "LOW"
    BY <2>7
  <2>10. RT \intersect RM = {} /\ (RT \union RM) \intersect RL = {}
    BY <2>9
  <2>11. QED BY <2>3, <2>6, <2>8, <2>10
<1>3. /\ \A m \in T \union M \union L : f[m] = perf[<<m, p>>]["score"]
      /\ \A r \in RT \union RM \union RL : w[r] = r.value * r.count /\ c[r] = r.count
  BY <1>1, <1>2
<1>4. /\ IsFiniteSet(T) /\ IsFiniteSet(M) /\ IsFiniteSet(L)
      /\ Cardinality(T) \in Nat /\ Cardinality(M) \in Nat /\ Cardinality(L) \in Nat
      /\ \A m \in T \union M \union L : perf[<<m, p>>]["score"] \in Nat
  BY GroupsAreSmall
<1> HIDE DEF all, rows, here, T, M, L, RT, RM, RL, f, w, c
<1>5. /\ IsFiniteSet(RT) /\ \A r \in RT : w[r] \in Nat /\ c[r] \in Nat
      /\ SumOver(f, T) \in Nat
      /\ SumOver(w, RT) = Scale * SumOver(f, T) /\ SumOver(c, RT) = Cardinality(T)
  <2>1. Summands(p, "TOP", f, w, c)
    BY <1>3 DEF T, RT, Summands
  <2>2. AddUp(p, "TOP", f, w, c)
    BY <2>1, GroupAdds
  <2>3. QED BY <2>2 DEF T, RT, AddUp
<1>6. /\ IsFiniteSet(RM) /\ \A r \in RM : w[r] \in Nat /\ c[r] \in Nat
      /\ SumOver(f, M) \in Nat
      /\ SumOver(w, RM) = Scale * SumOver(f, M) /\ SumOver(c, RM) = Cardinality(M)
  <2>1. Summands(p, "MID", f, w, c)
    BY <1>3 DEF M, RM, Summands
  <2>2. AddUp(p, "MID", f, w, c)
    BY <2>1, GroupAdds
  <2>3. QED BY <2>2 DEF M, RM, AddUp
<1>7. /\ IsFiniteSet(RL) /\ \A r \in RL : w[r] \in Nat /\ c[r] \in Nat
      /\ SumOver(f, L) \in Nat
      /\ SumOver(w, RL) = Scale * SumOver(f, L) /\ SumOver(c, RL) = Cardinality(L)
  <2>1. Summands(p, "LOW", f, w, c)
    BY <1>3 DEF L, RL, Summands
  <2>2. AddUp(p, "LOW", f, w, c)
    BY <2>1, GroupAdds
  <2>3. QED BY <2>2 DEF L, RL, AddUp
<1>8. SumOver(f, all) = (SumOver(f, T) + SumOver(f, M)) + SumOver(f, L)
  <2>1. \A m \in T \union M \union L : f[m] \in Nat
    BY <1>3, <1>4
  <2>2. IsFiniteSet(T \union M)
    BY <1>4, FS_Union
  <2>3. SumOver(f, T \union M) = SumOver(f, T) + SumOver(f, M)
    BY <1>1, <1>4, <2>1, SumOfBoth
  <2>4. SumOver(f, (T \union M) \union L) = SumOver(f, T \union M) + SumOver(f, L)
    BY <1>1, <1>4, <2>1, <2>2, SumOfBoth
  <2>5. QED BY <1>1, <2>3, <2>4
<1>9. Cardinality(all) = (Cardinality(T) + Cardinality(M)) + Cardinality(L)
  <2>1. IsFiniteSet(T \union M) /\ Cardinality(T \union M) = Cardinality(T) + Cardinality(M)
    BY <1>1, <1>4, FS_Union, FS_EmptySet
  <2>2. Cardinality((T \union M) \union L) = Cardinality(T \union M) + Cardinality(L)
    BY <1>1, <1>4, <2>1, FS_Union, FS_EmptySet
  <2>3. QED BY <1>1, <2>1, <2>2
<1>10. IsFiniteSet(here) /\ IsFiniteSet(all)
  BY <1>1, <1>2, <1>4, <1>5, <1>6, <1>7, FS_Union
<1>11. SumOver(w, here) = (SumOver(w, RT) + SumOver(w, RM)) + SumOver(w, RL)
  <2>1. IsFiniteSet(RT \union RM)
    BY <1>5, <1>6, FS_Union
  <2>2. SumOver(w, RT \union RM) = SumOver(w, RT) + SumOver(w, RM)
    BY <1>2, <1>5, <1>6, SumOfBoth
  <2>3. SumOver(w, (RT \union RM) \union RL) = SumOver(w, RT \union RM) + SumOver(w, RL)
    BY <1>2, <1>5, <1>6, <1>7, <2>1, SumOfBoth
  <2>4. QED BY <1>2, <2>2, <2>3
<1>12. SumOver(c, here) = (SumOver(c, RT) + SumOver(c, RM)) + SumOver(c, RL)
  <2>1. IsFiniteSet(RT \union RM)
    BY <1>5, <1>6, FS_Union
  <2>2. SumOver(c, RT \union RM) = SumOver(c, RT) + SumOver(c, RM)
    BY <1>2, <1>5, <1>6, SumOfBoth
  <2>3. SumOver(c, (RT \union RM) \union RL) = SumOver(c, RT \union RM) + SumOver(c, RL)
    BY <1>2, <1>5, <1>6, <1>7, <2>1, SumOfBoth
  <2>4. QED BY <1>2, <2>2, <2>3
<1>13. SumOver(w, here) = Scale * SumOver(f, all)
  BY <1>5, <1>6, <1>7, <1>8, <1>11, PerformanceAssumption
<1>14. SumOver(c, here) = Cardinality(all)
  BY <1>5, <1>6, <1>7, <1>9, <1>12
<1>15. SumOf("score", p, all) = SumOver(f, all)
  <2>1. \A m \in all : f[m] = perf[<<m, p>>]["score"]
    BY DEF f
  <2>2. QED BY <1>10, <2>1, SumOfMetric
<1>16. MapThenSumSet(LAMBDA r : r.value * r.count, here) = SumOver(w, here)
  <2>1. \A r \in here : w[r] = r.value * r.count
    BY DEF w
  <2>2. QED BY <1>10, <2>1, SumOfWeighted
<1>17. MapThenSumSet(LAMBDA r : r.count, here) = SumOver(c, here)
  <2>1. \A r \in here : c[r] = r.count
    BY DEF c
  <2>2. QED BY <1>10, <2>1, SumOfCounts
<1>18. Average(rows, p) = MapThenSumSet(LAMBDA r : r.value * r.count, here)
                            \div MapThenSumSet(LAMBDA r : r.count, here)
  BY DEF Average, here
<1>19. Average(rows, p) = (Scale * SumOf("score", p, all)) \div Cardinality(all)
  BY <1>13, <1>14, <1>15, <1>16, <1>17, <1>18
<1>20. QED BY <1>19 DEF all, rows

\* Without rows of the month the stored trend, if there is one, is every series.
LEMMA StoredTrendForAll ==
    ASSUME NEW p \in Periods, {m \in Members : perf[<<m, p>>] # Null} = {},
           Normalized("score", p, p) # {}, NEW g \in {"TOP", "LOW"}
    PROVE  GroupPoint(Normalized("score", p, p), p, g) = Average(Normalized("score", p, p), p)
<1> DEFINE rows == Normalized("score", p, p)
           row  == [period |-> p, group |-> "ALL", count |-> 1, value |-> Scale * Legacy[p]]
<1>1. Periods \intersect p..p = {p}
  BY PerformanceAssumption
<1>2. Grouped("score", p, p) = {}
  BY <1>1 DEF Grouped, Group
<1>3. rows = {[period |-> q, group |-> "ALL", count |-> 1, value |-> Scale * Legacy[q]] :
                  q \in {x \in {p} : Legacy[x] # Null}}
  BY <1>1, <1>2 DEF Normalized
<1>4. Legacy[p] # Null /\ rows = {row}
  BY <1>3
<1>5. Legacy[p] \in Nat
  BY <1>4, PerformanceAssumption
<1>6. row.value = Scale * Legacy[p] /\ row.count = 1 /\ row.group = "ALL" /\ row.period = p
  OBVIOUS
<1>7. row.value \in Nat
  BY <1>5, <1>6, PerformanceAssumption
<1> HIDE DEF rows, row
<1>8. GroupPoint(rows, p, g) = row.value
  <2>1. {r \in rows : r.period = p /\ r.group = g} = {}
    BY <1>4, <1>6
  <2>2. {r \in rows : r.period = p /\ r.group = "ALL"} = {row}
    BY <1>4, <1>6
  <2>3. (CHOOSE r \in {row} : TRUE) = row
    OBVIOUS
  <2>4. QED BY <2>1, <2>2, <2>3 DEF GroupPoint
<1>9. {r \in rows : r.period = p} = {row}
  BY <1>4, <1>6
<1>10. MapThenSumSet(LAMBDA r : r.value * r.count, {row}) = row.value
  <2> DEFINE w == [r \in {row} |-> r.value * r.count]
  <2>1. w[row] = row.value /\ \A r \in {row} : w[r] = r.value * r.count
    BY <1>6, <1>7
  <2> HIDE DEF w
  <2>2. SumOver(w, {row}) = w[row]
    BY <1>7, <2>1, SumOverOne
  <2>3. QED BY <2>1, <2>2, SumOfWeighted, FS_Singleton
<1>11. MapThenSumSet(LAMBDA r : r.count, {row}) = 1
  <2> DEFINE c == [r \in {row} |-> r.count]
  <2>1. c[row] = 1 /\ \A r \in {row} : c[r] = r.count
    BY <1>6
  <2> HIDE DEF c
  <2>2. SumOver(c, {row}) = c[row]
    BY <2>1, SumOverOne
  <2>3. QED BY <2>1, <2>2, SumOfCounts, FS_Singleton
<1>12. Average(rows, p) = row.value \div 1
  BY <1>9, <1>10, <1>11 DEF Average
<1>13. row.value \div 1 = row.value
  BY <1>7
<1>14. QED BY <1>8, <1>12, <1>13 DEF rows

\* The point of the series AVERAGE is the mean over the members, whatever the
\* sizes of their groups.
THEOREM AveragesAreMeans == PerfSpec => []AverageIsMean
<1>1. PerfTypeOK => AverageIsMean
  BY AverageOverGroups, StoredTrendForAll DEF AverageIsMean
<1>2. QED BY <1>1, AnalysisInvHolds, PTL DEF AnalysisInv

----------------------------------------------------------------------------
(* Listings: rows lost and seen twice by a walk through the pages              *)

\* The rows the walk's query selects, those of its beginning it has not got yet,
\* and how many rows come before x.
Selected == Matching(walk.kind)
Unseen   == (walk.start \intersect Selected) \ walk.got
Position(key, rows, x) == Cardinality({y \in rows : key[y] > key[x]})

\* The walk goes on at this offset; the unseen rows before it are lost to it.
Cut    == walk.page * walk.size
Passed == {x \in Unseen : Position(stamp, Selected, x) < Cut}

Dismissals == {i \in Items : kind[i] = DISMISSED}

\* What holds of any two keys: the phases of each listing, and a move for each
\* row added and each alert dismissed at most.
WalkShape ==
    /\ walk.pc = "filter" => walk.open
    /\ walk.pc = "count" => list \in Counted
    /\ walk.open => list \in Owned \union {"ranking"}
    /\ list = "scenarios" /\ Walking => walk.page = 0
    /\ walk.page = 0 => walk.got = {}
    /\ walk.moves <= Cardinality(Rows) + Cardinality(Dismissals)

\* The filter: months only advance, a link stays once set, and only dismissals under
\* status=ACTIVE take rows out of what an unchanged filter selects.
FilterShape ==
    /\ walk.switched => walk.open
    /\ list = "ranking" /\ walk.pc \in {"count", "select"} => walk.kind # Every
    /\ list = "ranking" /\ walk.open =>
          walk.kind <= current /\ \A x \in walk.got : kind[x] <= walk.kind
    /\ list \in Owned /\ walk.open /\ current = 0 => walk.kind = Every
    /\ ~walk.switched /\ ~(list = "alerts" /\ walk.kind = ACTIVE) => walk.start \subseteq Selected

\* While the filter stays the same no more rows are lost than were moved.  After a
\* COUNT, the rows beyond its total are lost as well if the page is the last one.
LossExplained ==
    ~walk.switched =>
        /\ Walking => Cardinality(Passed) <= walk.moves
        /\ walk.pc = "select" /\ list \in Counted =>
              Cardinality(Passed) + Cardinality(Selected) <= walk.moves + walk.total
        /\ walk.pc = "done" /\ walk.size > 0 => Cardinality(Unseen) <= walk.moves

\* Without arrivals the rows seen stay before the cut, those of a member's lands also
\* among the lands of that member.
SeenBeforeCut ==
    /\ Walking /\ ~walk.arrivals =>
          /\ \A x \in walk.got \intersect Selected : Position(stamp, Selected, x) < Cut
          /\ list = "lands" /\ walk.open =>
                \A x \in walk.got : Position(stamp, Matching(kind[x]), x) < Cut
    /\ walk.repeated => walk.arrivals

WalkInv == TypeOK /\ WalkShape /\ FilterShape /\ (Distinct => LossExplained /\ SeenBeforeCut)

\* Positions are numbers.
LEMMA PositionType ==
    ASSUME NEW key, NEW M, IsFiniteSet(M), NEW x
    PROVE  /\ IsFiniteSet({y \in M : key[y] > key[x]})
           /\ Position(key, M, x) \in Nat
BY FS_Subset, FS_CardinalityType DEF Position

\* With distinct keys a row comes before another in terms of positions, too.
LEMMA PositionsDiffer ==
    ASSUME NEW key \in [Items -> Nat], NEW M \in SUBSET Items, IsFiniteSet(M),
           NEW x \in M, NEW y \in M, key[x] > key[y]
    PROVE  Position(key, M, x) < Position(key, M, y)
<1> DEFINE A == {z \in M : key[z] > key[x]}
           B == {z \in M : key[z] > key[y]}
<1>1. A \subseteq B
  <2>1. \A z \in M : key[z] \in Nat
    OBVIOUS
  <2>2. QED BY <2>1
<1>2. x \in B /\ x \notin A
  OBVIOUS
<1>3. IsFiniteSet(A) /\ IsFiniteSet(B) /\ Cardinality(A) \in Nat /\ Cardinality(B) \in Nat
  BY FS_Subset, FS_CardinalityType
<1>4. Cardinality(A) <= Cardinality(B) /\ Cardinality(A) # Cardinality(B)
  BY <1>1, <1>2, <1>3, FS_Subset
<1>5. QED BY <1>3, <1>4 DEF Position

\* At most one row is at a position.
LEMMA OneAtPosition ==
    ASSUME NEW key \in [Items -> Nat], NEW M \in SUBSET Items, IsFiniteSet(M), NEW n,
           \A x, y \in M : x # y => key[x] # key[y]
    PROVE  LET at == {x \in M : Position(key, M, x) = n}
           IN  IsFiniteSet(at) /\ Cardinality(at) <= 1
<1> DEFINE at == {x \in M : Position(key, M, x) = n}
<1>1. IsFiniteSet(at) /\ Cardinality(at) \in Nat
  BY FS_Subset, FS_CardinalityType
<1>2. ASSUME NEW x \in at, NEW y \in at PROVE x = y
  <2>1. x # y => key[x] > key[y] \/ key[y] > key[x]
    BY key[x] \in Nat, key[y] \in Nat
  <2>2. Position(key, M, x) = n /\ Position(key, M, y) = n /\ n \in Nat
    BY PositionType
  <2>3. ~(key[x] > key[y]) /\ ~(key[y] > key[x])
    BY <2>2, PositionsDiffer
  <2>4. QED BY <2>1, <2>3
<1>3. CASE at = {}
  BY <1>1, <1>3, FS_EmptySet
<1>4. CASE at # {}
  <2>1. PICK x \in at : TRUE
    BY <1>4
  <2>2. at = {x}
    BY <1>2, <2>1
  <2>3. QED BY <1>1, <2>2, FS_Singleton
<1>5. QED BY <1>3, <1>4

\* The rows S are a page of the rows M that follows the rows B, as in Slices.
IsPage(key, M, offset, size, B, S) ==
    /\ S \subseteq M /\ B \subseteq M \ S
    /\ Cardinality(B) = Least(offset, Cardinality(M))
    /\ Cardinality(S) = Least(size, Cardinality(M) - Cardinality(B))
    /\ \A x \in B, y \in M \ B : key[x] >= key[y]
    /\ \A x \in S, y \in M \ (B \union S) : key[x] >= key[y]

\* A page of OFFSET and LIMIT holds the rows from the offset on: what is on it
\* lies at these positions, and what lies before its end is on it or before it.
PagePlaced(key, M, offset, size, B, S) ==
    /\ \A x \in S : /\ offset <= Position(key, M, x)
                    /\ Position(key, M, x) < offset + size
    /\ \A x \in B : Position(key, M, x) < offset
    /\ \A x \in M \ (B \union S) : offset + size <= Position(key, M, x)
    /\ Cardinality(M \ (B \union S)) = IF Cardinality(M) <= offset + size THEN 0
                                       ELSE Cardinality(M) - (offset + size)
    /\ Cardinality(S) <= size
    /\ Cardinality(S) < size => M = B \union S

LEMMA PageOfRows ==
    ASSUME NEW key \in [Items -> Nat], NEW M \in SUBSET Items, IsFiniteSet(M),
           \A x, y \in M : x # y => key[x] # key[y],
           NEW offset \in Nat, NEW size \in Nat,
           NEW S, NEW B, IsPage(key, M, offset, size, B, S)
    PROVE  PagePlaced(key, M, offset, size, B, S)
<1> DEFINE above(x) == {y \in M : key[y] > key[x]}
<1> USE DEF IsPage
<1>1. \A x \in M : key[x] \in Nat
  OBVIOUS
<1>2. /\ IsFiniteSet(S) /\ IsFiniteSet(B) /\ IsFiniteSet(B \union S)
      /\ Cardinality(S) \in Nat /\ Cardinality(B) \in Nat /\ Cardinality(M) \in Nat
  <2>1. IsFiniteSet(S) /\ IsFiniteSet(B)
    BY FS_Subset
  <2>2. IsFiniteSet(B \union S)
    BY <2>1, FS_Union
  <2>3. QED BY <2>1, <2>2, FS_CardinalityType
<1>3. Cardinality(B \union S) = Cardinality(B) + Cardinality(S)
  <2>1. B \intersect S = {}
    OBVIOUS
  <2>2. Cardinality(B \union S) = Cardinality(B) + Cardinality(S) - Cardinality(B \intersect S)
    BY <1>2, FS_Union
  <2>3. Cardinality(B \intersect S) = 0
    BY <2>1, FS_EmptySet
  <2>4. QED BY <1>2, <2>2, <2>3
<1>4. \A x \in M : IsFiniteSet(above(x)) /\ Cardinality(above(x)) \in Nat
  BY FS_Subset, FS_CardinalityType
<1>5. ASSUME NEW x \in S PROVE offset <= Position(key, M, x)
  <2>1. Cardinality(S) # 0
    BY <1>2, FS_EmptySet
  <2>2. Cardinality(B) = offset
    BY <1>2, <2>1 DEF Least
  <2>3. B \subseteq above(x)
    <3>1. \A b \in B : b \in M /\ b # x /\ key[b] >= key[x] /\ key[b] # key[x]
      OBVIOUS
    <3>2. QED BY <1>1, <3>1
  <2>4. Cardinality(B) <= Cardinality(above(x))
    BY <1>4, <2>3, FS_Subset
  <2>5. QED BY <2>2, <2>4 DEF Position
<1>6. ASSUME NEW x \in S PROVE Position(key, M, x) < offset + size
  <2> DEFINE T == (B \union S) \ {x}
  <2>1. above(x) \subseteq T
    <3>1. \A y \in above(x) : y \in M /\ key[y] > key[x] /\ key[y] \in Nat /\ key[x] \in Nat
      OBVIOUS
    <3>2. \A y \in above(x) : y # x /\ ~(key[x] >= key[y])
      BY <3>1
    <3>3. QED BY <3>1, <3>2
  <2>2. IsFiniteSet(T) /\ Cardinality(T) = Cardinality(B) + Cardinality(S) - 1
    <3>1. IsFiniteSet(T) /\ Cardinality(T) = Cardinality(B \union S) - 1
      BY <1>2, FS_RemoveElement
    <3>2. QED BY <1>2, <1>3, <3>1
  <2>3. Cardinality(above(x)) <= Cardinality(T)
    BY <2>1, <2>2, FS_Subset
  <2>4. Cardinality(B) <= offset /\ Cardinality(S) <= size
    BY <1>2 DEF Least
  <2> HIDE DEF T
  <2>5. Cardinality(above(x)) < offset + size
    BY <1>2, <1>4, <2>2, <2>3, <2>4
  <2>6. QED BY <2>5 DEF Position
<1>7. ASSUME NEW x \in B PROVE Position(key, M, x) < offset
  <2> DEFINE T == B \ {x}
  <2>1. above(x) \subseteq T
    <3>1. \A y \in above(x) : y \in M /\ key[y] > key[x] /\ key[y] \in Nat /\ key[x] \in Nat
      OBVIOUS
    <3>2. \A y \in above(x) : y # x /\ ~(key[x] >= key[y])
      BY <3>1
    <3>3. QED BY <3>1, <3>2
  <2>2. IsFiniteSet(T) /\ Cardinality(T) = Cardinality(B) - 1
    BY <1>2, FS_RemoveElement
  <2>3. Cardinality(above(x)) <= Cardinality(T)
    BY <2>1, <2>2, FS_Subset
  <2>4. Cardinality(B) <= offset
    BY <1>2 DEF Least
  <2> HIDE DEF T
  <2>5. Cardinality(above(x)) < offset
    BY <1>2, <1>4, <2>2, <2>3, <2>4
  <2>6. QED BY <2>5 DEF Position
<1>8. Cardinality(M \ (B \union S)) = Cardinality(M) - (Cardinality(B) + Cardinality(S))
  <2>1. M \intersect (B \union S) = B \union S
    OBVIOUS
  <2>2. Cardinality(M \ (B \union S)) = Cardinality(M) - Cardinality(M \intersect (B \union S))
    BY FS_Difference
  <2>3. QED BY <1>3, <2>1, <2>2
<1>9. Cardinality(M \ (B \union S)) = IF Cardinality(M) <= offset + size THEN 0
                                      ELSE Cardinality(M) - (offset + size)
  BY <1>2, <1>8 DEF Least
<1>10. Cardinality(S) <= size
  BY <1>2 DEF Least
<1>11. ASSUME Cardinality(S) < size PROVE M = B \union S
  <2>1. Cardinality(M) = Cardinality(B \union S)
    BY <1>2, <1>3, <1>11 DEF Least
  <2>2. B \union S \subseteq M
    OBVIOUS
  <2>3. QED BY <2>1, <2>2, FS_Subset
<1>12. ASSUME NEW x \in M \ (B \union S) PROVE offset + size <= Position(key, M, x)
  <2>1. B \union S \subseteq above(x)
    <3>1. \A b \in B \union S : b \in M /\ b # x /\ key[b] >= key[x] /\ key[b] # key[x]
      OBVIOUS
    <3>2. QED BY <1>1, <3>1
  <2>2. Cardinality(B) + Cardinality(S) <= Cardinality(above(x))
    BY <1>3, <1>4, <2>1, FS_Subset
  <2>3. Cardinality(M \ (B \union S)) # 0
    <3>1. IsFiniteSet(M \ (B \union S))
      BY FS_Subset
    <3>2. QED BY <3>1, FS_EmptySet
  <2>4. Cardinality(B) = offset /\ Cardinality(S) = size
    BY <1>2, <1>8, <2>3 DEF Least
  <2>5. QED BY <2>2, <2>4 DEF Position
<1>13. QED BY <1>5, <1>6, <1>7, <1>9, <1>10, <1>11, <1>12 DEF PagePlaced

\* Rows that appear push a row back.
LEMMA PositionGrows ==
    ASSUME NEW key, NEW later, NEW M, NEW N, M \subseteq N, IsFiniteSet(N), NEW x \in M,
           \A y \in M : later[y] = key[y]
    PROVE  Position(key, M, x) <= Position(later, N, x)
<1>1. {y \in M : key[y] > key[x]} \in SUBSET {y \in N : later[y] > later[x]}
  OBVIOUS
<1>2. IsFiniteSet({y \in N : later[y] > later[x]})
  BY FS_Subset
<1>3. QED BY <1>1, <1>2, FS_Subset DEF Position

\* A row that goes pulls the rows behind it forward by one.
LEMMA PositionShrinks ==
    ASSUME NEW key, NEW M, IsFiniteSet(M), NEW i, NEW x
    PROVE  /\ Position(key, M \ {i}, x) <= Position(key, M, x)
           /\ Position(key, M, x) <= Position(key, M \ {i}, x) + 1
<1> DEFINE A == {y \in M : key[y] > key[x]}
           B == {y \in M \ {i} : key[y] > key[x]}
<1>1. B = A \ {i}
  OBVIOUS
<1>2. IsFiniteSet(A) /\ Cardinality(A) \in Nat
  BY FS_Subset, FS_CardinalityType
<1>3. Cardinality(B) = IF i \in A THEN Cardinality(A) - 1 ELSE Cardinality(A)
  BY <1>1, <1>2, FS_RemoveElement
<1> HIDE DEF A, B
<1>4. Cardinality(B) <= Cardinality(A) /\ Cardinality(A) <= Cardinality(B) + 1
  BY <1>2, <1>3
<1>5. QED BY <1>4 DEF Position, A, B

\* hasNext is false only when this page reaches the total.
LEMMA LastPageReaches ==
    ASSUME NEW total \in Nat, NEW size \in Nat, size > 0, NEW page \in Nat,
           ~(page + 1 < TotalPages(total, size))
    PROVE  total <= page * size + size
<1> DEFINE q == (total + size - 1) \div size
<1>1. q \in Int /\ total + size - 1 < q * size + size
  OBVIOUS
<1>2. CASE total = 0
  <2>1. page * size \in Nat
    OBVIOUS
  <2>2. QED BY <1>2, <2>1
<1>3. CASE total # 0
  <2>1. q <= page + 1
    BY <1>1, <1>3 DEF TotalPages
  <2>2. q * size <= (page + 1) * size
    BY <1>1, <2>1
  <2>3. (page + 1) * size = page * size + size
    OBVIOUS
  <2>4. QED BY <1>1, <2>2, <2>3
<1>4. QED BY <1>2, <1>3

\* What the invariant says of the sets a walk is about.
LEMMA WalkSets ==
    ASSUME TypeOK
    PROVE  /\ stamp \in [Items -> Nat]
           /\ Rows \subseteq Items /\ IsFiniteSet(Rows) /\ Cardinality(Rows) \in Nat
           /\ Dismissals \subseteq Rows /\ IsFiniteSet(Dismissals) /\ Cardinality(Dismissals) \in Nat
           /\ Selected \subseteq Rows /\ IsFiniteSet(Selected) /\ Cardinality(Selected) \in Nat
           /\ Cardinality(Selected) <= Cardinality(Items) /\ Cardinality(Items) \in Nat
           /\ Unseen \subseteq Selected /\ IsFiniteSet(Unseen) /\ Cardinality(Unseen) \in Nat
           /\ Passed \subseteq Unseen /\ IsFiniteSet(Passed) /\ Cardinality(Passed) \in Nat
           /\ walk.size \in Nat /\ walk.page \in Nat /\ Cut \in Nat
           /\ walk.moves \in Nat /\ walk.total \in Nat
           /\ walk.kind \in Nat /\ current \in Nat /\ \A x \in Items : kind[x] \in Nat
<1>1. stamp \in [Items -> Nat] /\ Rows \subseteq Items /\ Dismissals \subseteq Rows
  <2>1. stamp \in [Items -> Nat] /\ Rows \subseteq Items
    BY ListingAssumption DEF TypeOK, Rows
  <2>2. \A i \in Dismissals : i \in Items /\ kind[i] # 0
    BY DEF Dismissals, DISMISSED
  <2>3. QED BY <2>1, <2>2 DEF TypeOK, Rows
<1>2. Selected \subseteq Rows /\ Unseen \subseteq Selected /\ Passed \subseteq Unseen
  BY DEF Selected, Unseen, Passed, Matching
<1>3. /\ walk.size \in Nat /\ walk.page \in Nat /\ walk.moves \in Nat /\ walk.total \in Nat
      /\ walk.kind \in Nat /\ current \in Nat /\ \A x \in Items : kind[x] \in Nat
  <2>1. Cardinality(Items) \in Nat
    BY ListingAssumption, FS_CardinalityType
  <2>2. /\ walk.size \in Sizes \union {1} /\ walk.page \in Nat /\ walk.kind \in 0..MaxKind
        /\ walk.moves \in 0..(2 * Cardinality(Items)) /\ walk.total \in 0..Cardinality(Items)
        /\ current \in 0..MaxKind /\ kind \in [Items -> 0..MaxKind]
    BY DEF TypeOK
  <2>3. walk.size \in Nat
    <3>1. \A s \in Sizes \union {1} : s \in Nat
      BY ListingAssumption
    <3>2. QED BY <2>2, <3>1
  <2>4. \A c \in Nat : \A k \in 0..c : k \in Nat
    OBVIOUS
  <2>5. walk.moves \in Nat /\ walk.total \in Nat
    <3>1. 2 * Cardinality(Items) \in Nat
      BY <2>1
    <3>2. QED BY <2>1, <2>2, <2>4, <3>1
  <2>6. walk.kind \in Nat /\ current \in Nat /\ \A x \in Items : kind[x] \in Nat
    <3>1. \A x \in Items : kind[x] \in 0..MaxKind
      BY <2>2
    <3>2. QED BY <2>2, <2>4, <3>1, ListingAssumption
  <2>7. QED BY <2>2, <2>3, <2>5, <2>6
<1>4. Cut \in Nat
  BY <1>3 DEF Cut
<1>5. IsFiniteSet(Rows) /\ IsFiniteSet(Dismissals) /\ IsFiniteSet(Selected)
  <2>1. Dismissals \subseteq Items /\ Selected \subseteq Items
    BY <1>1, <1>2
  <2>2. QED BY <1>1, <2>1, FS_Subset, ListingAssumption
<1>6. IsFiniteSet(Unseen) /\ IsFiniteSet(Passed)
  <2>1. IsFiniteSet(Unseen)
    BY <1>2, <1>5, FS_Subset
  <2>2. QED BY <1>2, <2>1, FS_Subset
<1>7. Cardinality(Selected) <= Cardinality(Items)
  BY <1>1, <1>2, FS_Subset, ListingAssumption
<1>8. QED BY <1>1, <1>2, <1>3, <1>4, <1>5, <1>6, <1>7, FS_CardinalityType, ListingAssumption

\* The keys of distinct rows differ on what a walk selects.
LEMMA SelectedDiffer ==
    ASSUME TypeOK, Distinct
    PROVE  \A x, y \in Selected : x # y => stamp[x] # stamp[y]
BY WalkSets DEF Distinct

\* A page of the table as it is: the walk moves on, and nothing before the new
\* cut is lost that was not lost before.
LEMMA PageTurned ==
    ASSUME WalkInv, walk.pc = "select",
           NEW S \in Slices(Selected, Cut, walk.size),
           NEW next \in {"filter", "count", "select", "stuck", "done"},
           walk' = Turned(S, next), UNCHANGED <<list, stamp, kind, current>>,
           next = "filter" => walk.open,
           next = "count" => list \in Counted,
           next = "select" => list \notin Counted,
           list = "scenarios" => next \in {"stuck", "done"},
           next = "done" /\ walk.size > 0 =>
              (list \in Counted /\ walk.total <= Cut + walk.size) \/ Cardinality(S) < walk.size
    PROVE  WalkInv'
<1>1. TypeOK /\ WalkShape /\ FilterShape /\ (Distinct => LossExplained /\ SeenBeforeCut)
  BY DEF WalkInv
<1>2. PICK B : IsPage(stamp, Selected, Cut, walk.size, B, S)
  BY DEF Slices, IsPage
<1>3. S \subseteq Selected
  BY DEF Slices
<1>4. /\ walk'.pc = next /\ walk'.size = walk.size /\ walk'.open = walk.open
      /\ walk'.kind = walk.kind /\ walk'.switched = walk.switched
      /\ walk'.page = walk.page + 1 /\ walk'.total = walk.total /\ walk'.got = walk.got \union S
      /\ walk'.start = walk.start /\ walk'.repeated = (walk.repeated \/ S \intersect walk.got # {})
      /\ walk'.arrivals = walk.arrivals /\ walk'.moves = walk.moves
  BY <1>1 DEF Turned, TypeOK
<1>5. /\ Rows' = Rows /\ Selected' = Selected /\ Distinct' = Distinct /\ Dismissals' = Dismissals
      /\ \A k : Matching(k)' = Matching(k)
  BY <1>4 DEF Rows, Selected, Matching, Distinct, Dismissals
<1>6. TypeOK'
  <2>1. walk.got \union S \subseteq Rows
    BY <1>1, <1>3, WalkSets DEF TypeOK
  <2>2. walk.page + 1 \in Nat
    BY <1>1 DEF TypeOK
  <2>3. (walk.repeated \/ S \intersect walk.got # {}) \in BOOLEAN
    OBVIOUS
  <2>4. QED BY <1>1, <1>5, <2>1, <2>2, <2>3 DEF TypeOK, Turned
<1>7. WalkShape' /\ FilterShape'
  <2>1. WalkShape'
    <3>1. walk.page + 1 # 0
      BY <1>1, WalkSets
    <3>2. QED BY <1>1, <1>4, <1>5, <3>1 DEF WalkShape, Walking
  <2>2. ASSUME list = "ranking" PROVE \A x \in S : kind[x] <= walk.kind
    <3>1. walk.kind # Every /\ \A x \in S : kind[x] = walk.kind
      BY <1>1, <1>3, <2>2 DEF FilterShape, Selected, Matching
    <3>2. QED BY <1>1, <3>1, WalkSets
  <2>3. ASSUME list = "ranking", walk.open, NEW x \in walk.got \union S PROVE kind[x] <= walk.kind
    BY <1>1, <2>2, <2>3 DEF FilterShape
  <2>4. /\ kind' = kind /\ list' = list /\ current' = current
        /\ walk'.pc \in {"count", "select"} => walk.pc = "select"
    OBVIOUS
  <2>5. /\ walk'.switched => walk'.open
        /\ list' = "ranking" /\ walk'.pc \in {"count", "select"} => walk'.kind # Every
        /\ list' \in Owned /\ walk'.open /\ current' = 0 => walk'.kind = Every
    BY <1>1, <1>4, <2>4 DEF FilterShape
  <2>6. list' = "ranking" /\ walk'.open =>
           walk'.kind <= current' /\ \A x \in walk'.got : kind'[x] <= walk'.kind
    BY <1>1, <1>4, <2>3, <2>4 DEF FilterShape
  <2>7. ~walk'.switched /\ ~(list' = "alerts" /\ walk'.kind = ACTIVE) => walk'.start \subseteq Selected'
    BY <1>1, <1>4, <1>5, <2>4 DEF FilterShape
  <2>8. QED BY <2>1, <2>5, <2>6, <2>7 DEF FilterShape
<1>8. Cut' = Cut + walk.size
  <2>1. walk.page \in Nat /\ walk.size \in Nat
    BY <1>1, WalkSets
  <2>2. (walk.page + 1) * walk.size = walk.page * walk.size + walk.size
    BY <2>1
  <2>3. QED BY <1>4, <2>2 DEF Cut
<1>9. Unseen' = Unseen \ S
  BY <1>4, <1>5 DEF Unseen
<1>10. ASSUME Distinct PROVE LossExplained' /\ SeenBeforeCut'
  <2>1. /\ \A x \in S : /\ Cut <= Position(stamp, Selected, x)
                        /\ Position(stamp, Selected, x) < Cut + walk.size
        /\ \A x \in B : Position(stamp, Selected, x) < Cut
        /\ \A x \in Selected \ (B \union S) : Cut + walk.size <= Position(stamp, Selected, x)
        /\ Cardinality(Selected \ (B \union S)) =
              IF Cardinality(Selected) <= Cut + walk.size THEN 0
              ELSE Cardinality(Selected) - (Cut + walk.size)
        /\ Cardinality(S) <= walk.size
        /\ Cardinality(S) < walk.size => Selected = B \union S
    <3>1. /\ stamp \in [Items -> Nat] /\ Selected \in SUBSET Items /\ IsFiniteSet(Selected)
          /\ Cut \in Nat /\ walk.size \in Nat /\ S \in SUBSET Selected
      BY <1>1, <1>3, WalkSets
    <3>2. \A x, y \in Selected : x # y => stamp[x] # stamp[y]
      BY <1>1, <1>10, SelectedDiffer
    <3>3. IsPage(stamp, Selected, Cut, walk.size, B, S)
      BY <1>2
    <3> HIDE DEF Selected, Cut
    <3>4. PagePlaced(stamp, Selected, Cut, walk.size, B, S)
      BY <3>1, <3>2, <3>3, PageOfRows
    <3>5. QED BY <3>4 DEF PagePlaced
  <2>2. LossExplained /\ SeenBeforeCut /\ Walking
    BY <1>1, <1>10 DEF Walking
  <2>3. /\ IsFiniteSet(Passed) /\ Cardinality(Passed) \in Nat /\ Cardinality(Selected) \in Nat
        /\ IsFiniteSet(Selected) /\ walk.size \in Nat /\ Cut \in Nat /\ walk.moves \in Nat
        /\ walk.total \in Nat /\ Unseen \subseteq Selected /\ IsFiniteSet(Unseen)
    BY <1>1, WalkSets
  <2>4. \A x \in Selected : Position(stamp, Selected, x) \in Nat
    BY <2>3, PositionType
  <2>5. Passed' \subseteq Passed
    <3>1. Passed' = {x \in Unseen \ S : Position(stamp, Selected, x) < Cut + walk.size}
      BY <1>5, <1>8, <1>9 DEF Passed
    <3>2. \A x \in Unseen \ S : x \in B \/ x \in Selected \ (B \union S)
      BY <2>3
    <3>3. \A x \in Selected \ (B \union S) : ~(Position(stamp, Selected, x) < Cut + walk.size)
      BY <2>1, <2>3, <2>4
    <3>4. QED BY <2>1, <3>1, <3>2, <3>3 DEF Passed
  <2>6. /\ Cardinality(Passed') <= Cardinality(Passed)
        /\ ~walk.switched => Cardinality(Passed) <= walk.moves
    BY <2>2, <2>3, <2>5, FS_Subset DEF LossExplained
  <2>7. ~walk.switched /\ Walking' => Cardinality(Passed') <= walk'.moves
    <3>1. Cardinality(Passed') \in Nat
      BY <2>3, <2>5, FS_Subset, FS_CardinalityType
    <3>2. QED BY <1>4, <2>3, <2>6, <3>1
  <2>8. ~(walk'.pc = "select" /\ list' \in Counted)
    BY <1>4
  <2>9. ASSUME ~walk.switched, next = "done", walk.size > 0 PROVE Cardinality(Unseen \ S) <= walk.moves
    <3> DEFINE rest == Selected \ (B \union S)
    <3>1. Unseen \ S \subseteq Passed \union rest
      <4>1. \A x \in Unseen \ S : x \in B \/ x \in rest
        BY <2>3
      <4>2. QED BY <2>1, <4>1 DEF Passed
    <3>2. IsFiniteSet(rest) /\ Cardinality(rest) \in Nat
      BY <2>3, FS_Subset, FS_CardinalityType
    <3>3. /\ IsFiniteSet(Passed \union rest)
          /\ Cardinality(Passed \union rest) <= Cardinality(Passed) + Cardinality(rest)
      <4>1. /\ IsFiniteSet(Passed \union rest)
            /\ Cardinality(Passed \union rest) =
                 Cardinality(Passed) + Cardinality(rest) - Cardinality(Passed \intersect rest)
        BY <2>3, <3>2, FS_Union
      <4>2. Cardinality(Passed \intersect rest) \in Nat
        BY <2>3, FS_Intersection, FS_CardinalityType
      <4> HIDE DEF rest
      <4>3. QED BY <2>3, <3>2, <4>1, <4>2
    <3>4. /\ Cardinality(Unseen \ S) <= Cardinality(Passed \union rest)
          /\ Cardinality(Unseen \ S) \in Nat /\ Cardinality(Passed \union rest) \in Nat
      BY <3>1, <3>3, FS_Subset, FS_CardinalityType
    <3>5. Cardinality(Passed) + Cardinality(rest) <= walk.moves
      <4>1. CASE list \in Counted /\ walk.total <= Cut + walk.size
        <5>1. Cardinality(Passed) + Cardinality(Selected) <= walk.moves + walk.total
          BY <2>2, <2>9, <4>1 DEF LossExplained
        <5>2. Cardinality(rest) = IF Cardinality(Selected) <= Cut + walk.size THEN 0
                                  ELSE Cardinality(Selected) - (Cut + walk.size)
          BY <2>1
        <5> HIDE DEF rest
        <5>3. QED BY <2>3, <2>6, <2>9, <3>2, <4>1, <5>1, <5>2
      <4>2. CASE Cardinality(S) < walk.size
        <5>1. rest = {}
          BY <2>1, <4>2
        <5>2. Cardinality(rest) = 0
          BY <5>1, FS_EmptySet
        <5> HIDE DEF rest
        <5>3. QED BY <2>3, <2>6, <2>9, <5>2
      <4>3. QED BY <2>9, <4>1, <4>2
    <3> HIDE DEF rest
    <3>6. QED BY <2>3, <3>2, <3>3, <3>4, <3>5
  <2>10. LossExplained'
    BY <1>4, <1>9, <2>7, <2>8, <2>9 DEF LossExplained
  <2>11. SeenBeforeCut'
    <3>1. ASSUME ~walk.arrivals, NEW x \in walk.got \intersect Selected
          PROVE  Position(stamp, Selected, x) < Cut
      BY <2>2, <3>1 DEF SeenBeforeCut
    <3>2. ASSUME ~walk.arrivals, NEW x \in (walk.got \union S) \intersect Selected
          PROVE  Position(stamp, Selected, x) < Cut + walk.size
      BY <2>1, <2>3, <2>4, <3>1, <3>2
    <3>3. ~walk.arrivals => S \intersect walk.got = {}
      BY <1>3, <2>1, <2>3, <2>4, <3>1
    <3>4. walk.repeated => walk.arrivals
      BY <2>2 DEF SeenBeforeCut
    <3>5. ASSUME ~walk.arrivals, list = "lands", walk.open, NEW x \in walk.got \union S
          PROVE  Position(stamp, Matching(kind[x]), x) < Cut + walk.size
      <4>1. CASE x \in walk.got
        <5>1. Position(stamp, Matching(kind[x]), x) < Cut
          BY <2>2, <3>5, <4>1 DEF SeenBeforeCut
        <5>2. Matching(kind[x]) \subseteq Rows /\ IsFiniteSet(Rows)
          BY <1>1, WalkSets DEF Matching
        <5>3. Position(stamp, Matching(kind[x]), x) \in Nat
          BY <5>2, FS_Subset, PositionType
        <5>4. QED BY <2>3, <5>1, <5>3
      <4>2. CASE x \in S
        <5> DEFINE own == Matching(kind[x])
        <5>1. x \in own /\ own \subseteq Selected
          BY <1>3, <4>2 DEF Selected, Matching
        <5>2. IsFiniteSet(own)
          BY <2>3, <5>1, FS_Subset
        <5> HIDE DEF own
        <5>3. Position(stamp, own, x) <= Position(stamp, Selected, x)
          BY <2>3, <5>1, PositionGrows
        <5>4. Position(stamp, own, x) \in Nat /\ Position(stamp, Selected, x) \in Nat
          BY <2>3, <5>2, PositionType
        <5>5. Position(stamp, Selected, x) < Cut + walk.size
          BY <2>1, <4>2
        <5>6. Position(stamp, own, x) < Cut + walk.size
          BY <2>3, <5>3, <5>4, <5>5
        <5>7. QED BY <5>6 DEF own
      <4>3. QED BY <3>5, <4>1, <4>2
    <3>6. QED BY <1>4, <1>5, <1>8, <3>2, <3>3, <3>4, <3>5 DEF SeenBeforeCut
  <2>12. QED BY <2>10, <2>11
<1>11. QED BY <1>5, <1>6, <1>7, <1>10 DEF WalkInv

\* At first no walk has begun.
LEMMA WalkInvStarts ==
    ASSUME Init
    PROVE  WalkInv
<1>1. Rows = {} /\ walk = NoWalk
  BY DEF Init, Rows
<1>2. Cardinality(Items) \in Nat /\ Cardinality({}) = 0
  BY ListingAssumption, FS_CardinalityType, FS_EmptySet
<1>3. 0 \in 0..Cardinality(Items) /\ 0 \in 0..(2 * Cardinality(Items)) /\ 0 \in 0..MaxStamp /\ 0 \in 0..MaxKind
  BY <1>2, ListingAssumption
<1>4. Dismissals = {}
  BY DEF Init, Dismissals, DISMISSED
<1>5. TypeOK
  BY <1>1, <1>3 DEF Init, TypeOK, NoWalk, Every
<1>6. WalkShape
  BY <1>1, <1>2, <1>4 DEF WalkShape, NoWalk, Walking
<1>7. FilterShape
  BY <1>1 DEF FilterShape, NoWalk, Every
<1>8. LossExplained /\ SeenBeforeCut
  BY <1>1 DEF LossExplained, SeenBeforeCut, NoWalk, Walking
<1>9. QED BY <1>5, <1>6, <1>7, <1>8 DEF WalkInv

\* Nothing lies before the start of the table.
LEMMA NothingPassed ==
    ASSUME NEW key, NEW M, IsFiniteSet(M), NEW U
    PROVE  {x \in U : Position(key, M, x) < 0} = {}
<1>1. \A x : Position(key, M, x) \in Nat
  BY PositionType
<1>2. QED BY <1>1

\* A walk that begins has lost and seen nothing.
LEMMA WalkBegins ==
    ASSUME WalkInv, NEW size \in Sizes, NEW k \in Kinds \union {Every}, NEW open \in BOOLEAN,
           BeginWalk(size, k, open)
    PROVE  WalkInv'
<1>1. /\ TypeOK /\ UNCHANGED <<list, stamp, kind, current>>
      /\ open => k = Every /\ list \in Owned \union {"ranking"}
      /\ list = "ranking" => open \/ k # Every
  BY DEF WalkInv, BeginWalk
<1>2. walk' = [NoWalk EXCEPT !.pc = IF open THEN "filter"
                                    ELSE IF list \in Counted THEN "count" ELSE "select",
                             !.size = size, !.open = open, !.kind = k, !.start = Matching(k)]
  BY DEF BeginWalk
<1>3. /\ walk'.pc = IF open THEN "filter" ELSE IF list \in Counted THEN "count" ELSE "select"
      /\ walk'.size = size /\ walk'.open = open /\ walk'.kind = k /\ walk'.start = Matching(k)
      /\ walk'.switched = FALSE /\ walk'.page = 0 /\ walk'.total = 0 /\ walk'.got = {}
      /\ walk'.moves = 0 /\ walk'.repeated = FALSE /\ walk'.arrivals = FALSE
  BY <1>2 DEF NoWalk
<1>4. /\ Rows' = Rows /\ Dismissals' = Dismissals /\ Matching(k) \subseteq Rows
      /\ Selected' = Matching(k)
  BY <1>1, <1>3 DEF Rows, Matching, Dismissals, Selected
<1>5. /\ Cardinality(Items) \in Nat /\ Cardinality(Rows) \in Nat /\ Cardinality(Dismissals) \in Nat
      /\ current \in Nat
  BY <1>1, WalkSets
<1>6. TypeOK'
  <2>1. 0 \in 0..Cardinality(Items) /\ 0 \in 0..(2 * Cardinality(Items))
    BY <1>5
  <2>2. k \in 0..MaxKind
    BY ListingAssumption DEF Kinds, Every
  <2> DEFINE phase == IF open THEN "filter" ELSE IF list \in Counted THEN "count" ELSE "select"
             first == Matching(k)
  <2>3. /\ walk' = [NoWalk EXCEPT !.pc = phase, !.size = size, !.open = open, !.kind = k, !.start = first]
        /\ phase \in {"filter", "count", "select"} /\ first \in SUBSET Rows
    BY <1>2, <1>4
  <2> HIDE DEF phase, first
  <2>4. walk' \in [pc : {"none", "filter", "count", "select", "done", "stuck", "failed"},
                   size : Sizes \union {1}, open : BOOLEAN, kind : 0..MaxKind,
                   switched : BOOLEAN, page : Nat, total : 0..Cardinality(Items),
                   got : SUBSET Rows, start : SUBSET Rows, repeated : BOOLEAN,
                   arrivals : BOOLEAN, moves : 0..(2 * Cardinality(Items))]
    BY <2>1, <2>2, <2>3 DEF NoWalk
  <2>5. QED BY <1>1, <1>4, <2>4 DEF TypeOK
<1>7. WalkShape'
  BY <1>1, <1>3, <1>4, <1>5 DEF WalkShape, Walking
<1>8. FilterShape'
  BY <1>1, <1>3, <1>4, <1>5 DEF FilterShape, Every
<1>9. Passed' = {}
  <2>1. Cut' = 0
    <3>1. 0 * size = 0
      BY ListingAssumption
    <3>2. QED BY <1>3, <3>1 DEF Cut
  <2>2. IsFiniteSet(Selected')
    BY <1>1, <1>4, WalkSets, FS_Subset
  <2>3. QED BY <2>1, <2>2, NothingPassed DEF Passed
<1>10. Cardinality(Passed') = 0
  BY <1>9, FS_EmptySet
<1>11. LossExplained'
  BY <1>1, <1>3, <1>10 DEF LossExplained
<1>12. SeenBeforeCut'
  BY <1>3 DEF SeenBeforeCut
<1>13. QED BY <1>6, <1>7, <1>8, <1>11, <1>12 DEF WalkInv

\* A page whose filter is looked up: the same filter changes nothing, another one
\* selects no row seen before its own page was passed.
LEMMA FilterResolved ==
    ASSUME WalkInv, walk.pc = "filter", NEW next \in {"count", "select"},
           Resolve(next), UNCHANGED <<list, stamp, kind, current>>,
           next = "count" => list = "ranking" /\ current # 0,
           next = "select" => list \in Owned
    PROVE  WalkInv'
<1>1. /\ TypeOK /\ WalkShape /\ FilterShape /\ (Distinct => LossExplained /\ SeenBeforeCut)
      /\ walk.open /\ Walking
  BY DEF WalkInv, WalkShape, Walking
<1>2. walk' = [walk EXCEPT !.pc = next, !.kind = current,
                           !.start = IF walk.page = 0 THEN Matching(current) ELSE walk.start,
                           !.switched = walk.switched \/ (walk.page > 0 /\ walk.kind # current)]
  BY DEF Resolve
<1>3. /\ walk'.pc = next /\ walk'.size = walk.size /\ walk'.open = walk.open
      /\ walk'.kind = current
      /\ walk'.switched = (walk.switched \/ (walk.page > 0 /\ walk.kind # current))
      /\ walk'.page = walk.page /\ walk'.total = walk.total /\ walk'.got = walk.got
      /\ walk'.start = IF walk.page = 0 THEN Matching(current) ELSE walk.start
      /\ walk'.repeated = walk.repeated /\ walk'.arrivals = walk.arrivals
      /\ walk'.moves = walk.moves
  BY <1>1, <1>2 DEF TypeOK
<1>4. /\ Rows' = Rows /\ Distinct' = Distinct /\ Dismissals' = Dismissals /\ Cut' = Cut
      /\ Selected' = Matching(current) /\ Matching(current) \subseteq Rows
      /\ \A k : Matching(k)' = Matching(k)
  BY <1>3 DEF Rows, Distinct, Dismissals, Cut, Selected, Matching
<1>5. /\ walk.page \in Nat /\ walk.size \in Nat /\ walk.moves \in Nat /\ current \in Nat
      /\ walk.kind \in Nat /\ walk.got \subseteq Items /\ \A x \in Items : kind[x] \in Nat
      /\ IsFiniteSet(Matching(current))
  <2>1. walk.got \subseteq Items /\ IsFiniteSet(Matching(current))
    BY <1>1, <1>4, WalkSets, FS_Subset DEF TypeOK
  <2>2. QED BY <1>1, <2>1, WalkSets
<1>6. TypeOK'
  <2>1. (walk.switched \/ (walk.page > 0 /\ walk.kind # current)) \in BOOLEAN
    BY <1>1 DEF TypeOK
  <2> DEFINE st == IF walk.page = 0 THEN Matching(current) ELSE walk.start
             sw == walk.switched \/ (walk.page > 0 /\ walk.kind # current)
  <2>2. st \in SUBSET Rows /\ sw \in BOOLEAN /\ current \in 0..MaxKind
    BY <1>1, <1>4, <2>1 DEF TypeOK
  <2>3. walk' = [walk EXCEPT !.pc = next, !.kind = current, !.start = st, !.switched = sw]
    BY <1>2
  <2> HIDE DEF st, sw
  <2>4. QED BY <1>1, <1>4, <2>2, <2>3 DEF TypeOK
<1>7. WalkShape'
  BY <1>1, <1>3, <1>4 DEF WalkShape, Walking, Counted, Unchecked
<1>8. walk.page = 0 => walk.got = {}
  BY <1>1 DEF WalkShape
<1>9. /\ list \in Owned => list # "ranking" /\ list \notin Counted /\ list # "alerts"
      /\ walk'.switched \in BOOLEAN
      /\ ~walk'.switched => ~walk.switched /\ (walk.page = 0 \/ walk.kind = current)
  <2>1. walk.page > 0 <=> walk.page # 0
    BY <1>5
  <2>2. walk'.switched = (walk.switched \/ (walk.page # 0 /\ walk.kind # current))
    BY <1>3, <2>1
  <2>3. QED BY <1>1, <2>2 DEF Owned, Counted, Unchecked, TypeOK
<1>10. ASSUME list = "ranking" PROVE \A x \in walk.got : kind[x] <= current
  <2>1. walk.kind <= current /\ \A x \in walk.got : kind[x] <= walk.kind
    BY <1>1, <1>10 DEF FilterShape
  <2>2. QED BY <1>5, <2>1
<1>11. FilterShape'
  <2>1. walk'.switched => walk'.open
    BY <1>1, <1>3
  <2>2. list = "ranking" => current # 0
    BY <1>9
  <2>3. list = "ranking" => walk'.kind <= current' /\ \A x \in walk'.got : kind'[x] <= walk'.kind
    BY <1>3, <1>5, <1>10
  <2>4. ~walk'.switched => walk'.start \subseteq Selected'
    <3>1. CASE walk.page = 0
      BY <1>3, <1>4, <3>1
    <3>2. CASE walk.page # 0
      <4>1. ~walk'.switched => walk.kind = current /\ ~walk.switched
        BY <1>9, <3>2
      <4>2. list # "alerts"
        BY <1>9
      <4>3. ~walk.switched => walk.start \subseteq Selected
        BY <1>1, <4>2 DEF FilterShape
      <4>4. QED BY <1>3, <1>4, <3>2, <4>1, <4>3 DEF Selected
    <3>3. QED BY <3>1, <3>2
  <2>5. QED BY <1>3, <2>1, <2>2, <2>3, <2>4 DEF FilterShape, Every
<1>12. ASSUME Distinct, ~walk'.switched PROVE Cardinality(Passed') <= walk'.moves
  <2>1. CASE walk.page = 0
    <3>1. Cut' = 0
      BY <1>4, <1>5, <2>1 DEF Cut
    <3>2. Passed' = {}
      BY <1>4, <1>5, <3>1, NothingPassed DEF Passed
    <3>3. QED BY <1>3, <1>5, <3>2, FS_EmptySet
  <2>2. CASE walk.page # 0
    <3>1. walk.kind = current /\ ~walk.switched
      BY <1>9, <1>12, <2>2
    <3>2. Selected' = Selected /\ Unseen' = Unseen
      BY <1>3, <1>4, <2>2, <3>1 DEF Selected, Unseen
    <3>3. Passed' = Passed
      BY <1>4, <3>2 DEF Passed
    <3>4. QED BY <1>1, <1>3, <1>12, <3>1, <3>3 DEF LossExplained
  <2>3. QED BY <2>1, <2>2
<1>13. ASSUME Distinct, ~walk.arrivals, NEW x \in walk.got \intersect Matching(current)
       PROVE  Position(stamp, Matching(current), x) < Cut
  <2>1. SeenBeforeCut /\ walk.page # 0
    BY <1>1, <1>8, <1>13
  <2>2. CASE walk.kind = current
    BY <1>1, <1>13, <2>1, <2>2 DEF SeenBeforeCut, Selected
  <2>3. CASE walk.kind # current
    <3>1. list = "lands" \/ list = "ranking"
      BY <1>1, <2>1 DEF WalkShape, Owned
    <3>2. current # 0
      <4>1. CASE list = "ranking"
        BY <1>9, <4>1
      <4>2. CASE list = "lands"
        BY <1>1, <2>3, <4>2 DEF FilterShape, Owned, Every
      <4>3. QED BY <3>1, <4>1, <4>2
    <3>3. kind[x] = current
      BY <1>13, <3>2 DEF Matching, Every
    <3>4. list # "ranking"
      <4>1. SUFFICES ASSUME list = "ranking" PROVE FALSE
        OBVIOUS
      <4>2. walk.kind <= current /\ kind[x] <= walk.kind
        BY <1>1, <1>13, <4>1 DEF FilterShape
      <4>3. QED BY <1>5, <2>3, <3>3, <4>2
    <3>5. list = "lands" /\ Position(stamp, Matching(kind[x]), x) < Cut
      BY <1>1, <1>13, <2>1, <3>1, <3>4 DEF SeenBeforeCut
    <3>6. QED BY <3>3, <3>5
  <2>4. QED BY <2>2, <2>3
<1>14. ASSUME Distinct PROVE LossExplained' /\ SeenBeforeCut'
  <2>1. LossExplained'
    BY <1>3, <1>9, <1>12, <1>14 DEF LossExplained
  <2>2. ASSUME ~walk.arrivals, list = "lands", NEW x \in walk.got
        PROVE  Position(stamp, Matching(kind[x]), x) < Cut
    BY <1>1, <1>14, <2>2 DEF SeenBeforeCut
  <2>3. walk.repeated => walk.arrivals
    BY <1>1, <1>14 DEF SeenBeforeCut
  <2>4. QED BY <1>3, <1>4, <1>13, <1>14, <2>1, <2>2, <2>3 DEF SeenBeforeCut
<1>15. QED BY <1>4, <1>6, <1>7, <1>11, <1>14 DEF WalkInv

\* A request that fails ends the walk.
LEMMA WalkFails ==
    ASSUME WalkInv, walk' = [walk EXCEPT !.pc = "failed"], UNCHANGED <<list, stamp, kind, current>>
    PROVE  WalkInv'
<1>1. TypeOK /\ WalkShape /\ FilterShape /\ (Distinct => LossExplained /\ SeenBeforeCut)
  BY DEF WalkInv
<1>2. /\ walk'.pc = "failed" /\ walk'.open = walk.open /\ walk'.kind = walk.kind
      /\ walk'.switched = walk.switched /\ walk'.page = walk.page /\ walk'.got = walk.got
      /\ walk'.start = walk.start /\ walk'.moves = walk.moves
      /\ walk'.repeated = walk.repeated /\ walk'.arrivals = walk.arrivals
  BY <1>1 DEF TypeOK
<1>3. Rows' = Rows /\ Distinct' = Distinct /\ Dismissals' = Dismissals /\ Selected' = Selected
  BY <1>2 DEF Rows, Distinct, Dismissals, Selected, Matching
<1>4. TypeOK'
  BY <1>1, <1>3 DEF TypeOK
<1>5. WalkShape' /\ FilterShape'
  BY <1>1, <1>2, <1>3 DEF WalkShape, FilterShape, Walking
<1>6. LossExplained'
  BY <1>2 DEF LossExplained, Walking
<1>7. Distinct => SeenBeforeCut'
  BY <1>1, <1>2 DEF SeenBeforeCut, Walking
<1>8. QED BY <1>3, <1>4, <1>5, <1>6, <1>7 DEF WalkInv

\* A COUNT finds the rows of the moment.
LEMMA RowsCounted ==
    ASSUME WalkInv, NEW l \in Counted, Count(l)
    PROVE  WalkInv'
<1>1. /\ TypeOK /\ WalkShape /\ FilterShape /\ (Distinct => LossExplained /\ SeenBeforeCut)
      /\ UNCHANGED <<list, stamp, kind, current>> /\ list = l /\ walk.pc = "count"
  BY DEF WalkInv, Count
<1>2. walk' = [walk EXCEPT !.pc = "select", !.total = Cardinality(Selected)]
  BY DEF Count, Selected
<1>3. Cardinality(Selected) \in 0..Cardinality(Items)
  BY <1>1, WalkSets
<1>4. /\ walk'.pc = "select" /\ walk'.size = walk.size /\ walk'.open = walk.open
      /\ walk'.kind = walk.kind /\ walk'.switched = walk.switched
      /\ walk'.page = walk.page /\ walk'.total = Cardinality(Selected) /\ walk'.got = walk.got
      /\ walk'.start = walk.start /\ walk'.repeated = walk.repeated
      /\ walk'.arrivals = walk.arrivals /\ walk'.moves = walk.moves
  BY <1>1, <1>2 DEF TypeOK
<1>5. /\ Rows' = Rows /\ Selected' = Selected /\ Distinct' = Distinct /\ Cut' = Cut
      /\ Unseen' = Unseen /\ Dismissals' = Dismissals /\ \A k : Matching(k)' = Matching(k)
  BY <1>1, <1>4 DEF Rows, Selected, Matching, Distinct, Cut, Unseen, Dismissals
<1>6. Passed' = Passed
  BY <1>1, <1>5 DEF Passed
<1>7. TypeOK'
  BY <1>1, <1>2, <1>3, <1>5 DEF TypeOK
<1>8. WalkShape' /\ FilterShape'
  BY <1>1, <1>4, <1>5 DEF WalkShape, FilterShape, Walking
<1>9. ASSUME Distinct PROVE LossExplained' /\ SeenBeforeCut'
  <2>1. LossExplained /\ SeenBeforeCut /\ Walking
    BY <1>1, <1>9 DEF Walking
  <2>2. ~walk.switched => Cardinality(Passed) <= walk.moves
    BY <2>1 DEF LossExplained
  <2>3. /\ Cardinality(Passed) \in Nat /\ walk.moves \in Nat /\ Cardinality(Selected) \in Nat
    BY <1>1, WalkSets
  <2>4. ~walk.switched => Cardinality(Passed) + Cardinality(Selected) <= walk.moves + Cardinality(Selected)
    BY <2>2, <2>3
  <2>5. LossExplained'
    BY <1>4, <1>5, <1>6, <2>2, <2>4 DEF LossExplained
  <2>6. SeenBeforeCut'
    BY <1>1, <1>4, <1>5, <2>1 DEF SeenBeforeCut
  <2>7. QED BY <2>5, <2>6
<1>10. QED BY <1>5, <1>7, <1>8, <1>9 DEF WalkInv

\* The page after a COUNT, or the division by zero.
LEMMA CountedPage ==
    ASSUME WalkInv, NEW l \in Counted, SelectCounted(l)
    PROVE  WalkInv'
<1>1. /\ TypeOK /\ WalkShape /\ UNCHANGED <<list, stamp, kind, current>>
      /\ list = l /\ walk.pc = "select"
  BY DEF WalkInv, SelectCounted
<1>2. walk.size \in Nat /\ walk.page \in Nat /\ walk.total \in Nat
  BY <1>1, WalkSets
<1>3. CASE walk.size = 0 /\ walk.total # 0
  BY <1>1, <1>3, WalkFails DEF SelectCounted
<1>4. CASE ~(walk.size = 0 /\ walk.total # 0)
  <2> DEFINE next == IF walk.page + 1 < TotalPages(walk.total, walk.size)
                     THEN Following("count") ELSE "done"
  <2>1. PICK S \in Slices(Selected, Cut, walk.size) : walk' = Turned(S, next)
    BY <1>4 DEF SelectCounted, Selected, Cut
  <2>2. next = "done" /\ walk.size > 0 => walk.total <= Cut + walk.size
    BY <1>2, LastPageReaches DEF Cut, Following
  <2>3. /\ next \in {"filter", "count", "select", "stuck", "done"} /\ next # "select"
        /\ next = "filter" => walk.open
        /\ list # "scenarios"
    BY <1>1 DEF Counted, Unchecked, Following
  <2> HIDE DEF next
  <2>4. QED BY <1>1, <2>1, <2>2, <2>3, PageTurned
<1>5. QED BY <1>3, <1>4

\* The page of a listing that goes by whether it is full.
LEMMA FullPage ==
    ASSUME WalkInv, NEW l \in Lists \ Counted, NEW offset, NEW next \in {"filter", "select", "stuck"},
           SelectFull(l, offset, next), offset = Cut,
           next = "filter" => walk.open,
           l = "scenarios" => next = "stuck"
    PROVE  WalkInv'
<1>1. /\ TypeOK /\ WalkShape /\ UNCHANGED <<list, stamp, kind, current>>
      /\ list = l /\ walk.pc = "select"
  BY DEF WalkInv, SelectFull
<1>2. PICK S \in Slices(Selected, Cut, walk.size) :
         walk' = Turned(S, IF Cardinality(S) = walk.size THEN next ELSE "done")
  BY DEF SelectFull, Selected
<1>3. Cardinality(S) <= walk.size /\ Cardinality(S) \in Nat /\ walk.size \in Nat
  <2>1. /\ IsFiniteSet(Selected) /\ Cardinality(Selected) \in Nat /\ walk.size \in Nat
        /\ IsFiniteSet(S) /\ Cardinality(S) \in Nat
    BY <1>1, WalkSets, FS_Subset, FS_CardinalityType DEF Slices
  <2>2. PICK B \in SUBSET (Selected \ S) :
           Cardinality(S) = Least(walk.size, Cardinality(Selected) - Cardinality(B))
    BY DEF Slices
  <2>3. Cardinality(B) \in Nat
    BY <2>1, FS_Subset, FS_CardinalityType
  <2>4. QED BY <2>1, <2>2, <2>3 DEF Least
<1> DEFINE go == IF Cardinality(S) = walk.size THEN next ELSE "done"
<1>4. /\ go \in {"filter", "count", "select", "stuck", "done"} /\ go # "count"
      /\ go = "filter" => walk.open
      /\ go = "done" => Cardinality(S) < walk.size
      /\ list = "scenarios" => go \in {"stuck", "done"}
  BY <1>1, <1>3
<1>5. walk' = Turned(S, go)
  BY <1>2
<1> HIDE DEF go
<1>6. QED BY <1>1, <1>2, <1>4, <1>5, PageTurned

\* The latest month advances, or a caller is linked: only the next look-up notices.
LEMMA CurrentMoves ==
    ASSUME WalkInv, NEW k \in Kinds, current' = k, UNCHANGED <<list, stamp, kind, walk>>,
           list = "ranking" => current < k
    PROVE  WalkInv'
<1>1. TypeOK /\ WalkShape /\ FilterShape /\ (Distinct => LossExplained /\ SeenBeforeCut)
  BY DEF WalkInv
<1>2. /\ Rows' = Rows /\ Distinct' = Distinct /\ Dismissals' = Dismissals /\ Selected' = Selected
      /\ Cut' = Cut /\ Unseen' = Unseen /\ \A n : Matching(n)' = Matching(n)
  BY DEF Rows, Distinct, Dismissals, Selected, Matching, Cut, Unseen
<1>3. Passed' = Passed
  BY <1>2 DEF Passed
<1>4. k \in Nat /\ k # 0 /\ k \in 0..MaxKind
  BY ListingAssumption DEF Kinds
<1>5. TypeOK'
  BY <1>1, <1>2, <1>4 DEF TypeOK
<1>6. WalkShape'
  BY <1>1, <1>2 DEF WalkShape, Walking
<1>7. FilterShape'
  <2>1. ASSUME list = "ranking", walk.open PROVE walk.kind <= k
    <3>1. walk.kind <= current /\ walk.kind \in Nat /\ current \in Nat
      BY <1>1, <2>1, WalkSets DEF FilterShape
    <3>2. QED BY <1>4, <2>1, <3>1
  <2>2. QED BY <1>1, <1>2, <1>4, <2>1 DEF FilterShape
<1>8. Distinct => LossExplained' /\ SeenBeforeCut'
  BY <1>1, <1>2, <1>3 DEF LossExplained, SeenBeforeCut, Walking
<1>9. QED BY <1>2, <1>5, <1>6, <1>7, <1>8 DEF WalkInv

\* There are at most two moves for each row: it appears, and it is dismissed.
LEMMA MovesBounded ==
    ASSUME NEW R \in SUBSET Items, NEW D \in SUBSET R, NEW n \in Nat,
           n <= Cardinality(R) + Cardinality(D)
    PROVE  n \in 0..(2 * Cardinality(Items))
<1>1. D \in SUBSET Items
  OBVIOUS
<1>2. /\ IsFiniteSet(R) /\ Cardinality(R) <= Cardinality(Items)
      /\ IsFiniteSet(D) /\ Cardinality(D) <= Cardinality(Items)
  BY <1>1, ListingAssumption, FS_Subset
<1>3. Cardinality(R) \in Nat /\ Cardinality(D) \in Nat /\ Cardinality(Items) \in Nat
  BY <1>2, ListingAssumption, FS_CardinalityType
<1>4. QED BY <1>2, <1>3

\* What Joined leaves alone, and what it notes.
LEMMA JoinedFields ==
    ASSUME TypeOK, NEW filters, walk' = IF Walking THEN Joined(filters) ELSE walk
    PROVE  /\ walk'.pc = walk.pc /\ walk'.size = walk.size /\ walk'.open = walk.open
           /\ walk'.kind = walk.kind /\ walk'.switched = walk.switched
           /\ walk'.page = walk.page /\ walk'.total = walk.total /\ walk'.got = walk.got
           /\ walk'.start = walk.start /\ walk'.repeated = walk.repeated
           /\ walk'.arrivals = (walk.arrivals \/ (Walking /\ walk.got # {} /\
                 (walk.kind \in filters \/ (walk.open /\ list = "lands"))))
           /\ walk'.moves = IF walk.pc = "select" /\ list \in Counted /\ walk.kind \in filters
                            THEN walk.moves + 1 ELSE walk.moves
           /\ walk' = [walk EXCEPT !.arrivals = walk'.arrivals, !.moves = walk'.moves]
<1> DEFINE arr == walk.arrivals \/ (walk.got # {} /\ (walk.kind \in filters \/ (walk.open /\ list = "lands")))
           mov == IF list \in Counted /\ walk.pc = "select" /\ walk.kind \in filters
                  THEN walk.moves + 1 ELSE walk.moves
<1>1. CASE Walking
  <2>1. walk' = [walk EXCEPT !.arrivals = arr, !.moves = mov]
    BY <1>1 DEF Joined
  <2>2. /\ arr = (walk.arrivals \/ (Walking /\ walk.got # {} /\
                    (walk.kind \in filters \/ (walk.open /\ list = "lands"))))
        /\ mov = IF walk.pc = "select" /\ list \in Counted /\ walk.kind \in filters
                 THEN walk.moves + 1 ELSE walk.moves
    BY <1>1
  <2> HIDE DEF arr, mov
  <2>3. /\ walk'.pc = walk.pc /\ walk'.size = walk.size /\ walk'.open = walk.open
        /\ walk'.kind = walk.kind /\ walk'.switched = walk.switched
        /\ walk'.page = walk.page /\ walk'.total = walk.total /\ walk'.got = walk.got
        /\ walk'.start = walk.start /\ walk'.repeated = walk.repeated
        /\ walk'.arrivals = arr /\ walk'.moves = mov
    BY <2>1 DEF TypeOK
  <2>4. QED BY <2>1, <2>2, <2>3
<1>2. CASE ~Walking
  <2>1. walk' = walk /\ walk.pc # "select"
    BY <1>2 DEF Walking
  <2>2. walk' = [walk EXCEPT !.arrivals = walk'.arrivals, !.moves = walk'.moves]
    BY <2>1 DEF TypeOK
  <2>3. walk.arrivals \in BOOLEAN
    BY DEF TypeOK
  <2>4. QED BY <1>2, <2>1, <2>2, <2>3
<1>3. QED BY <1>1, <1>2

\* A row that comes under the walk's filter pushes rows back: nothing is lost at
\* once, and a COUNT that came before it is short by one.
LEMMA RowJoins ==
    ASSUME TypeOK, LossExplained, SeenBeforeCut, NEW i, NEW joins \in BOOLEAN,
           joins => i \notin Selected /\ i \notin walk.start,
           Selected' = IF joins THEN Selected \union {i} ELSE Selected,
           \A y \in Selected : stamp'[y] = stamp[y], list' = list,
           walk'.pc = walk.pc, walk'.size = walk.size, walk'.open = walk.open,
           walk'.switched = walk.switched, walk'.page = walk.page, walk'.total = walk.total,
           walk'.got = walk.got, walk'.start = walk.start, walk'.repeated = walk.repeated,
           walk'.arrivals = (walk.arrivals \/ (Walking /\ walk.got # {} /\
              (joins \/ (walk.open /\ list = "lands")))),
           walk'.moves = IF walk.pc = "select" /\ list \in Counted /\ joins
                         THEN walk.moves + 1 ELSE walk.moves
    PROVE  LossExplained' /\ SeenBeforeCut'
<1>1. /\ IsFiniteSet(Selected) /\ Cardinality(Selected) \in Nat
      /\ walk.moves \in Nat /\ walk.total \in Nat /\ Cut \in Nat
      /\ IsFiniteSet(Passed) /\ Cardinality(Passed) \in Nat
  BY WalkSets
<1>2. /\ IsFiniteSet(Selected') /\ Selected \subseteq Selected'
      /\ Cardinality(Selected') = IF joins THEN Cardinality(Selected) + 1 ELSE Cardinality(Selected)
  BY <1>1, FS_AddElement
<1>3. walk'.moves \in Nat /\ walk.moves <= walk'.moves
  BY <1>1
<1>4. Cut' = Cut
  BY DEF Cut
<1>5. Unseen' = Unseen
  BY DEF Unseen
<1>6. Passed' \subseteq Passed
  <2> SUFFICES ASSUME NEW x \in Unseen, Position(stamp', Selected', x) < Cut
               PROVE  Position(stamp, Selected, x) < Cut
    BY <1>4, <1>5 DEF Passed
  <2>1. x \in Selected
    BY DEF Unseen
  <2>2. Position(stamp, Selected, x) <= Position(stamp', Selected', x)
    BY <1>2, <2>1, PositionGrows
  <2>3. Position(stamp, Selected, x) \in Nat /\ Position(stamp', Selected', x) \in Nat
    BY <1>1, <1>2, PositionType
  <2>4. QED BY <1>1, <2>2, <2>3
<1>7. Cardinality(Passed') <= Cardinality(Passed) /\ Cardinality(Passed') \in Nat
  BY <1>1, <1>6, FS_Subset, FS_CardinalityType
<1>8. LossExplained'
  <2>1. ASSUME ~walk.switched, Walking PROVE Cardinality(Passed') <= walk'.moves
    <3>1. Cardinality(Passed) <= walk.moves
      BY <2>1 DEF LossExplained
    <3>2. QED BY <1>1, <1>3, <1>7, <3>1
  <2>2. ASSUME ~walk.switched, walk.pc = "select", list \in Counted
        PROVE  Cardinality(Passed') + Cardinality(Selected') <= walk'.moves + walk'.total
    <3>1. Cardinality(Passed) + Cardinality(Selected) <= walk.moves + walk.total
      BY <2>2 DEF LossExplained
    <3>2. walk'.moves = IF joins THEN walk.moves + 1 ELSE walk.moves
      BY <2>2
    <3>3. QED BY <1>1, <1>2, <1>7, <3>1, <3>2
  <2>3. walk.pc = "done" => walk'.moves = walk.moves
    OBVIOUS
  <2>4. QED BY <1>5, <2>1, <2>2, <2>3 DEF LossExplained, Walking
<1>9. SeenBeforeCut'
  <2>1. walk'.repeated => walk'.arrivals
    BY DEF SeenBeforeCut
  <2>2. ASSUME Walking, ~walk'.arrivals, NEW x \in walk.got
        PROVE  /\ x \in Selected' => Position(stamp', Selected', x) < Cut
               /\ ~(list = "lands" /\ walk.open)
    <3>1. ~joins /\ ~(walk.open /\ list = "lands") /\ ~walk.arrivals
      BY <2>2
    <3>2. Selected' = Selected
      BY <3>1
    <3>3. ASSUME x \in Selected' PROVE Position(stamp', Selected', x) < Cut
      <4>1. Position(stamp, Selected, x) < Cut
        BY <2>2, <3>1, <3>2, <3>3 DEF SeenBeforeCut
      <4>2. Position(stamp', Selected', x) = Position(stamp, Selected, x)
        <5>1. {y \in Selected : stamp'[y] > stamp'[x]} = {y \in Selected : stamp[y] > stamp[x]}
          BY <3>2, <3>3
        <5>2. QED BY <3>2, <5>1 DEF Position
      <4>3. QED BY <4>1, <4>2
    <3>4. QED BY <3>1, <3>3
  <2>3. QED BY <1>4, <2>1, <2>2 DEF SeenBeforeCut, Walking
<1>10. QED BY <1>8, <1>9

\* A row that appears.
LEMMA RowAdded ==
    ASSUME WalkInv, NEW i \in Items, NEW s \in 1..MaxStamp, NEW k \in Kinds, Add(i, s, k)
    PROVE  WalkInv'
<1>1. /\ TypeOK /\ WalkShape /\ FilterShape /\ (Distinct => LossExplained /\ SeenBeforeCut)
      /\ list' = list /\ stamp[i] = 0 /\ stamp' = [stamp EXCEPT ![i] = s]
      /\ kind' = [kind EXCEPT ![i] = k]
      /\ current' = IF list = "ranking" /\ k > current THEN k ELSE current
  BY DEF WalkInv, Add
<1> DEFINE joins == walk.kind \in {Every, k}
<1>2. /\ walk'.pc = walk.pc /\ walk'.size = walk.size /\ walk'.open = walk.open
      /\ walk'.kind = walk.kind /\ walk'.switched = walk.switched
      /\ walk'.page = walk.page /\ walk'.total = walk.total /\ walk'.got = walk.got
      /\ walk'.start = walk.start /\ walk'.repeated = walk.repeated
      /\ walk'.arrivals = (walk.arrivals \/ (Walking /\ walk.got # {} /\
            (joins \/ (walk.open /\ list = "lands"))))
      /\ walk'.moves = IF walk.pc = "select" /\ list \in Counted /\ joins
                       THEN walk.moves + 1 ELSE walk.moves
      /\ walk' = [walk EXCEPT !.arrivals = walk'.arrivals, !.moves = walk'.moves]
  <2>1. walk' = IF Walking THEN Joined({Every, k}) ELSE walk
    BY DEF Add
  <2>2. QED BY <1>1, <2>1, JoinedFields
<1>3. s \in Nat /\ s # 0 /\ s \in 0..MaxStamp /\ k \in Nat /\ k # 0 /\ k \in 0..MaxKind
  BY ListingAssumption DEF Kinds
<1>4. /\ stamp' \in [Items -> 0..MaxStamp] /\ kind' \in [Items -> 0..MaxKind]
      /\ i \notin Rows /\ Rows' = Rows \union {i}
      /\ \A x \in Rows : x # i /\ stamp'[x] = stamp[x] /\ kind'[x] = kind[x]
      /\ stamp'[i] = s /\ kind'[i] = k
  BY <1>1, <1>3 DEF TypeOK, Rows
<1>5. /\ i \notin Selected /\ Selected \subseteq Rows
      /\ Selected' = IF joins THEN Selected \union {i} ELSE Selected
  BY <1>2, <1>4 DEF Selected, Matching
<1>6. /\ IsFiniteSet(Rows) /\ Cardinality(Rows) \in Nat /\ Dismissals \subseteq Rows
      /\ IsFiniteSet(Dismissals) /\ Cardinality(Dismissals) \in Nat /\ walk.moves \in Nat
      /\ walk.kind \in Nat /\ current \in Nat
  BY <1>1, WalkSets
<1>7. /\ Cardinality(Rows') = Cardinality(Rows) + 1
      /\ Dismissals \subseteq Dismissals' /\ Dismissals' \subseteq Rows'
      /\ Cardinality(Dismissals) <= Cardinality(Dismissals') /\ Cardinality(Dismissals') \in Nat
  <2>1. Cardinality(Rows') = Cardinality(Rows) + 1 /\ IsFiniteSet(Rows')
    BY <1>4, <1>6, FS_AddElement
  <2>2. \A x \in Items : kind'[x] = IF x = i THEN k ELSE kind[x]
    BY <1>1 DEF TypeOK
  <2>3. \A x \in Dismissals : x \in Items /\ x # i /\ kind[x] = DISMISSED
    BY <1>4, <1>6 DEF Dismissals
  <2>4. Dismissals \subseteq Dismissals' /\ Dismissals' \subseteq Dismissals \union {i}
    BY <2>2, <2>3 DEF Dismissals
  <2>5. Dismissals' \subseteq Rows'
    BY <1>4, <1>6, <2>4
  <2>6. QED BY <2>1, <2>4, <2>5, FS_Subset, FS_CardinalityType
<1>8. walk'.moves \in Nat /\ walk'.moves <= walk.moves + 1
  BY <1>2, <1>6
<1>9. WalkShape'
  <2>1. walk'.moves <= Cardinality(Rows') + Cardinality(Dismissals')
    BY <1>1, <1>6, <1>7, <1>8 DEF WalkShape
  <2>2. QED BY <1>1, <1>2, <2>1 DEF WalkShape, Walking
<1>10. FilterShape'
  <2>1. current' \in Nat /\ current <= current' /\ (list # "ranking" => current' = current)
    BY <1>1, <1>3, <1>6
  <2>2. \A x \in walk.got : kind'[x] = kind[x]
    BY <1>1, <1>4 DEF TypeOK
  <2>3. Selected \subseteq Selected'
    BY <1>5
  <2>4. ASSUME list = "ranking", walk.open PROVE walk.kind <= current'
    <3>1. walk.kind <= current
      BY <1>1, <2>4 DEF FilterShape
    <3>2. QED BY <1>6, <2>1, <3>1
  <2>5. "ranking" \notin Owned
    BY DEF Owned
  <2>6. QED BY <1>1, <1>2, <2>1, <2>2, <2>3, <2>4, <2>5 DEF FilterShape
<1>11. TypeOK'
  <2>1. walk'.moves \in 0..(2 * Cardinality(Items))
    <3>1. Rows' \in SUBSET Items /\ Dismissals' \in SUBSET Rows'
      BY <1>1, <1>4, <1>7, WalkSets
    <3>2. walk'.moves <= Cardinality(Rows') + Cardinality(Dismissals')
      BY <1>9 DEF WalkShape
    <3>3. QED BY <1>8, <3>1, <3>2, MovesBounded
  <2> DEFINE arr == walk'.arrivals
             mov == walk'.moves
  <2>2. arr \in BOOLEAN
    BY <1>1, <1>2 DEF TypeOK
  <2>3. walk' = [walk EXCEPT !.arrivals = arr, !.moves = mov] /\ mov \in 0..(2 * Cardinality(Items))
    BY <1>2, <2>1
  <2> HIDE DEF arr, mov
  <2>4. walk' \in [pc : {"none", "filter", "count", "select", "done", "stuck", "failed"},
                   size : Sizes \union {1}, open : BOOLEAN, kind : 0..MaxKind,
                   switched : BOOLEAN, page : Nat, total : 0..Cardinality(Items),
                   got : SUBSET Rows', start : SUBSET Rows', repeated : BOOLEAN,
                   arrivals : BOOLEAN, moves : 0..(2 * Cardinality(Items))]
    <3>1. SUBSET Rows \subseteq SUBSET Rows'
      BY <1>4
    <3>2. QED BY <1>1, <2>2, <2>3, <3>1 DEF TypeOK
  <2>5. current' \in 0..MaxKind
    BY <1>1, <1>3 DEF TypeOK
  <2>6. \A x \in Items : stamp'[x] = 0 <=> kind'[x] = 0
    <3>1. \A x \in Items \ {i} : stamp'[x] = stamp[x] /\ kind'[x] = kind[x]
      BY <1>1 DEF TypeOK
    <3>2. QED BY <1>1, <1>3, <1>4, <3>1 DEF TypeOK
  <2>7. QED BY <1>1, <1>4, <2>4, <2>5, <2>6 DEF TypeOK
<1>12. Distinct' => Distinct
  BY <1>4 DEF Distinct
<1>13. ASSUME Distinct PROVE LossExplained' /\ SeenBeforeCut'
  <2>1. LossExplained /\ SeenBeforeCut
    BY <1>1, <1>13
  <2>2. i \notin walk.start
    BY <1>1, <1>4 DEF TypeOK
  <2>3. \A y \in Selected : stamp'[y] = stamp[y]
    BY <1>4, <1>5
  <2>4. joins \in BOOLEAN
    OBVIOUS
  <2> HIDE DEF joins
  <2>5. QED BY <1>1, <1>2, <1>5, <2>1, <2>2, <2>3, <2>4, RowJoins
<1>14. QED BY <1>9, <1>10, <1>11, <1>12, <1>13 DEF WalkInv

\* A dismissal under status=ACTIVE pulls the rows behind it forward, at most one of
\* them across the cut; what lies before the cut stays there.
LEMMA ActiveRowLeaves ==
    ASSUME TypeOK, LossExplained, SeenBeforeCut, Distinct,
           NEW i \in Selected, Selected' = Selected \ {i}, list = "alerts", ~walk.open,
           UNCHANGED <<list, stamp>>,
           walk'.pc = walk.pc, walk'.size = walk.size, walk'.open = walk.open,
           walk'.switched = walk.switched, walk'.page = walk.page, walk'.total = walk.total,
           walk'.got = walk.got, walk'.start = walk.start, walk'.repeated = walk.repeated,
           walk'.arrivals = walk.arrivals,
           walk'.moves = IF Walking THEN walk.moves + 1 ELSE walk.moves
    PROVE  LossExplained' /\ SeenBeforeCut'
<1>1. /\ IsFiniteSet(Selected) /\ Cardinality(Selected) \in Nat
      /\ walk.moves \in Nat /\ walk.total \in Nat /\ Cut \in Nat
      /\ IsFiniteSet(Passed) /\ Cardinality(Passed) \in Nat
      /\ IsFiniteSet(Unseen) /\ Cardinality(Unseen) \in Nat /\ Unseen \subseteq Selected
      /\ stamp \in [Items -> Nat] /\ Selected \in SUBSET Items
  BY WalkSets
<1>2. Cut' = Cut
  BY DEF Cut
<1>3. Unseen' \subseteq Unseen
  BY DEF Unseen
<1>4. IsFiniteSet(Unseen') /\ Cardinality(Unseen') <= Cardinality(Unseen) /\ Cardinality(Unseen') \in Nat
  BY <1>1, <1>3, FS_Subset, FS_CardinalityType
<1>5. /\ IsFiniteSet(Selected') /\ Cardinality(Selected') \in Nat
      /\ Cardinality(Selected') = Cardinality(Selected) - 1
  BY <1>1, FS_RemoveElement, FS_CardinalityType
<1>6. \A x : /\ Position(stamp, Selected', x) \in Nat /\ Position(stamp, Selected, x) \in Nat
             /\ Position(stamp, Selected', x) <= Position(stamp, Selected, x)
             /\ Position(stamp, Selected, x) <= Position(stamp, Selected', x) + 1
  <2> TAKE x
  <2>1. Position(stamp, Selected', x) \in Nat /\ Position(stamp, Selected, x) \in Nat
    BY <1>1, <1>5, PositionType
  <2>2. QED BY <1>1, <2>1, PositionShrinks
<1>7. Cardinality(Passed') <= Cardinality(Passed) + 1 /\ Cardinality(Passed') \in Nat
  <2> DEFINE at == {x \in Selected : Position(stamp, Selected, x) = Cut}
  <2>1. Passed' = {x \in Unseen' : Position(stamp, Selected', x) < Cut}
    BY <1>2 DEF Passed
  <2>2. IsFiniteSet(Passed') /\ Cardinality(Passed') \in Nat
    BY <1>4, <2>1, FS_Subset, FS_CardinalityType
  <2>3. \A x, y \in Selected : x # y => stamp[x] # stamp[y]
    BY SelectedDiffer
  <2>4. IsFiniteSet(at) /\ Cardinality(at) <= 1
    BY <1>1, <2>3, OneAtPosition
  <2>5. Passed' \subseteq Passed \union at
    <3> SUFFICES ASSUME NEW x \in Passed' PROVE x \in Passed \union at
      OBVIOUS
    <3>1. x \in Unseen /\ x \in Selected /\ Position(stamp, Selected', x) < Cut
      BY <1>1, <1>3, <2>1
    <3>2. Position(stamp, Selected, x) < Cut \/ Position(stamp, Selected, x) = Cut
      BY <1>1, <1>6, <3>1
    <3>3. QED BY <3>1, <3>2 DEF Passed
  <2>6. /\ IsFiniteSet(Passed \union at)
        /\ Cardinality(Passed \union at) =
             Cardinality(Passed) + Cardinality(at) - Cardinality(Passed \intersect at)
    BY <1>1, <2>4, FS_Union
  <2>7. Cardinality(Passed \intersect at) \in Nat /\ Cardinality(at) \in Nat
    BY <1>1, <2>4, FS_Intersection, FS_CardinalityType
  <2>8. Cardinality(Passed') <= Cardinality(Passed \union at)
    BY <2>5, <2>6, FS_Subset
  <2> HIDE DEF at
  <2>9. QED BY <1>1, <2>2, <2>4, <2>6, <2>7, <2>8
<1>8. LossExplained'
  <2>1. ASSUME ~walk.switched, Walking PROVE Cardinality(Passed') <= walk'.moves
    <3>1. Cardinality(Passed) <= walk.moves /\ walk'.moves = walk.moves + 1
      BY <2>1 DEF LossExplained
    <3>2. QED BY <1>1, <1>7, <3>1
  <2>2. ASSUME ~walk.switched, walk.pc = "select", list \in Counted
        PROVE  Cardinality(Passed') + Cardinality(Selected') <= walk'.moves + walk'.total
    <3>1. /\ Cardinality(Passed) + Cardinality(Selected) <= walk.moves + walk.total
          /\ walk'.moves = walk.moves + 1
      BY <2>2 DEF LossExplained, Walking
    <3>2. QED BY <1>1, <1>5, <1>7, <3>1
  <2>3. ASSUME ~walk.switched, walk.pc = "done", walk.size > 0
        PROVE  Cardinality(Unseen') <= walk'.moves
    <3>1. Cardinality(Unseen) <= walk.moves /\ walk'.moves = walk.moves
      BY <2>3 DEF LossExplained, Walking
    <3>2. QED BY <1>1, <1>4, <3>1
  <2>4. QED BY <2>1, <2>2, <2>3 DEF LossExplained, Walking
<1>9. SeenBeforeCut'
  <2>1. ASSUME Walking, ~walk.arrivals, NEW x \in walk.got \intersect Selected'
        PROVE  Position(stamp, Selected', x) < Cut
    <3>1. Position(stamp, Selected, x) < Cut
      BY <2>1 DEF SeenBeforeCut
    <3>2. QED BY <1>1, <1>6, <3>1
  <2>2. walk'.repeated => walk'.arrivals
    BY DEF SeenBeforeCut
  <2>3. QED BY <1>2, <2>1, <2>2 DEF SeenBeforeCut, Walking
<1>10. QED BY <1>8, <1>9

\* A dismissal takes the alert out of the listing of ACTIVE and into that of
\* DISMISSED; without a status nothing moves.
LEMMA AlertDismissed ==
    ASSUME WalkInv, NEW i \in Items, Dismiss(i)
    PROVE  WalkInv'
<1>1. /\ TypeOK /\ WalkShape /\ FilterShape /\ (Distinct => LossExplained /\ SeenBeforeCut)
      /\ list' = list /\ stamp' = stamp /\ current' = current /\ list = "alerts"
      /\ kind[i] = ACTIVE /\ kind' = [kind EXCEPT ![i] = DISMISSED]
  BY DEF WalkInv, Dismiss
<1>2. ~walk.open /\ ~walk.switched
  BY <1>1 DEF WalkShape, FilterShape, Owned
<1> DEFINE joins  == walk.kind = DISMISSED
           leaves == walk.kind = ACTIVE
<1>3. /\ walk'.pc = walk.pc /\ walk'.size = walk.size /\ walk'.open = walk.open
      /\ walk'.kind = walk.kind /\ walk'.switched = walk.switched
      /\ walk'.page = walk.page /\ walk'.total = walk.total /\ walk'.got = walk.got
      /\ walk'.start = walk.start /\ walk'.repeated = walk.repeated
      /\ leaves => /\ walk'.arrivals = walk.arrivals
                   /\ walk'.moves = IF Walking THEN walk.moves + 1 ELSE walk.moves
      /\ ~leaves => /\ walk'.arrivals = (walk.arrivals \/ (Walking /\ walk.got # {} /\
                          (joins \/ (walk.open /\ list = "lands"))))
                    /\ walk'.moves = IF walk.pc = "select" /\ list \in Counted /\ joins
                                     THEN walk.moves + 1 ELSE walk.moves
      /\ walk' = [walk EXCEPT !.arrivals = walk'.arrivals, !.moves = walk'.moves]
  <2>1. CASE leaves
    <3>1. CASE Walking
      <4>1. walk' = [walk EXCEPT !.moves = walk.moves + 1]
        BY <2>1, <3>1 DEF Dismiss
      <4> DEFINE mov == walk.moves + 1
      <4>2. walk' = [walk EXCEPT !.moves = mov] /\ mov = walk.moves + 1
        BY <4>1
      <4> HIDE DEF mov
      <4>3. /\ walk'.pc = walk.pc /\ walk'.size = walk.size /\ walk'.open = walk.open
            /\ walk'.kind = walk.kind /\ walk'.switched = walk.switched
            /\ walk'.page = walk.page /\ walk'.total = walk.total /\ walk'.got = walk.got
            /\ walk'.start = walk.start /\ walk'.repeated = walk.repeated
            /\ walk'.arrivals = walk.arrivals /\ walk'.moves = mov
        BY <1>1, <4>2 DEF TypeOK
      <4>4. walk' = [walk EXCEPT !.arrivals = walk.arrivals, !.moves = mov]
        BY <1>1, <4>2 DEF TypeOK
      <4>5. QED BY <2>1, <3>1, <4>2, <4>3, <4>4
    <3>2. CASE ~Walking
      <4>1. walk' = walk
        BY <3>2 DEF Dismiss
      <4>2. walk' = [walk EXCEPT !.arrivals = walk'.arrivals, !.moves = walk'.moves]
        BY <1>1, <4>1 DEF TypeOK
      <4>3. QED BY <2>1, <3>2, <4>1, <4>2
    <3>3. QED BY <3>1, <3>2
  <2>2. CASE ~leaves
    <3>1. walk' = IF Walking THEN Joined({DISMISSED}) ELSE walk
      BY <2>2 DEF Dismiss
    <3>2. walk.kind \in {DISMISSED} <=> joins
      OBVIOUS
    <3>3. QED BY <1>1, <2>2, <3>1, <3>2, JoinedFields
  <2>3. QED BY <2>1, <2>2
<1>4. /\ Rows' = Rows /\ Distinct' = Distinct /\ i \in Rows /\ i \notin Dismissals
      /\ \A x \in Items : kind'[x] = IF x = i THEN DISMISSED ELSE kind[x]
  <2>1. kind[i] # 0 /\ kind[i] # DISMISSED
    BY <1>1 DEF ACTIVE, DISMISSED
  <2>2. QED BY <1>1, <2>1 DEF Rows, Distinct, Dismissals, TypeOK
<1>5. Dismissals' = Dismissals \union {i}
  BY <1>4 DEF Dismissals
<1>6. /\ leaves => i \in Selected /\ Selected' = Selected \ {i}
      /\ joins => i \notin Selected /\ i \notin walk.start
      /\ ~leaves => Selected' = IF joins THEN Selected \union {i} ELSE Selected
  <2>1. \A x \in Rows : x \in Items /\ kind'[x] = IF x = i THEN DISMISSED ELSE kind[x]
    BY <1>4 DEF Rows
  <2>2. leaves => i \in Selected /\ Selected' = Selected \ {i}
    BY <1>1, <1>3, <1>4, <2>1 DEF Selected, Matching, ACTIVE, DISMISSED, Every
  <2>3. joins => i \notin Selected
    BY <1>1 DEF Selected, Matching, ACTIVE, DISMISSED, Every
  <2>4. joins => walk.start \subseteq Selected
    BY <1>1, <1>2 DEF FilterShape, ACTIVE, DISMISSED
  <2>5. ~leaves => Selected' = IF joins THEN Selected \union {i} ELSE Selected
    BY <1>1, <1>3, <1>4, <2>1 DEF Selected, Matching, ACTIVE, DISMISSED, Every
  <2>6. QED BY <2>2, <2>3, <2>4, <2>5
<1>7. /\ Cardinality(Rows) \in Nat /\ walk.moves \in Nat
      /\ Cardinality(Dismissals) \in Nat /\ Cardinality(Dismissals') = Cardinality(Dismissals) + 1
  BY <1>1, <1>4, <1>5, WalkSets, FS_AddElement
<1>8. walk'.moves \in Nat /\ walk'.moves <= walk.moves + 1
  BY <1>3, <1>7
<1>9. WalkShape'
  <2>1. walk'.moves <= Cardinality(Rows') + Cardinality(Dismissals')
    BY <1>1, <1>4, <1>7, <1>8 DEF WalkShape
  <2>2. QED BY <1>1, <1>3, <2>1 DEF WalkShape, Walking
<1>10. FilterShape'
  <2>1. ~leaves => Selected \subseteq Selected'
    BY <1>6
  <2>2. QED BY <1>1, <1>2, <1>3, <2>1 DEF FilterShape, Owned
<1>11. TypeOK'
  <2>1. walk'.moves \in 0..(2 * Cardinality(Items))
    <3>1. Rows' \in SUBSET Items /\ Dismissals' \in SUBSET Rows'
      BY <1>1, <1>4, <1>5, WalkSets
    <3>2. walk'.moves <= Cardinality(Rows') + Cardinality(Dismissals')
      BY <1>9 DEF WalkShape
    <3>3. QED BY <1>8, <3>1, <3>2, MovesBounded
  <2> DEFINE arr == walk'.arrivals
             mov == walk'.moves
  <2>2. arr \in BOOLEAN
    BY <1>1, <1>3 DEF TypeOK
  <2>3. walk' = [walk EXCEPT !.arrivals = arr, !.moves = mov] /\ mov \in 0..(2 * Cardinality(Items))
    BY <1>3, <2>1
  <2> HIDE DEF arr, mov
  <2>4. DISMISSED \in 0..MaxKind /\ DISMISSED # 0
    BY ListingAssumption DEF DISMISSED
  <2>5. kind' \in [Items -> 0..MaxKind]
    BY <1>1, <2>4 DEF TypeOK
  <2>6. \A x \in Items : stamp'[x] = 0 <=> kind'[x] = 0
    BY <1>1, <1>4, <2>4 DEF TypeOK, Rows
  <2>7. QED BY <1>1, <1>4, <2>2, <2>3, <2>5, <2>6 DEF TypeOK
<1>12. ASSUME Distinct PROVE LossExplained' /\ SeenBeforeCut'
  <2>1. LossExplained /\ SeenBeforeCut
    BY <1>1, <1>12
  <2>2. CASE leaves
    BY <1>1, <1>2, <1>3, <1>6, <1>12, <2>1, <2>2, ActiveRowLeaves
  <2>3. CASE ~leaves
    <3>1. joins \in BOOLEAN
      OBVIOUS
    <3>2. /\ joins => i \notin Selected /\ i \notin walk.start
          /\ Selected' = IF joins THEN Selected \union {i} ELSE Selected
          /\ walk'.arrivals = (walk.arrivals \/ (Walking /\ walk.got # {} /\
                (joins \/ (walk.open /\ list = "lands"))))
          /\ walk'.moves = IF walk.pc = "select" /\ list \in Counted /\ joins
                           THEN walk.moves + 1 ELSE walk.moves
      BY <1>3, <1>6, <2>3
    <3> HIDE DEF joins, leaves
    <3>3. QED BY <1>1, <1>3, <2>1, <3>1, <3>2, RowJoins
  <2>4. QED BY <2>2, <2>3
<1>13. QED BY <1>4, <1>9, <1>10, <1>11, <1>12 DEF WalkInv

\* WalkInv holds at first and after every action.
LEMMA WalkInvHolds == Spec => []WalkInv
<1>1. Init => WalkInv
  BY WalkInvStarts
<1>2. WalkInv /\ [Next]_vars => WalkInv'
  <2> SUFFICES ASSUME WalkInv, [Next]_vars PROVE WalkInv'
    OBVIOUS
  <2>1. ASSUME NEW size \in Sizes, NEW k \in Kinds \union {Every}, NEW open \in BOOLEAN,
               BeginWalk(size, k, open)
        PROVE  WalkInv'
    BY <2>1, WalkBegins
  <2>2. CASE ReadLatestMonth
    <3>1. CASE current = 0
      BY <2>2, <3>1, WalkFails DEF ReadLatestMonth
    <3>2. CASE current # 0
      <4>1. Resolve("count") /\ list = "ranking" /\ walk.pc = "filter" /\ UNCHANGED <<list, stamp, kind, current>>
        BY <2>2, <3>2 DEF ReadLatestMonth
      <4>2. QED BY <3>2, <4>1, FilterResolved
    <3>3. QED BY <3>1, <3>2
  <2>3. CASE ReadLink
    <3>1. Resolve("select") /\ list \in Owned /\ walk.pc = "filter" /\ UNCHANGED <<list, stamp, kind, current>>
      BY <2>3 DEF ReadLink
    <3>2. QED BY <3>1, FilterResolved
  <2>4. CASE CountAlerts \/ CountRanking \/ CountUploads
    BY <2>4, RowsCounted DEF CountAlerts, CountRanking, CountUploads, Counted, Unchecked
  <2>5. CASE SelectAlerts \/ SelectRanking \/ SelectUploads
    BY <2>5, CountedPage DEF SelectAlerts, SelectRanking, SelectUploads, Counted, Unchecked
  <2>6. CASE SelectReports
    <3>1. SelectFull("reports", walk.page * walk.size, "select") /\ "reports" \in Lists \ Counted
      BY <2>6 DEF SelectReports, Lists, Counted, Unchecked
    <3>2. QED BY <3>1, FullPage DEF Cut
  <2>7. CASE SelectLands
    <3> DEFINE next == Following("select")
    <3>1. SelectFull("lands", walk.page * walk.size, next) /\ "lands" \in Lists \ Counted
      BY <2>7 DEF SelectLands, Lists, Counted, Unchecked, Owned
    <3>2. next \in {"filter", "select", "stuck"} /\ (next = "filter" => walk.open)
      BY DEF Following
    <3> HIDE DEF next
    <3>3. QED BY <3>1, <3>2, FullPage DEF Cut
  <2>8. CASE SelectScenarios
    <3>1. SelectFull("scenarios", 0, "stuck") /\ "scenarios" \in Lists \ Counted
      BY <2>8 DEF SelectScenarios, Lists, Counted, Unchecked, Owned
    <3>2. walk.page = 0 /\ walk.size \in Nat
      BY <3>1, WalkSets DEF WalkInv, WalkShape, Walking, SelectFull
    <3>3. Cut = 0
      BY <3>2 DEF Cut
    <3>4. QED BY <3>1, <3>3, FullPage
  <2>9. ASSUME NEW i \in Items, NEW s \in 1..MaxStamp, GenerateReport(i, s)
        PROVE  WalkInv'
    <3>1. ACTIVE \in Kinds
      BY ListingAssumption DEF ACTIVE, Kinds
    <3>2. QED BY <2>9, <3>1, RowAdded DEF GenerateReport
  <2>10. ASSUME NEW i \in Items, NEW s \in 1..MaxStamp, NEW k \in Kinds, RowArrives(i, s, k)
         PROVE  WalkInv'
    BY <2>10, RowAdded DEF RowArrives
  <2>11. ASSUME NEW k \in Kinds, OtherGroupArrives(k) \/ Link(k) PROVE WalkInv'
    <3>1. /\ current' = k /\ UNCHANGED <<list, stamp, kind, walk>>
          /\ list = "ranking" => current < k
      BY <2>11 DEF OtherGroupArrives, Link, Owned
    <3>2. QED BY <3>1, CurrentMoves
  <2>12. ASSUME NEW i \in Items, Dismiss(i) PROVE WalkInv'
    BY <2>12, AlertDismissed
  <2>13. CASE UNCHANGED vars
    <3>1. /\ Rows' = Rows /\ Selected' = Selected /\ Distinct' = Distinct /\ Cut' = Cut
          /\ Unseen' = Unseen /\ Dismissals' = Dismissals /\ \A n : Matching(n)' = Matching(n)
      BY <2>13 DEF vars, Rows, Selected, Matching, Distinct, Cut, Unseen, Dismissals
    <3>2. Passed' = Passed
      BY <2>13, <3>1 DEF vars, Passed
    <3>3. WalkInv
      OBVIOUS
    <3>4. QED
      BY <2>13, <3>1, <3>2, <3>3
      DEF vars, WalkInv, TypeOK, WalkShape, FilterShape, LossExplained, SeenBeforeCut, Walking
  <2>14. QED
    BY <2>1, <2>2, <2>3, <2>4, <2>5, <2>6, <2>7, <2>8, <2>9, <2>10, <2>11, <2>12, <2>13 DEF Next
<1>3. QED BY <1>1, <1>2, PTL DEF Spec

\* The listings and the walks through them keep their types: what a walk got is
\* in the table, and the moves it can be excused with are bounded.
THEOREM ListingTypeCorrect == Spec => []TypeOK
BY WalkInvHolds, PTL DEF WalkInv

\* A walk that ended has seen every row there was when it began and under its filter
\* still, but for one row at most for each move, unless its open filter was another
\* one at a later page.
THEOREM LossesAreExplained == Spec => []SkippedRowsExplained
<1>1. WalkInv => SkippedRowsExplained
  <2> SUFFICES ASSUME WalkInv, walk.pc = "done", Distinct, walk.size > 0,
                      ~(walk.open /\ walk.switched)
               PROVE  Cardinality((IF walk.open THEN walk.start
                                   ELSE walk.start \intersect Matching(walk.kind)) \ walk.got)
                        <= walk.moves
    BY DEF SkippedRowsExplained
  <2>1. ~walk.switched
    BY DEF WalkInv, FilterShape
  <2>2. Cardinality(Unseen) <= walk.moves
    BY <2>1 DEF WalkInv, LossExplained
  <2>3. walk.open => walk.start \subseteq Selected
    BY <2>1 DEF WalkInv, FilterShape, WalkShape, Owned
  <2>4. (IF walk.open THEN walk.start
         ELSE walk.start \intersect Matching(walk.kind)) \ walk.got = Unseen
    BY <2>3 DEF Unseen, Selected
  <2>5. QED BY <2>2, <2>4
<1>2. QED BY <1>1, WalkInvHolds, PTL

\* Unless rows came under its filter, no walk sees a row twice, whatever is dismissed
\* under status=ACTIVE and whatever month or link comes to be the current one.
THEOREM RepeatsNeedArrivals == Spec => []RepeatsOnlyAfterArrivals
<1>1. WalkInv => RepeatsOnlyAfterArrivals
  BY DEF WalkInv, SeenBeforeCut, RepeatsOnlyAfterArrivals
<1>2. QED BY <1>1, WalkInvHolds, PTL
=============================================================================
