-------------------------- MODULE InductionLemmas --------------------------
(***************************************************************************)
(* Induction, recursion over an interval and sums over a finite set, in    *)
(* the form the proofs of the components use: about sets, never about      *)
(* operators.  The one source is that < is well founded on Nat.            *)
(***************************************************************************)
EXTENDS Integers, FiniteSets, Functions, WellFoundedInduction, FiniteSetTheorems, TLAPS

\* A non-empty set of natural numbers has a least element.
LEMMA LeastNat ==
    ASSUME NEW T \in SUBSET Nat, T # {}
    PROVE  \E x \in T : \A y \in T : x <= y
<1> DEFINE R == {ss \in Nat \X Nat : ss[1] < ss[2]}
<1>1. IsWellFoundedOn(R, Nat)
  BY NatLessThanWellFounded DEF OpToRel
<1>2. PICK x \in T : \A y \in T : <<y, x>> \notin R
  BY <1>1, WFMin
<1>3. ASSUME NEW y \in T, y < x PROVE FALSE
  <2>1. <<y, x>> \in Nat \X Nat
    OBVIOUS
  <2> QED  BY <1>2, <1>3, <2>1
<1> QED  BY <1>3

\* A non-empty set of integers that is bounded above has a greatest element.
LEMMA GreatestInt ==
    ASSUME NEW T \in SUBSET Int, T # {}, NEW b \in Int, \A y \in T : y <= b
    PROVE  \E x \in T : \A y \in T : x >= y
<1> DEFINE U == {n \in Nat : b - n \in T}
<1>1. U # {}
  <2>1. PICK y \in T : TRUE
    OBVIOUS
  <2>2. b - y \in Nat /\ b - (b - y) = y
    BY <2>1
  <2> QED  BY <2>1, <2>2
<1>2. PICK n \in U : \A m \in U : n <= m
  <2> HIDE DEF U
  <2>1. U \in SUBSET Nat
    BY DEF U
  <2> QED  BY <1>1, <2>1, LeastNat
<1>3. \A y \in T : b - n >= y
  <2> TAKE y \in T
  <2>1. b - y \in Nat /\ b - (b - y) = y
    OBVIOUS
  <2>2. b - y \in U
    BY <2>1
  <2>3. n <= b - y
    BY <1>2, <2>2
  <2> QED  BY <2>1, <2>3
<1> QED  BY <1>2, <1>3

\* Induction over the natural numbers.
LEMMA SetInduction ==
    ASSUME NEW S, 0 \in S, \A n \in Nat : n \in S => n + 1 \in S
    PROVE  Nat \subseteq S
<1> SUFFICES ASSUME Nat \ S # {} PROVE FALSE
  OBVIOUS
<1>1. PICK n \in Nat \ S : \A m \in Nat \ S : n <= m
  BY LeastNat
<1>2. n - 1 \in Nat /\ n - 1 \in S /\ (n - 1) + 1 = n
  BY <1>1
<1> QED  BY <1>1, <1>2

\* Recursion over an interval: what F makes of the value before it.
LEMMA IntervalRecursion ==
    ASSUME NEW V, NEW v0 \in V, NEW N \in Nat, NEW F \in [1 .. N -> [V -> V]]
    PROVE  \E g \in [0 .. N -> V] : g[0] = v0 /\ \A k \in 1 .. N : g[k] = F[k][g[k - 1]]
<1> DEFINE P(n, g) == g[0] = v0 /\ \A k \in 1 .. n : g[k] = F[k][g[k - 1]]
           S == {n \in Nat : n <= N => \E g \in [0 .. n -> V] : P(n, g)}
<1>1. 0 \in S
  <2>1. P(0, [i \in 0 .. 0 |-> v0])
    OBVIOUS
  <2> QED  BY <2>1
<1>2. ASSUME NEW n \in Nat, n \in S PROVE n + 1 \in S
  <2> SUFFICES ASSUME n + 1 <= N PROVE \E g \in [0 .. n + 1 -> V] : P(n + 1, g)
    OBVIOUS
  <2>1. PICK g \in [0 .. n -> V] : P(n, g)
    BY <1>2
  <2> DEFINE h == [i \in 0 .. n + 1 |-> IF i = n + 1 THEN F[n + 1][g[n]] ELSE g[i]]
  <2>2. h \in [0 .. n + 1 -> V]
    BY <2>1
  <2>3. P(n + 1, h)
    BY <2>1
  <2> QED  BY <2>2, <2>3
<1>3. Nat \subseteq S
  <2> HIDE DEF S
  <2> QED  BY <1>1, <1>2, SetInduction
<1> QED  BY <1>3

\* Induction over the subsets of a finite set.
LEMMA SubsetInduction ==
    ASSUME NEW S, IsFiniteSet(S), NEW P,
           \A s \in SUBSET S : (\A t \in SUBSET s : t # s => t \in P) => s \in P
    PROVE  SUBSET S \subseteq P
<1> SUFFICES ASSUME (SUBSET S) \ P # {} PROVE FALSE
  OBVIOUS
<1>1. IsWellFoundedOn(StrictSubsetOrdering(S), SUBSET S)
  <2>1. FiniteSubsetsOf(S) = SUBSET S
    BY FS_FiniteSubsetsOfFinite
  <2>2. IsWellFoundedOn(StrictSubsetOrdering(S), FiniteSubsetsOf(S))
    BY FS_StrictSubsetOrderingWellFounded
  <2> QED  BY <2>1, <2>2
<1>2. PICK s \in (SUBSET S) \ P : \A t \in (SUBSET S) \ P : <<t, s>> \notin StrictSubsetOrdering(S)
  <2> DEFINE T == (SUBSET S) \ P
  <2>1. T \subseteq SUBSET S /\ T # {}
    OBVIOUS
  <2> HIDE DEF T
  <2>2. \E s \in T : \A t \in T : ~(<<t, s>> \in StrictSubsetOrdering(S))
    BY <1>1, <2>1, WFMin
  <2> QED  BY <2>2 DEF T
<1>3. ASSUME NEW t \in SUBSET s, t # s PROVE t \in P
  <2>1. <<t, s>> \in StrictSubsetOrdering(S)
    BY <1>2, <1>3 DEF StrictSubsetOrdering
  <2> QED  BY <1>2, <2>1
<1> QED  BY <1>2, <1>3

-----------------------------------------------------------------------------
(* Sums *)

\* The element FoldFunctionOnSet takes out of a set.
Pick(s) == CHOOSE x \in s : TRUE

\* The partial sums that SumFunction goes through.
PartialSums(f, S) ==
    CHOOSE g : g = [s \in SUBSET S |-> IF s = {} THEN 0 ELSE f[Pick(s)] + g[s \ {Pick(s)}]]

\* SumFunction adds up over the whole domain.
LEMMA SumIsPartial ==
    ASSUME NEW S, NEW f, DOMAIN f = S PROVE SumFunction(f) = PartialSums(f, S)[S]
BY DEF SumFunction, SumFunctionOnSet, FoldFunctionOnSet, MapThenFoldSet, PartialSums, Pick

\* The recursion that defines the partial sums has a solution, of integers.
LEMMA PartialSumsExist ==
    ASSUME NEW S, IsFiniteSet(S), NEW f \in [S -> Int]
    PROVE  /\ PartialSums(f, S) \in [SUBSET S -> Int]
           /\ PartialSums(f, S)[{}] = 0
           /\ \A s \in SUBSET S : s # {} =>
                PartialSums(f, S)[s] = f[Pick(s)] + PartialSums(f, S)[s \ {Pick(s)}]
<1> DEFINE V == [SUBSET S -> Int]
           Sums(h) == [s \in SUBSET S |-> IF s = {} THEN 0 ELSE f[Pick(s)] + h[s \ {Pick(s)}]]
           N == Cardinality(S)
           F == [k \in 1 .. N |-> [h \in V |-> Sums(h)]]
           v0 == [s \in SUBSET S |-> 0]
<1>1. \A s \in SUBSET S : s # {} => Pick(s) \in s
  BY DEF Pick
<1>2. ASSUME NEW h \in V PROVE Sums(h) \in V
  BY <1>1
<1>3. N \in Nat /\ \A s \in SUBSET S : IsFiniteSet(s) /\ Cardinality(s) \in 0 .. N
  BY FS_CardinalityType, FS_Subset
<1>4. PICK G \in [0 .. N -> V] : G[0] = v0 /\ \A k \in 1 .. N : G[k] = F[k][G[k - 1]]
  <2>1. v0 \in V
    OBVIOUS
  <2> HIDE DEF V, v0, N, Sums
  <2>2. F \in [1 .. N -> [V -> V]]
    BY <1>2
  <2>3. N \in Nat
    BY <1>3
  <2> HIDE DEF F
  <2> QED  BY <2>1, <2>2, <2>3, IntervalRecursion
<1> DEFINE g == [s \in SUBSET S |-> IF s = {} THEN 0 ELSE G[Cardinality(s)][s]]
<1>5. ASSUME NEW s \in SUBSET S, s # {}
      PROVE  g[s] = f[Pick(s)] + g[s \ {Pick(s)}]
  <2> DEFINE x == Pick(s)
             k == Cardinality(s)
  <2>1. x \in s /\ s \ {x} \in SUBSET S
    BY <1>1, <1>5
  <2>2. k \in 1 .. N /\ k - 1 \in 0 .. N /\ Cardinality(s \ {x}) = k - 1
    <3>1. k \in 0 .. N /\ IsFiniteSet(s) /\ N \in Nat
      BY <1>3
    <3>2. k # 0
      BY <1>5, <3>1, FS_EmptySet
    <3>3. Cardinality(s \ {x}) = k - 1
      BY <2>1, <3>1, FS_RemoveElement
    <3> HIDE DEF k, N
    <3> QED  BY <3>1, <3>2, <3>3
  <2>3. G[k] = Sums(G[k - 1])
    BY <1>4, <2>2
  <2>4. g[s] = f[x] + G[k - 1][s \ {x}]
    BY <1>5, <2>3
  <2>5. CASE s \ {x} # {}
    BY <2>1, <2>2, <2>4, <2>5
  <2>6. CASE s \ {x} = {}
    <3>1. k - 1 = 0
      BY <2>2, <2>6, FS_EmptySet
    <3>2. G[0][{}] = 0
      BY <1>4
    <3> QED  BY <2>4, <2>6, <3>1, <3>2
  <2> QED  BY <2>5, <2>6
<1>6. g = Sums(g)
  BY <1>5
<1>7. PartialSums(f, S) = Sums(PartialSums(f, S))
  <2>1. \E h : h = Sums(h)
    BY <1>6
  <2> QED  BY <2>1 DEF PartialSums
<1>8. ASSUME NEW s \in SUBSET S PROVE PartialSums(f, S)[s] \in Int
  <2> DEFINE h == PartialSums(f, S)
             P == {t \in SUBSET S : h[t] \in Int}
  <2> HIDE DEF h
  <2>1. h = Sums(h)
    BY <1>7 DEF h
  <2>2. ASSUME NEW t \in SUBSET S, \A u \in SUBSET t : u # t => u \in P
        PROVE  t \in P
    <3>1. CASE t = {}
      BY <2>1, <3>1
    <3>2. CASE t # {}
      <4>1. Pick(t) \in t /\ t \ {Pick(t)} \in SUBSET t /\ t \ {Pick(t)} # t
        BY <1>1, <3>2
      <4>2. h[t \ {Pick(t)}] \in Int
        BY <2>2, <4>1
      <4>3. h[t] = f[Pick(t)] + h[t \ {Pick(t)}]
        BY <2>1, <3>2
      <4> QED  BY <4>1, <4>2, <4>3
    <3> QED  BY <3>1, <3>2
  <2>3. SUBSET S \subseteq P
    <3> HIDE DEF P
    <3> QED  BY <2>2, SubsetInduction
  <2> QED  BY <2>3 DEF h
<1> QED
  <2> DEFINE h == PartialSums(f, S)
  <2> HIDE DEF h
  <2>1. h = Sums(h) /\ \A s \in SUBSET S : h[s] \in Int
    BY <1>7, <1>8 DEF h
  <2>2. h \in [SUBSET S -> Int] /\ h[{}] = 0
    BY <2>1
  <2>3. ASSUME NEW s \in SUBSET S, s # {} PROVE h[s] = f[Pick(s)] + h[s \ {Pick(s)}]
    BY <2>1, <2>3
  <2> QED  BY <2>2, <2>3 DEF h

\* The order in which the elements are added does not matter.
LEMMA PartialSumsRemove ==
    ASSUME NEW S, IsFiniteSet(S), NEW f \in [S -> Int],
           NEW s \in SUBSET S, NEW x \in s
    PROVE  PartialSums(f, S)[s] = f[x] + PartialSums(f, S)[s \ {x}]
<1> DEFINE g == PartialSums(f, S)
           P == {t \in SUBSET S : \A y \in t : g[t] = f[y] + g[t \ {y}]}
<1> HIDE DEF g
<1>1. /\ \A t \in SUBSET S : g[t] \in Int
      /\ \A t \in SUBSET S : t # {} => g[t] = f[Pick(t)] + g[t \ {Pick(t)}]
  BY PartialSumsExist DEF g
<1>2. ASSUME NEW t \in SUBSET S, \A u \in SUBSET t : u # t => u \in P, NEW y \in t
      PROVE  g[t] = f[y] + g[t \ {y}]
  <2> DEFINE z == Pick(t)
  <2>1. z \in t
    BY <1>2 DEF Pick
  <2> HIDE DEF z
  <2>2. g[t] = f[z] + g[t \ {z}]
    BY <1>1 DEF z
  <2>3. CASE y = z
    BY <2>2, <2>3
  <2>4. CASE y # z
    <3>1. t \ {z} \in P /\ y \in t \ {z} /\ t \ {y} \in P /\ z \in t \ {y}
      BY <1>2, <2>1, <2>4
    <3>2. g[t \ {z}] = f[y] + g[(t \ {z}) \ {y}]
      BY <3>1
    <3>3. g[t \ {y}] = f[z] + g[(t \ {y}) \ {z}]
      BY <3>1
    <3>4. (t \ {y}) \ {z} = (t \ {z}) \ {y}
      OBVIOUS
    <3> DEFINE w == g[(t \ {z}) \ {y}]
    <3>5. f[y] \in Int /\ f[z] \in Int /\ w \in Int
      BY <1>1, <2>1
    <3>6. g[t] = f[z] + (f[y] + w)
      BY <2>2, <3>2
    <3>7. g[t \ {y}] = f[z] + w
      BY <3>3, <3>4
    <3> HIDE DEF w
    <3> QED  BY <3>5, <3>6, <3>7
  <2> QED  BY <2>3, <2>4
<1>3. SUBSET S \subseteq P
  <2>1. \A t \in SUBSET S : (\A u \in SUBSET t : u # t => u \in P) => t \in P
    BY <1>2
  <2> HIDE DEF P
  <2> QED  BY <2>1, SubsetInduction
<1> QED  BY <1>3 DEF g

\* Functions that are ordered pointwise have sums ordered the same way.
LEMMA PartialSumsMonotone ==
    ASSUME NEW S, IsFiniteSet(S), NEW f \in [S -> Int], NEW h \in [S -> Int],
           NEW s \in SUBSET S, \A x \in s : f[x] <= h[x]
    PROVE  PartialSums(f, S)[s] <= PartialSums(h, S)[s]
<1> DEFINE g == PartialSums(f, S)
           k == PartialSums(h, S)
           P == {t \in SUBSET S : (\A x \in t : f[x] <= h[x]) => g[t] <= k[t]}
<1> HIDE DEF g, k
<1>1. \A t \in SUBSET S : g[t] \in Int /\ k[t] \in Int
  <2>1. g \in [SUBSET S -> Int]
    BY PartialSumsExist DEF g
  <2>2. k \in [SUBSET S -> Int]
    BY PartialSumsExist DEF k
  <2> QED  BY <2>1, <2>2
<1>a. g[{}] = 0
  BY PartialSumsExist DEF g
<1>b. k[{}] = 0
  BY PartialSumsExist DEF k
<1>2. ASSUME NEW t \in SUBSET S, \A u \in SUBSET t : u # t => u \in P PROVE t \in P
  <2> SUFFICES ASSUME \A x \in t : f[x] <= h[x] PROVE g[t] <= k[t]
    OBVIOUS
  <2>1. CASE t = {}
    BY <1>a, <1>b, <2>1
  <2>2. CASE t # {}
    <3>1. PICK x \in t : TRUE
      BY <2>2
    <3>2. g[t \ {x}] <= k[t \ {x}]
      BY <1>2
    <3>3. g[t] = f[x] + g[t \ {x}]
      BY PartialSumsRemove DEF g
    <3>5. k[t] = h[x] + k[t \ {x}]
      BY PartialSumsRemove DEF k
    <3>4. f[x] \in Int /\ h[x] \in Int /\ g[t \ {x}] \in Int /\ k[t \ {x}] \in Int
      BY <1>1
    <3> QED  BY <3>2, <3>3, <3>4, <3>5
  <2> QED  BY <2>1, <2>2
<1>3. SUBSET S \subseteq P
  <2> HIDE DEF P
  <2> QED  BY <1>2, SubsetInduction
<1> QED  BY <1>3 DEF g, k

-----------------------------------------------------------------------------
(* What the proofs of the components use *)

\* A finite sum of integers is an integer.
LEMMA SumType ==
    ASSUME NEW S, IsFiniteSet(S), NEW f \in [S -> Int] PROVE SumFunction(f) \in Int
<1>1. SumFunction(f) = PartialSums(f, S)[S]
  BY SumIsPartial
<1>2. PartialSums(f, S) \in [SUBSET S -> Int]
  BY PartialSumsExist
<1> QED  BY <1>1, <1>2

\* A sum does not shrink when no value does.
LEMMA SumMonotone ==
    ASSUME NEW S, IsFiniteSet(S), NEW f \in [S -> Int], NEW h \in [S -> Int],
           \A x \in S : f[x] <= h[x]
    PROVE  SumFunction(f) <= SumFunction(h)
<1>1. SumFunction(f) = PartialSums(f, S)[S]
  BY SumIsPartial
<1>2. SumFunction(h) = PartialSums(h, S)[S]
  BY SumIsPartial
<1>3. PartialSums(f, S)[S] <= PartialSums(h, S)[S]
  BY PartialSumsMonotone
<1> QED  BY <1>1, <1>2, <1>3

\* A pointwise change of one value changes the sum by as much.
LEMMA SumChange ==
    ASSUME NEW S, IsFiniteSet(S), NEW f \in [S -> Int], NEW h \in [S -> Int],
           NEW x \in S, \A y \in S \ {x} : f[y] = h[y]
    PROVE  SumFunction(h) = SumFunction(f) - f[x] + h[x]
<1> DEFINE s == S \ {x}
           g == PartialSums(f, S)
           k == PartialSums(h, S)
<1>1. g[s] <= k[s]
  BY PartialSumsMonotone
<1>2. k[s] <= g[s]
  BY PartialSumsMonotone
<1>3. g[S] = f[x] + g[s]
  BY PartialSumsRemove
<1>4. k[S] = h[x] + k[s]
  BY PartialSumsRemove
<1>5. g[s] \in Int
  <2>1. g \in [SUBSET S -> Int]
    BY PartialSumsExist
  <2> QED  BY <2>1
<1>6. k[s] \in Int
  <2>1. k \in [SUBSET S -> Int]
    BY PartialSumsExist
  <2> QED  BY <2>1
<1>7. SumFunction(f) = g[S]
  BY SumIsPartial
<1>8. SumFunction(h) = k[S]
  BY SumIsPartial
<1> HIDE DEF g, k, s
<1> QED  BY <1>1, <1>2, <1>3, <1>4, <1>5, <1>6, <1>7, <1>8

\* A sum grows strictly when one value does and none shrinks.
LEMMA SumStrictlyMonotone ==
    ASSUME NEW S, IsFiniteSet(S), NEW f \in [S -> Int], NEW h \in [S -> Int],
           \A x \in S : f[x] <= h[x], NEW x \in S, f[x] < h[x]
    PROVE  SumFunction(f) < SumFunction(h)
<1> DEFINE m == [f EXCEPT ![x] = h[x]]
<1>1. m \in [S -> Int] /\ m[x] = h[x] /\ \A y \in S \ {x} : f[y] = m[y]
  OBVIOUS
<1>3. \A y \in S : m[y] <= h[y]
  BY <1>1
<1> HIDE DEF m
<1>2. SumFunction(m) = SumFunction(f) - f[x] + m[x]
  BY <1>1, SumChange
<1>4. SumFunction(m) <= SumFunction(h)
  BY <1>1, <1>3, SumMonotone
<1>5. SumFunction(f) \in Int /\ SumFunction(h) \in Int /\ SumFunction(m) \in Int
  BY <1>1, SumType
<1> QED  BY <1>1, <1>2, <1>4, <1>5

\* A sum of zeros is zero.
LEMMA SumZero ==
    ASSUME NEW S, IsFiniteSet(S), NEW z \in [S -> Int], \A x \in S : z[x] = 0
    PROVE  SumFunction(z) = 0
<1> DEFINE g == PartialSums(z, S)
           P == {t \in SUBSET S : g[t] = 0}
<1>2. g[{}] = 0
  BY PartialSumsExist
<1>3. \A t \in SUBSET S : \A x \in t : g[t] = z[x] + g[t \ {x}]
  BY PartialSumsRemove
<1>4. SumFunction(z) = g[S]
  BY SumIsPartial
<1> HIDE DEF g
<1>5. ASSUME NEW t \in SUBSET S, \A u \in SUBSET t : u # t => u \in P PROVE t \in P
  <2>1. CASE t = {}
    BY <1>2, <2>1
  <2>2. CASE t # {}
    <3>1. PICK x \in t : TRUE
      BY <2>2
    <3>2. g[t \ {x}] = 0 /\ z[x] = 0
      BY <1>5
    <3>3. g[t] = z[x] + g[t \ {x}]
      BY <1>3
    <3>4. g[t] = 0
      BY <3>2, <3>3
    <3> QED  BY <3>4
  <2> QED  BY <2>1, <2>2
<1>6. SUBSET S \subseteq P
  <2> HIDE DEF P
  <2> QED  BY <1>5, SubsetInduction
<1> QED  BY <1>4, <1>6

\* A sum of natural numbers is one.
LEMMA SumNat ==
    ASSUME NEW S, IsFiniteSet(S), NEW f \in [S -> Nat] PROVE SumFunction(f) \in Nat
<1> DEFINE z == [x \in S |-> 0]
<1>1. f \in [S -> Int] /\ z \in [S -> Int] /\ \A x \in S : z[x] = 0 /\ z[x] <= f[x]
  OBVIOUS
<1> HIDE DEF z
<1>2. SumFunction(f) \in Int
  BY <1>1, SumType
<1>3. SumFunction(z) <= SumFunction(f)
  BY <1>1, SumMonotone
<1>4. SumFunction(z) = 0
  BY <1>1, SumZero
<1> QED  BY <1>2, <1>3, <1>4

=============================================================================
