----------------------------- MODULE GepaProofs -----------------------------
(***************************************************************************)
(* Proofs, for every set of tokens, dataset, configuration and budget,     *)
(* that the pool of the GEPA library keeps its types, that its Pareto      *)
(* frontier covers it, that rated data teaches nothing, that the best only *)
(* improves and that the result is the head of the ranking.                *)
(***************************************************************************)
EXTENDS Gepa, InductionLemmas, SequenceTheorems

USE GepaAssumption

-----------------------------------------------------------------------------
(* Scores *)

\* The larger and the smaller of two integers.
LEMMA MaxOfTwo ==
    ASSUME NEW x \in Int, NEW y \in Int
    PROVE  Max({x, y}) \in {x, y} /\ Max({x, y}) >= x /\ Max({x, y}) >= y
BY ONLY x \in Int, y \in Int DEF Max

\* The same of the smaller one.
LEMMA MinOfTwo ==
    ASSUME NEW x \in Int, NEW y \in Int
    PROVE  Min({x, y}) \in {x, y} /\ Min({x, y}) <= x /\ Min({x, y}) <= y
BY ONLY x \in Int, y \in Int DEF Min

\* The fractions of the Unit the scores use.
LEMMA UnitFacts ==
    /\ Unit \in Nat /\ Unit \div 2 \in 0 .. Unit /\ Unit \div 10 \in 0 .. Unit
    /\ (0 * Unit) \div 2 = 0 /\ (2 * Unit) \div 2 = Unit /\ Unit \div 100 \in Int
<1>1. Unit \in Nat
  BY ScoreAssumption
<1>2. ASSUME NEW u \in Nat
      PROVE  /\ u \div 2 \in 0 .. u /\ u \div 10 \in 0 .. u /\ u \div 100 \in Int
             /\ (0 * u) \div 2 = 0 /\ (2 * u) \div 2 = u
  BY ONLY u \in Nat
<1> QED  BY ONLY <1>1, <1>2

\* A share of the Unit is between none and all of it.
LEMMA ShareBound ==
    ASSUME NEW x \in Nat, NEW n \in Nat, x <= n, n > 0
    PROVE  (Unit * x) \div n \in 0 .. Unit
<1> DEFINE u == Unit
           q == (u * x) \div n
           r == (u * x) % n
<1>0. u \in Nat
  BY UnitFacts
<1> HIDE DEF u
<1>1. u * x \in Int
  BY <1>0
<1>2. q \in Int /\ r \in 0 .. n - 1 /\ u * x = n * q + r
  <2> DEFINE y == u * x
  <2>1. y \in Int
    BY <1>1
  <2> HIDE DEF y
  <2>2. y \div n \in Int /\ y % n \in 0 .. n - 1 /\ y = n * (y \div n) + (y % n)
    BY ONLY <2>1, n \in Nat, n > 0
  <2> QED  BY <2>2 DEF y
<1> HIDE DEF q, r
<1>3. q >= 0
  <2> SUFFICES ASSUME q <= -1 PROVE FALSE
    BY <1>2
  <2>1. n * q <= n * (-1)
    BY ONLY <1>2, q <= -1, n \in Nat, n > 0
  <2>2. u * x >= 0
    BY ONLY <1>0, x \in Nat
  <2>3. n * q \in Int
    BY ONLY <1>2, n \in Nat
  <2> HIDE DEF q
  <2> QED  BY ONLY <1>1, <1>2, <2>1, <2>2, <2>3, n \in Nat
<1>4. q <= u
  <2> SUFFICES ASSUME q >= u + 1 PROVE FALSE
    BY <1>0, <1>2
  <2>1. n * q >= n * (u + 1)
    BY ONLY <1>0, <1>2, q >= u + 1, n \in Nat, n > 0
  <2>2. u * x <= u * n
    BY ONLY <1>0, x \in Nat, n \in Nat, x <= n
  <2>3. n * (u + 1) = u * n + n /\ u * n \in Int /\ n * q \in Int
    BY ONLY <1>0, <1>2, n \in Nat
  <2> QED  BY ONLY <1>1, <1>2, <2>1, <2>2, <2>3, n \in Nat, n > 0
<1> QED  BY <1>0, <1>2, <1>3, <1>4 DEF q, u

\* A similarity is a score.
LEMMA SimilarityType ==
    ASSUME NEW prompt \in Prompts, NEW input \in Prompts
    PROVE  similarityScore(prompt, input) \in 0 .. Unit
<1>1. CASE prompt = {} \/ input = {}
  BY <1>1, UnitFacts DEF similarityScore
<1>2. CASE prompt # {} /\ input # {}
  <2> DEFINE x == Cardinality(prompt \cap input)
             n == Cardinality(prompt)
  <2>1. IsFiniteSet(prompt) /\ prompt \cap input \subseteq prompt
    BY FS_Subset DEF Prompts
  <2>2. x \in Nat /\ n \in Nat /\ x <= n
    BY <2>1, FS_Subset, FS_CardinalityType
  <2>3. n # 0
    BY <1>2, <2>1, FS_EmptySet
  <2>4. similarityScore(prompt, input) = Max({Unit \div 10, (Unit * x) \div n})
    BY <1>2 DEF similarityScore
  <2> HIDE DEF x, n
  <2>5. (Unit * x) \div n \in 0 .. Unit
    BY <2>2, <2>3, ShareBound
  <2> DEFINE y == (Unit * x) \div n
             z == Unit \div 10
  <2>6. y \in 0 .. Unit /\ z \in 0 .. Unit /\ y \in Int /\ z \in Int
    BY <2>5, UnitFacts
  <2> HIDE DEF y, z
  <2>7. Max({z, y}) \in {z, y}
    BY <2>6, MaxOfTwo
  <2> QED  BY <2>4, <2>6, <2>7 DEF y, z
<1> QED  BY <1>1, <1>2

\* A score is between 0 and 1.
LEMMA ScorerType ==
    ASSUME NEW prompt \in Prompts, NEW d \in DataPoint
    PROVE  Score(prompt, d) \in 0 .. Unit
<1> SUFFICES FeedbackScorer(prompt, d) \in 0 .. Unit
  BY ScoreAssumption DEF Score
<1>1. CASE d.rating # 0
  <2>1. d.rating + 1 \in {0, 2}
    BY <1>1 DEF DataPoint
  <2>2. FeedbackScorer(prompt, d) = ((d.rating + 1) * Unit) \div 2
    BY <1>1 DEF FeedbackScorer
  <2>3. ((d.rating + 1) * Unit) \div 2 \in {0, Unit}
    BY <2>1, UnitFacts
  <2> QED  BY <2>2, <2>3, UnitFacts
<1>2. CASE d.rating = 0
  <2>1. d.input \in Prompts
    BY DEF DataPoint
  <2> QED  BY <1>2, <2>1, SimilarityType DEF FeedbackScorer
<1> QED  BY <1>1, <1>2

\* The scores of a prompt on some points of the dataset, and their sum.
LEMMA ScoresType ==
    ASSUME dataset \in Datasets, NEW prompt \in Prompts, NEW points \in SUBSET (DOMAIN dataset)
    PROVE  /\ ScoresOn(prompt, points) \in [points -> 0 .. Unit]
           /\ IsFiniteSet(points)
           /\ Total(ScoresOn(prompt, points)) \in Nat
<1>1. dataset \in Seq(DataPoint)
  OBVIOUS
<1>2. \A i \in points : dataset[i] \in DataPoint
  BY <1>1
<1>3. ScoresOn(prompt, points) \in [points -> 0 .. Unit]
  BY <1>2, ScorerType DEF ScoresOn
<1>4. IsFiniteSet(points)
  <2>1. DOMAIN dataset = 1 .. Len(dataset) /\ Len(dataset) \in Nat
    BY <1>1
  <2>2. IsFiniteSet(1 .. Len(dataset))
    BY <2>1, FS_Interval
  <2> QED  BY <2>1, <2>2, FS_Subset
<1> DEFINE f == ScoresOn(prompt, points)
<1> HIDE DEF f
<1>5. f \in [points -> Nat]
  <2>1. f \in [points -> 0 .. Unit] /\ 0 .. Unit \subseteq Nat
    BY <1>3, UnitFacts DEF f
  <2> QED  BY <2>1
<1>6. SumFunction(f) \in Nat
  BY <1>4, <1>5, SumNat
<1> QED  BY <1>3, <1>4, <1>6 DEF f, Total

-----------------------------------------------------------------------------
(* Pools: sequences of candidates with their scores on the Pareto set *)

Scored == [prompt : Prompts, parent : Nat, scores : [pareto -> 0 .. Unit], agg : Nat]

\* A pool with its derived scores.
PoolOK(p) ==
    /\ p \in Seq(Scored)
    /\ \A i \in DOMAIN p : p[i].agg = SumFunction(p[i].scores) /\ p[i].parent < i

\* The fields of a candidate.
LEMMA CandidateFacts ==
    ASSUME NEW p, PoolOK(p), NEW i \in DOMAIN p
    PROVE  /\ p[i] \in Scored /\ i \in Nat /\ p[i].agg \in Nat
           /\ p[i].scores \in [pareto -> 0 .. Unit] /\ p[i].scores \in [pareto -> Int]
           /\ p[i].agg = SumFunction(p[i].scores)
<1>1. p \in Seq(Scored) /\ DOMAIN p = 1 .. Len(p) /\ Len(p) \in Nat
  BY DEF PoolOK
<1>2. p[i] \in Scored /\ i \in Nat
  BY <1>1
<1>3. p[i].scores \in [pareto -> 0 .. Unit] /\ p[i].agg \in Nat
  BY <1>2 DEF Scored
<1>4. p[i].scores \in [pareto -> Int]
  <2>1. 0 .. Unit \subseteq Int
    BY UnitFacts
  <2> QED  BY <1>3, <2>1
<1> QED  BY <1>2, <1>3, <1>4 DEF PoolOK

\* The inductive invariant.
IInv ==
    /\ TypeOK
    /\ PoolOK(pool)
    /\ pareto \subseteq DOMAIN dataset /\ feedback \subseteq DOMAIN dataset
    /\ pc = "call" => pareto = {} /\ feedback = {}
    /\ pc \in {"call", "seed"} => pool = <<>>
    /\ pc = "seed" => pareto # {}
    /\ RatedDataTeachesNothing
    /\ ResultIsRanked

\* The Pareto set is finite, and no sum of scores exceeds one for all points.
LEMMA AggBound ==
    ASSUME IsFiniteSet(pareto), NEW p, PoolOK(p)
    PROVE  \E b \in Int : \A i \in DOMAIN p : p[i].agg <= b
<1> DEFINE full == [x \in pareto |-> Unit]
<1>1. full \in [pareto -> Int] /\ \A x \in pareto : full[x] = Unit
  BY UnitFacts
<1> HIDE DEF full
<1>2. SumFunction(full) \in Int
  BY <1>1, SumType
<1>3. ASSUME NEW i \in DOMAIN p PROVE p[i].agg <= SumFunction(full)
  <2> DEFINE f == p[i].scores
  <2>1. f \in [pareto -> 0 .. Unit] /\ f \in [pareto -> Int] /\ p[i].agg = SumFunction(f)
    BY CandidateFacts
  <2> HIDE DEF f
  <2>2. \A x \in pareto : f[x] <= full[x]
    BY <1>1, <2>1, UnitFacts
  <2>3. SumFunction(f) <= SumFunction(full)
    BY <1>1, <2>1, <2>2, SumMonotone
  <2> QED  BY <2>1, <2>3
<1> QED  BY <1>2, <1>3

\* Among some candidates of a pool there is one with the highest score.
LEMMA HighestExists ==
    ASSUME IsFiniteSet(pareto), NEW p, PoolOK(p), NEW I \in SUBSET (DOMAIN p), I # {}
    PROVE  \E i \in I : \A k \in I : p[i].agg >= p[k].agg
<1> DEFINE T == {p[i].agg : i \in I}
<1>1. PICK b \in Int : \A i \in DOMAIN p : p[i].agg <= b
  BY AggBound
<1>2. \A i \in DOMAIN p : p[i].agg \in Nat
  BY CandidateFacts
<1>3. T \in SUBSET Int /\ T # {} /\ \A y \in T : y <= b
  BY <1>1, <1>2
<1>4. PICK x \in T : \A y \in T : x >= y
  <2> HIDE DEF T
  <2> QED  BY <1>1, <1>3, GreatestInt
<1> QED  BY <1>4

\* What the scan of BestOf finds: nobody of I is ahead of it.
LEMMA BestOfFacts ==
    ASSUME IsFiniteSet(pareto), NEW p, PoolOK(p), NEW I \in SUBSET (DOMAIN p), I # {}
    PROVE  /\ BestOf(p, I) \in I
           /\ \A k \in I : ~Ahead(p, k, BestOf(p, I))
           /\ \A i \in I : (\A k \in I : ~Ahead(p, k, i)) => i = BestOf(p, I)
<1>0. \A i \in DOMAIN p : i \in Nat /\ p[i].agg \in Nat
  BY CandidateFacts
<1> DEFINE First(i) == \A k \in I : IF k < i THEN p[i].agg > p[k].agg ELSE p[i].agg >= p[k].agg
<1>1. PICK h \in I : \A k \in I : p[h].agg >= p[k].agg
  BY HighestExists
<1>2. PICK i \in {j \in I : p[j].agg = p[h].agg} : \A k \in {j \in I : p[j].agg = p[h].agg} : i <= k
  <2> DEFINE J == {j \in I : p[j].agg = p[h].agg}
  <2>1. J \in SUBSET Nat /\ J # {}
    BY <1>0, <1>1
  <2> HIDE DEF J
  <2>2. \E j \in J : \A k \in J : j <= k
    BY <2>1, LeastNat
  <2> QED  BY <2>2 DEF J
<1>3. First(i)
  <2> SUFFICES ASSUME NEW k \in I
               PROVE  IF k < i THEN p[i].agg > p[k].agg ELSE p[i].agg >= p[k].agg
    OBVIOUS
  <2>1. p[i].agg = p[h].agg /\ p[h].agg >= p[k].agg /\ p[i].agg \in Nat /\ p[k].agg \in Nat /\ i \in Nat /\ k \in Nat
    BY <1>0, <1>1, <1>2
  <2>2. p[k].agg = p[h].agg => i <= k
    BY <1>2
  <2> QED  BY <2>1, <2>2
<1>4. BestOf(p, I) = CHOOSE j \in I : First(j)
  BY DEF BestOf
<1>5. \A j \in I : First(j) <=> \A k \in I : ~Ahead(p, k, j)
  <2> TAKE j \in I
  <2>1. ASSUME NEW k \in I
        PROVE  (IF k < j THEN p[j].agg > p[k].agg ELSE p[j].agg >= p[k].agg) <=> ~Ahead(p, k, j)
    <3>1. p[j].agg \in Nat /\ p[k].agg \in Nat /\ j \in Nat /\ k \in Nat
      BY <1>0
    <3> QED  BY <3>1 DEF Ahead
  <2> QED  BY <2>1
<1>6. \A j, k \in I : First(j) /\ First(k) => j = k
  <2> SUFFICES ASSUME NEW j \in I, NEW k \in I, First(j), First(k) PROVE j = k
    OBVIOUS
  <2>1. p[j].agg \in Nat /\ p[k].agg \in Nat /\ j \in Nat /\ k \in Nat
    BY <1>0
  <2>2. IF k < j THEN p[j].agg > p[k].agg ELSE p[j].agg >= p[k].agg
    OBVIOUS
  <2>3. IF j < k THEN p[k].agg > p[j].agg ELSE p[k].agg >= p[j].agg
    OBVIOUS
  <2> QED  BY <2>1, <2>2, <2>3
<1> HIDE DEF First
<1> QED  BY <1>2, <1>3, <1>4, <1>5, <1>6

-----------------------------------------------------------------------------
(* The frontier *)

\* Who dominates a candidate has a higher score.
LEMMA DominatingIsHigher ==
    ASSUME IsFiniteSet(pareto), NEW p, PoolOK(p), NEW i \in DOMAIN p, NEW j \in DOMAIN p,
           dominates(p[j].scores, p[i].scores)
    PROVE  p[j].agg > p[i].agg
<1> DEFINE f == p[i].scores
           h == p[j].scores
<1>1. f \in [pareto -> Int] /\ p[i].agg = SumFunction(f)
  BY CandidateFacts
<1>2. h \in [pareto -> Int] /\ p[j].agg = SumFunction(h)
  BY CandidateFacts
<1>3. dominates(h, f)
  OBVIOUS
<1> HIDE DEF f, h
<1>4. PICK x \in pareto : f[x] < h[x]
  BY <1>1, <1>2, <1>3 DEF dominates
<1>5. \A y \in pareto : f[y] <= h[y]
  BY <1>1, <1>2, <1>3 DEF dominates
<1>6. SumFunction(f) < SumFunction(h)
  BY <1>1, <1>2, <1>4, <1>5, SumStrictlyMonotone
<1>7. SumFunction(f) \in Int
  BY <1>1, SumType
<1>8. SumFunction(h) \in Int
  BY <1>2, SumType
<1> QED  BY <1>1, <1>2, <1>6, <1>7, <1>8

\* Domination is transitive.
LEMMA DominatesTransitive ==
    ASSUME NEW p, PoolOK(p), NEW i \in DOMAIN p, NEW j \in DOMAIN p, NEW k \in DOMAIN p,
           dominates(p[k].scores, p[j].scores), dominates(p[j].scores, p[i].scores)
    PROVE  dominates(p[k].scores, p[i].scores)
<1> DEFINE f == p[i].scores
           g == p[j].scores
           h == p[k].scores
<1>1. f \in [pareto -> Int] /\ g \in [pareto -> Int] /\ h \in [pareto -> Int]
  BY CandidateFacts
<1>2. dominates(h, g) /\ dominates(g, f)
  OBVIOUS
<1> HIDE DEF f, g, h
<1>3. \A x \in pareto : h[x] >= g[x] /\ g[x] >= f[x] /\ h[x] \in Int /\ g[x] \in Int /\ f[x] \in Int
  BY <1>1, <1>2 DEF dominates
<1>4. PICK x \in pareto : h[x] > g[x]
  BY <1>1, <1>2 DEF dominates
<1>5. dominates(h, f)
  BY <1>1, <1>3, <1>4 DEF dominates
<1> QED  BY <1>5 DEF f, h

\* The best is on the frontier, and so is somebody who dominates each candidate
\* that is not.
LEMMA PoolIsCovered ==
    ASSUME IsFiniteSet(pareto), PoolOK(pool) PROVE FrontierCovers
<1> SUFFICES ASSUME pool # <<>>
             PROVE  /\ Best(pool) \in ParetoFrontier(pool)
                    /\ \A i \in DOMAIN pool \ ParetoFrontier(pool) :
                         \E j \in ParetoFrontier(pool) : dominates(pool[j].scores, pool[i].scores)
  BY DEF FrontierCovers
<1>0. \A i \in DOMAIN pool : pool[i].agg \in Nat
  BY CandidateFacts
<1>1. DOMAIN pool # {}
  BY DEF PoolOK
<1>2. Best(pool) \in ParetoFrontier(pool)
  <2> DEFINE b == Best(pool)
  <2>1. b \in DOMAIN pool /\ \A k \in DOMAIN pool : ~Ahead(pool, k, b)
    BY <1>1, BestOfFacts DEF Best
  <2> HIDE DEF b
  <2>2. ASSUME NEW j \in DOMAIN pool, dominates(pool[j].scores, pool[b].scores) PROVE FALSE
    <3>1. pool[j].agg > pool[b].agg
      BY <2>1, <2>2, DominatingIsHigher
    <3> QED  BY <2>1, <3>1 DEF Ahead
  <2> QED  BY <2>1, <2>2 DEF ParetoFrontier, b
<1>3. ASSUME NEW i \in DOMAIN pool, i \notin ParetoFrontier(pool)
      PROVE  \E j \in ParetoFrontier(pool) : dominates(pool[j].scores, pool[i].scores)
  <2> DEFINE D == {j \in DOMAIN pool : dominates(pool[j].scores, pool[i].scores)}
  <2>1. D \in SUBSET (DOMAIN pool) /\ D # {}
    BY <1>3 DEF ParetoFrontier
  <2>2. PICK j \in D : \A k \in D : pool[j].agg >= pool[k].agg
    <3> HIDE DEF D
    <3> QED  BY <2>1, HighestExists
  <2>3. ASSUME NEW k \in DOMAIN pool, dominates(pool[k].scores, pool[j].scores) PROVE FALSE
    <3>1. pool[k].agg > pool[j].agg
      BY <2>3, DominatingIsHigher
    <3>2. dominates(pool[k].scores, pool[i].scores)
      BY <2>3, DominatesTransitive
    <3>3. pool[j].agg >= pool[k].agg
      BY <2>2, <3>2
    <3> QED  BY <1>0, <3>1, <3>3
  <2>4. j \in ParetoFrontier(pool)
    BY <2>3 DEF ParetoFrontier
  <2> QED  BY <2>4
<1> QED  BY <1>2, <1>3

-----------------------------------------------------------------------------
(* topN *)

\* Ahead of the k-th of s are exactly the candidates before it.
Ranked(p, s) ==
    /\ s \in Seq(DOMAIN p)
    /\ \A k \in 1 .. Len(s) : \A j \in DOMAIN p :
         Ahead(p, j, s[k]) <=> \E h \in 1 .. k - 1 : s[h] = j

\* Of two candidates one is ahead.
LEMMA AheadIsTotal ==
    ASSUME NEW p, PoolOK(p), NEW i \in DOMAIN p, NEW j \in DOMAIN p, i # j
    PROVE  Ahead(p, i, j) \/ Ahead(p, j, i)
<1>1. i \in Nat /\ p[i].agg \in Nat /\ j \in Nat /\ p[j].agg \in Nat
  BY CandidateFacts
<1> QED  BY <1>1 DEF Ahead

\* The interval from 1 to n has n elements.
LEMMA FirstNumbers ==
    ASSUME NEW n \in Nat PROVE IsFiniteSet(1 .. n) /\ Cardinality(1 .. n) = n
<1>1. IsFiniteSet(1 .. n) /\ Cardinality(1 .. n) = IF 1 > n THEN 0 ELSE n - 1 + 1
  BY FS_Interval
<1> DEFINE c == Cardinality(1 .. n)
<1> HIDE DEF c
<1>2. c = IF 1 > n THEN 0 ELSE n - 1 + 1
  BY <1>1 DEF c
<1>3. c = n
  BY <1>2
<1> QED  BY <1>1, <1>3 DEF c

\* Fewer picks than candidates leave a candidate.
LEMMA SomeAreLeft ==
    ASSUME NEW p, PoolOK(p), NEW s \in Seq(DOMAIN p), Len(s) < Len(p)
    PROVE  DOMAIN p \ Range(s) # {}
<1> SUFFICES ASSUME DOMAIN p \subseteq Range(s) PROVE FALSE
  OBVIOUS
<1>1. DOMAIN p = 1 .. Len(p) /\ Len(p) \in Nat /\ DOMAIN s = 1 .. Len(s) /\ Len(s) \in Nat
  BY DEF PoolOK
<1>2. s \in Surjection(1 .. Len(s), Range(s))
  BY <1>1 DEF Surjection, Range
<1>3. IsFiniteSet(1 .. Len(s)) /\ Cardinality(1 .. Len(s)) = Len(s)
  BY <1>1, FirstNumbers
<1>4. IsFiniteSet(Range(s)) /\ Cardinality(Range(s)) <= Cardinality(1 .. Len(s))
  BY <1>2, <1>3, FS_Surjection
<1>5. Cardinality(1 .. Len(p)) = Len(p)
  BY <1>1, FirstNumbers
<1>6. Cardinality(DOMAIN p) <= Cardinality(Range(s))
  BY <1>4, FS_Subset
<1>7. Cardinality(Range(s)) \in Nat
  BY <1>4, FS_CardinalityType
<1> QED  BY <1>1, <1>3, <1>4, <1>5, <1>6, <1>7

\* A further scan extends the ranking.
LEMMA RankedExtends ==
    ASSUME IsFiniteSet(pareto), NEW p, PoolOK(p), NEW s, Ranked(p, s), Len(s) < Len(p)
    PROVE  LET t == Append(s, BestOf(p, DOMAIN p \ Range(s)))
           IN  Ranked(p, t) /\ Len(t) = Len(s) + 1
<1> DEFINE I == DOMAIN p \ Range(s)
           b == BestOf(p, I)
           t == Append(s, b)
           n == Len(s)
<1>0. s \in Seq(DOMAIN p) /\ n \in Nat /\ Range(s) = {s[h] : h \in 1 .. n}
  BY DEF Ranked, Range
<1>1. b \in DOMAIN p /\ b \notin Range(s) /\ \A k \in I : ~Ahead(p, k, b)
  <2>1. I \in SUBSET (DOMAIN p) /\ I # {}
    BY <1>0, SomeAreLeft
  <2> HIDE DEF I
  <2>2. b \in I /\ \A k \in I : ~Ahead(p, k, b)
    BY <2>1, BestOfFacts
  <2> QED  BY <2>2 DEF I
<1> HIDE DEF b
<1>2. /\ t \in Seq(DOMAIN p) /\ Len(t) = n + 1 /\ t[n + 1] = b
      /\ \A h \in 1 .. n : t[h] = s[h]
  BY <1>0, <1>1, AppendProperties
<1>3. ASSUME NEW j \in DOMAIN p PROVE Ahead(p, j, b) <=> j \in Range(s)
  <2>1. ASSUME Ahead(p, j, b) PROVE j \in Range(s)
    BY <1>1, <2>1
  <2>2. ASSUME j \in Range(s) PROVE Ahead(p, j, b)
    <3>1. PICK h \in 1 .. n : s[h] = j
      BY <1>0, <2>2
    <3>2. ~Ahead(p, b, j)
      <4>1. Ahead(p, b, s[h]) => \E g \in 1 .. h - 1 : s[g] = b
        BY <1>1 DEF Ranked
      <4>2. \A g \in 1 .. h - 1 : s[g] # b
        BY <1>0, <1>1
      <4> QED  BY <3>1, <4>1, <4>2
    <3>3. j # b
      BY <1>1, <2>2
    <3> QED  BY <1>1, <3>2, <3>3, AheadIsTotal
  <2> QED  BY <2>1, <2>2
<1> HIDE DEF t
<1>4. ASSUME NEW k \in 1 .. n + 1, NEW j \in DOMAIN p
      PROVE  Ahead(p, j, t[k]) <=> \E h \in 1 .. k - 1 : t[h] = j
  <2>1. CASE k = n + 1
    <3>1. j \in Range(s) <=> \E h \in 1 .. n : t[h] = j
      BY <1>0, <1>2
    <3>2. k - 1 = n
      BY <1>0, <2>1
    <3> QED  BY <1>2, <1>3, <2>1, <3>1, <3>2
  <2>2. CASE k # n + 1
    <3>1. k \in 1 .. n /\ \A h \in 1 .. k - 1 : h \in 1 .. n
      BY <1>0, <2>2
    <3>2. Ahead(p, j, s[k]) <=> \E h \in 1 .. k - 1 : s[h] = j
      BY <3>1 DEF Ranked
    <3> QED  BY <1>2, <3>1, <3>2
  <2> QED  BY <2>1, <2>2
<1>5. Ranked(p, t)
  BY <1>2, <1>4 DEF Ranked
<1> QED  BY <1>2, <1>5 DEF t, b

\* The rankings topN goes through on its way.
Rankings(p) ==
    CHOOSE out : out = [k \in 0 .. Len(p) |->
        IF k = 0 THEN <<>>
        ELSE LET picked == out[k - 1] IN Append(picked, BestOf(p, DOMAIN p \ Range(picked)))]

\* topN returns one of them.
LEMMA TopNIsRankings ==
    ASSUME NEW p, NEW n PROVE topN(p, n) = Rankings(p)[Min({Max({n, 0}), Len(p)})]
BY DEF topN, Rankings

\* The recursion that defines them has a solution.
LEMMA RankingsExist ==
    ASSUME NEW p, Len(p) \in Nat
    PROVE  /\ Rankings(p)[0] = <<>>
           /\ \A k \in 1 .. Len(p) :
                Rankings(p)[k] = Append(Rankings(p)[k - 1], BestOf(p, DOMAIN p \ Range(Rankings(p)[k - 1])))
<1> DEFINE N == Len(p)
           A == UNION {{BestOf(p, I)} : I \in SUBSET (DOMAIN p)}
           V == Seq(A)
           Longer(s) == Append(s, BestOf(p, DOMAIN p \ Range(s)))
           F == [k \in 1 .. N |-> [s \in V |-> Longer(s)]]
<1>1. \A s \in V : Longer(s) \in V
  <2> TAKE s \in V
  <2>1. BestOf(p, DOMAIN p \ Range(s)) \in A
    OBVIOUS
  <2> HIDE DEF A
  <2> QED  BY <2>1, AppendProperties
<1>2. <<>> \in V
  OBVIOUS
<1>3. F \in [1 .. N -> [V -> V]]
  BY <1>1
<1> HIDE DEF V, N, F
<1>4. PICK g \in [0 .. N -> V] : g[0] = <<>> /\ \A k \in 1 .. N : g[k] = F[k][g[k - 1]]
  <2> DEFINE start == <<>>
  <2>1. N \in Nat
    BY DEF N
  <2>3. start \in V
    BY <1>2
  <2> HIDE DEF start
  <2>2. \E g \in [0 .. N -> V] : g[0] = start /\ \A k \in 1 .. N : g[k] = F[k][g[k - 1]]
    BY ONLY <1>3, <2>1, <2>3, IntervalRecursion
  <2> QED  BY <2>2 DEF start
<1>5. \A k \in 1 .. N : k - 1 \in 0 .. N /\ g[k] = Longer(g[k - 1])
  <2> TAKE k \in 1 .. N
  <2>1. k - 1 \in 0 .. N
    BY DEF N
  <2>2. g[k - 1] \in V
    BY <2>1
  <2> HIDE DEF Longer
  <2> QED  BY <1>4, <2>1, <2>2 DEF F
<1> DEFINE H(out) == [k \in 0 .. N |-> IF k = 0 THEN <<>> ELSE Longer(out[k - 1])]
<1>6. g = H(g)
  <2> HIDE DEF Longer
  <2>1. \A k \in 0 .. N : k # 0 => k \in 1 .. N
    BY DEF N
  <2> QED  BY <1>4, <1>5, <2>1
<1>7. Rankings(p) = CHOOSE out : out = H(out)
  BY DEF Rankings, N
<1> HIDE DEF H
<1>8. Rankings(p) = H(Rankings(p))
  BY <1>6, <1>7
<1> DEFINE r == Rankings(p)
<1>9. r = H(r)
  BY <1>8
<1> HIDE DEF r
<1>10. r[0] = <<>> /\ \A k \in 1 .. N : r[k] = Longer(r[k - 1])
  <2>1. 0 \in 0 .. N /\ \A k \in 1 .. N : k \in 0 .. N /\ k # 0
    BY DEF N
  <2> HIDE DEF Longer
  <2>2. r = [k \in 0 .. N |-> IF k = 0 THEN <<>> ELSE Longer(r[k - 1])]
    BY <1>9 DEF H
  <2> QED  BY <2>1, <2>2
<1> QED  BY <1>10 DEF r, N

\* topN returns the head of the ranking, as long as asked for.
LEMMA TopNIsRanked ==
    ASSUME IsFiniteSet(pareto), NEW p, PoolOK(p), NEW n \in Int
    PROVE  Ranked(p, topN(p, n)) /\ Len(topN(p, n)) = Min({Max({n, 0}), Len(p)})
<1> DEFINE r == Rankings(p)
           N == Len(p)
           S == {k \in Nat : k <= N => Ranked(p, r[k]) /\ Len(r[k]) = k}
<1>0. N \in Nat
  BY DEF PoolOK
<1>1. r[0] = <<>> /\ \A k \in 1 .. N : r[k] = Append(r[k - 1], BestOf(p, DOMAIN p \ Range(r[k - 1])))
  BY <1>0, RankingsExist
<1> HIDE DEF r
<1>2. 0 \in S
  <2>1. <<>> \in Seq(DOMAIN p) /\ Len(<<>>) = 0 /\ 1 .. 0 = {}
    OBVIOUS
  <2>2. Ranked(p, <<>>)
    BY <2>1 DEF Ranked
  <2> QED  BY <1>1, <2>1, <2>2
<1>3. ASSUME NEW k \in Nat, k \in S PROVE k + 1 \in S
  <2> SUFFICES ASSUME k + 1 <= N PROVE Ranked(p, r[k + 1]) /\ Len(r[k + 1]) = k + 1
    OBVIOUS
  <2> DEFINE s == r[k]
  <2>1. Ranked(p, s) /\ Len(s) = k /\ Len(s) < Len(p)
    BY <1>0, <1>3
  <2>2. k + 1 \in 1 .. N /\ (k + 1) - 1 = k
    BY <1>0
  <2>3. r[k + 1] = Append(s, BestOf(p, DOMAIN p \ Range(s)))
    BY <1>1, <2>2
  <2> HIDE DEF s, N
  <2>4. Ranked(p, Append(s, BestOf(p, DOMAIN p \ Range(s)))) /\ Len(Append(s, BestOf(p, DOMAIN p \ Range(s)))) = Len(s) + 1
    BY <2>1, RankedExtends
  <2> QED  BY <2>1, <2>3, <2>4
<1>4. Nat \subseteq S
  <2> HIDE DEF S
  <2> QED  BY <1>2, <1>3, SetInduction
<1> DEFINE x == Max({n, 0})
           m == Min({x, N})
<1>5. x \in Nat
  <2>1. x \in {n, 0} /\ x >= 0
    BY MaxOfTwo, 0 \in Int
  <2> HIDE DEF x
  <2> QED  BY <2>1
<1> HIDE DEF x, N
<1>6. m \in Nat /\ m <= N
  <2>1. m \in {x, N} /\ m <= N
    BY <1>0, <1>5, MinOfTwo, x \in Int, N \in Int
  <2> HIDE DEF m
  <2> QED  BY <1>0, <1>5, <2>1
<1>7. topN(p, n) = r[m]
  BY TopNIsRankings DEF r, x, N
<1> HIDE DEF m
<1>8. Ranked(p, r[m]) /\ Len(r[m]) = m
  BY <1>4, <1>6
<1> QED  BY <1>7, <1>8 DEF m, x, N

-----------------------------------------------------------------------------
(* What the steps of Run add to the pool *)

\* The Pareto set is part of the dataset, and finite.
LEMMA ParetoIsFinite ==
    ASSUME dataset \in Datasets, pareto \subseteq DOMAIN dataset
    PROVE  IsFiniteSet(pareto)
<1>1. dataset \in Seq(DataPoint)
  OBVIOUS
<1>2. DOMAIN dataset = 1 .. Len(dataset) /\ Len(dataset) \in Nat
  BY <1>1
<1>3. IsFiniteSet(1 .. Len(dataset))
  BY <1>2, FirstNumbers
<1> QED  BY <1>2, <1>3, FS_Subset

\* A new candidate at the end of a pool makes a pool.
LEMMA AddFacts ==
    ASSUME dataset \in Datasets, pareto \subseteq DOMAIN dataset, PoolOK(pool),
           NEW prompt \in Prompts, NEW parent \in 0 .. Len(pool)
    PROVE  PoolOK(Append(pool, Candidate(prompt, parent)))
<1> DEFINE c == Candidate(prompt, parent)
           q == Append(pool, c)
           N == Len(pool)
           f == ScoresOn(prompt, pareto)
<1>1. pool \in Seq(Scored) /\ N \in Nat /\ DOMAIN pool = 1 .. N
  BY DEF PoolOK
<1>2. f \in [pareto -> 0 .. Unit] /\ Total(f) \in Nat
  BY ScoresType
<1>3. c = [prompt |-> prompt, parent |-> parent, scores |-> f, agg |-> Total(f)]
  BY DEF Candidate
<1> HIDE DEF f
<1>4. c \in Scored /\ c.agg = SumFunction(c.scores) /\ c.parent = parent
  BY <1>1, <1>2, <1>3 DEF Scored, Total
<1> HIDE DEF c
<1>5. q \in Seq(Scored) /\ DOMAIN q = 1 .. N + 1 /\ q[N + 1] = c /\ \A i \in 1 .. N : q[i] = pool[i]
  BY <1>1, <1>4, AppendProperties
<1> HIDE DEF q
<1>6. ASSUME NEW i \in DOMAIN q PROVE q[i].agg = SumFunction(q[i].scores) /\ q[i].parent < i
  <2>1. CASE i = N + 1
    BY <1>1, <1>4, <1>5, <2>1
  <2>2. CASE i # N + 1
    <3>1. i \in 1 .. N /\ q[i] = pool[i]
      BY <1>1, <1>5, <2>2
    <3> QED  BY <1>1, <3>1 DEF PoolOK
  <2> QED  BY <2>1, <2>2
<1>7. PoolOK(q)
  BY <1>5, <1>6 DEF PoolOK
<1> QED  BY <1>7 DEF q, c

\* The children of a candidate are prompts.
LEMMA ChildType ==
    ASSUME PoolOK(pool), NEW i \in DOMAIN pool,
           NEW prompt \in ChildPrompts(ParetoFrontier(pool), pool[i])
    PROVE  prompt \in Prompts
<1>1. pool[i].prompt \in Prompts
  BY CandidateFacts DEF Scored
<1> QED  BY <1>1 DEF ChildPrompts, Mutate, Crossover, Complete

\* A minibatch is drawn from the source.
LEMMA BatchType ==
    ASSUME NEW batch \in Minibatches PROVE batch \subseteq Source
BY DEF Minibatches, kSubset

\* On rated points no child improves on its parent.
LEMMA RatedNeverImproves ==
    ASSUME dataset \in Datasets, cfg \in Config, NEW batch \in SUBSET (DOMAIN dataset),
           \A i \in batch : dataset[i].rating # 0, cfg.Scorer = "nil", cfg.MinDelta >= 0,
           NEW child \in Prompts, NEW parent \in Prompts
    PROVE  ~Improves(child, parent, batch)
<1>1. ScoresOn(child, batch) = ScoresOn(parent, batch)
  BY DEF ScoresOn, Score, FeedbackScorer
<1> DEFINE x == Total(ScoresOn(parent, batch))
           y == cfg.MinDelta
           z == Cardinality(batch)
<1>2. x \in Nat /\ IsFiniteSet(batch)
  BY ScoresType
<1>3. y \in Nat /\ z \in Nat
  BY <1>2, FS_CardinalityType DEF Config
<1>4. Improves(child, parent, batch) <=> x > x + y * z
  BY <1>1 DEF Improves
<1> HIDE DEF x, y, z
<1>5. y * z \in Nat
  BY <1>3
<1> QED  BY <1>2, <1>4, <1>5

\* A step leaves the pool alone or adds a candidate; the scores stay what they are.
LEMMA PoolGrows ==
    ASSUME IInv, Next
    PROVE  \/ pool' = pool
           \/ \E c : pool' = Append(pool, c) /\ PoolOK(Append(pool, c))
<1>0. dataset \in Datasets /\ pareto \subseteq DOMAIN dataset /\ PoolOK(pool)
  BY DEF IInv, TypeOK
<1>1. Len(pool) \in Nat /\ DOMAIN pool = 1 .. Len(pool)
  BY <1>0 DEF PoolOK
<1>2. CASE RunSeed
  <2>1. PICK prompt \in Prompts : pool' = Append(pool, Candidate(prompt, 0))
    BY <1>2 DEF RunSeed, Add
  <2>2. PoolOK(Append(pool, Candidate(prompt, 0)))
    BY <1>0, <1>1, AddFacts
  <2> QED  BY <2>1, <2>2
<1>3. CASE Rollout
  <2>1. PICK i \in ParetoFrontier(pool) :
             \E prompt \in ChildPrompts(ParetoFrontier(pool), pool[i]) :
                pool' = Append(pool, Candidate(prompt, i)) \/ pool' = pool
    BY <1>3 DEF Rollout, Add, SampleFromFrontier
  <2>2. PICK prompt \in ChildPrompts(ParetoFrontier(pool), pool[i]) :
                pool' = Append(pool, Candidate(prompt, i)) \/ pool' = pool
    BY <2>1
  <2>3. i \in DOMAIN pool /\ i \in 0 .. Len(pool)
    BY <1>1, <2>1 DEF ParetoFrontier
  <2>4. prompt \in Prompts
    BY <1>0, <2>2, <2>3, ChildType
  <2>5. PoolOK(Append(pool, Candidate(prompt, i)))
    BY <1>0, <2>3, <2>4, AddFacts
  <2> QED  BY <2>2, <2>5
<1> QED  BY <1>2, <1>3 DEF Next, RunNoData, RunSplit, RunReturn

\* Nor does it add one when all that minibatches are drawn from is rated.
LEMMA RatedAddsNothing ==
    ASSUME IInv, Rollout, \A i \in Source : dataset[i].rating # 0,
           cfg.Scorer = "nil", cfg.MinDelta >= 0
    PROVE  pool' = pool
<1>0. dataset \in Datasets /\ cfg \in Config /\ PoolOK(pool)
  BY DEF IInv, TypeOK
<1>1. PICK i \in ParetoFrontier(pool), batch \in Minibatches :
             \E prompt \in ChildPrompts(ParetoFrontier(pool), pool[i]) :
                Improves(prompt, pool[i].prompt, batch) \/ pool' = pool
  BY DEF Rollout, SampleFromFrontier
<1>2. PICK prompt \in ChildPrompts(ParetoFrontier(pool), pool[i]) :
                Improves(prompt, pool[i].prompt, batch) \/ pool' = pool
  BY <1>1
<1>3. i \in DOMAIN pool
  BY DEF ParetoFrontier
<1>4. prompt \in Prompts
  BY <1>0, <1>2, <1>3, ChildType
<1>5. pool[i].prompt \in Prompts
  BY <1>0, <1>3, CandidateFacts DEF Scored
<1>6. batch \subseteq Source
  BY <1>1, BatchType
<1>7. batch \in SUBSET (DOMAIN dataset) /\ \A k \in batch : dataset[k].rating # 0
  BY <1>6 DEF Source, IInv
<1>8. ~Improves(prompt, pool[i].prompt, batch)
  BY <1>0, <1>4, <1>5, <1>7, RatedNeverImproves
<1> QED  BY <1>2, <1>8

-----------------------------------------------------------------------------
(* The invariant *)

\* New fills in the defaults and keeps the types.
LEMMA NewType ==
    ASSUME NEW c \in Config PROVE New(c) \in Config
<1>1. /\ c.RolloutBudget \in Int /\ c.MinibatchSize \in Int /\ c.ParetoPercent \in Int
      /\ c.MinDelta \in Int /\ c.TopN \in Int
  BY DEF Config
<1>2. \A x, d \in Int : OrDefault(x, d) \in Int
  BY DEF OrDefault
<1>4. Unit \div 100 \in Int /\ DefaultBudget \in Int /\ 5 \in Int /\ 30 \in Int /\ 3 \in Int
  BY UnitFacts
<1>5. /\ OrDefault(c.RolloutBudget, DefaultBudget) \in Int
      /\ OrDefault(c.MinibatchSize, 5) \in Int
      /\ OrDefault(c.ParetoPercent, 30) \in Int
      /\ OrDefault(c.MinDelta, Unit \div 100) \in Int
      /\ OrDefault(c.TopN, 3) \in Int
  BY ONLY <1>1, <1>2, <1>4
<1> QED  BY ONLY <1>5, c \in Config DEF Config, New

\* It holds when Run is called.
LEMMA InitInv == Init => IInv
<1> SUFFICES ASSUME Init PROVE IInv
  OBVIOUS
<1>1. cfg \in Config
  BY NewType DEF Init
<1>2. pool = <<>> /\ DOMAIN pool = {} /\ Len(pool) = 0 /\ pool \in Seq(Scored)
  BY DEF Init
<1>3. PoolOK(pool)
  BY <1>2 DEF PoolOK
<1>4. TypeOK
  BY <1>1, <1>2 DEF Init, TypeOK
<1>5. RatedDataTeachesNothing
  BY <1>2 DEF RatedDataTeachesNothing
<1>6. ResultIsRanked
  BY DEF ResultIsRanked, Init
<1> QED  BY <1>3, <1>4, <1>5, <1>6 DEF IInv, Init

\* A pool of candidates with their scores has the types TypeOK asks for.
LEMMA PoolTypes ==
    ASSUME PoolOK(pool), NEW i \in DOMAIN pool
    PROVE  /\ pool[i].prompt \in Prompts
           /\ pool[i].parent \in 0 .. i - 1
           /\ pool[i].scores \in [pareto -> 0 .. Unit]
<1>1. pool[i] \in Scored /\ i \in Nat
  BY CandidateFacts
<1>2. pool[i].parent < i
  BY DEF PoolOK
<1> QED  BY <1>1, <1>2 DEF Scored

\* Splitting the dataset leaves no Pareto set empty.
LEMMA SplitStep ==
    ASSUME IInv, RunSplit PROVE IInv'
<1>1. PICK S \in Splits : /\ pareto' = IF S = {} THEN DOMAIN dataset ELSE S
                          /\ feedback' = DOMAIN dataset \ S
  BY DEF RunSplit
<1>2. pool = <<>> /\ pool' = <<>> /\ pc' = "seed" /\ UNCHANGED <<cfg, dataset, rollout, result>> /\ dataset # <<>>
  BY DEF RunSplit, IInv
<1>3. DOMAIN dataset = 1 .. Len(dataset) /\ Len(dataset) \in Nat /\ DOMAIN dataset # {}
  <2>1. dataset \in Seq(DataPoint)
    BY DEF IInv, TypeOK
  <2>2. Len(dataset) \in Nat /\ DOMAIN dataset = 1 .. Len(dataset)
    BY <2>1
  <2>3. Len(dataset) # 0
    BY <1>2, <2>1, EmptySeq
  <2> DEFINE n == Len(dataset)
  <2>4. n \in Nat /\ n # 0
    BY <2>2, <2>3
  <2> HIDE DEF n
  <2>5. 1 \in 1 .. n
    BY <2>4
  <2> QED  BY <2>2, <2>5 DEF n
<1>4. S \subseteq DOMAIN dataset
  BY DEF Splits, kSubset
<1>5. S # {}
  <2> SUFFICES ASSUME S = {} PROVE FALSE
    OBVIOUS
  <2>1. cfg.ParetoPercent \in 1 .. 99 /\ Cardinality(S) = Cutoff
    BY <1>3 DEF Splits, kSubset
  <2>2. Cardinality(S) = 0
    BY FS_EmptySet
  <2> DEFINE y == Len(dataset) * cfg.ParetoPercent
             x == y \div 100
  <2>3. x \in Int /\ 1 \in Int
    <3>1. y \in Int
      <4>1. \A i \in Nat : \A k \in 1 .. 99 : i * k \in Int
        OBVIOUS
      <4> QED  BY ONLY <1>3, <2>1, <4>1
    <3> HIDE DEF y
    <3> QED  BY <3>1
  <2>4. Cutoff = Max({1, x})
    BY DEF Cutoff
  <2> HIDE DEF x
  <2>5. Max({1, x}) >= 1
    BY <2>3, MaxOfTwo
  <2>6. Max({1, x}) = 0
    BY <2>1, <2>2, <2>4
  <2> QED  BY <2>5, <2>6
<1>6. pareto' = S /\ feedback' = DOMAIN dataset \ S
  BY <1>1, <1>5
<1>7. DOMAIN pool' = {} /\ Len(pool') = 0 /\ pool' \in Seq(Scored')
  BY <1>2
<1>8. PoolOK(pool)'
  BY <1>7 DEF PoolOK
<1>9. TypeOK'
  BY <1>2, <1>4, <1>6, <1>7 DEF TypeOK, IInv
<1>10. RatedDataTeachesNothing'
  BY <1>7 DEF RatedDataTeachesNothing
<1>11. ResultIsRanked'
  BY <1>2 DEF ResultIsRanked
<1> QED  BY <1>2, <1>4, <1>5, <1>6, <1>8, <1>9, <1>10, <1>11 DEF IInv

\* A step that may add a candidate and leaves the rest of Run's state alone.
LEMMA GrowStep ==
    ASSUME IInv, RunSeed \/ Rollout PROVE IInv'
<1>1. pc' = "loop" /\ UNCHANGED <<cfg, dataset, pareto, feedback, result>> /\ pareto # {} /\ pc \in {"seed", "loop"}
  BY DEF RunSeed, Rollout, IInv, TypeOK
<1>2. rollout' \in Nat
  BY DEF RunSeed, Rollout, Count, IInv, TypeOK
<1>3. pool \in Seq(Scored) /\ Len(pool) \in Nat /\ PoolOK(pool)
  BY DEF IInv, PoolOK
<1>4. pool' = pool \/ \E c : pool' = Append(pool, c) /\ PoolOK(Append(pool, c))
  BY PoolGrows DEF Next
<1>5. PoolOK(pool')
  BY <1>3, <1>4
<1>6. PoolOK(pool)'
  BY <1>1, <1>5 DEF PoolOK, Scored
<1>7. Len(pool') \in Nat /\ Len(pool') >= Len(pool) /\ Len(pool') <= Len(pool) + 1
  <2>1. CASE pool' = pool
    BY <1>3, <2>1
  <2>2. CASE \E c : pool' = Append(pool, c) /\ PoolOK(Append(pool, c))
    BY <1>3, <2>2
  <2> QED  BY <1>4, <2>1, <2>2
<1>8. pool' # <<>>
  <2>1. CASE pool' = pool
    <3>1. Rollout
      <4>1. ASSUME RunSeed PROVE FALSE
        <5>1. PICK c : pool' = Append(pool, c)
          BY <4>1 DEF RunSeed, Add
        <5>2. pool = <<>>
          BY <4>1 DEF RunSeed, IInv
        <5>3. <<>> \in Seq({c})
          OBVIOUS
        <5>4. Append(<<>>, c) # <<>>
          BY <5>3, AppendProperties
        <5> QED  BY <2>1, <5>1, <5>2, <5>4
      <4> QED  BY <4>1
    <3> QED  BY <2>1, <3>1 DEF Rollout, IInv, TypeOK
  <2>2. CASE \E c : pool' = Append(pool, c) /\ PoolOK(Append(pool, c))
    BY <1>3, <2>2
  <2> QED  BY <1>4, <2>1, <2>2
<1>9. RatedDataTeachesNothing'
  <2> SUFFICES ASSUME \A i \in Source : dataset[i].rating # 0, cfg.Scorer = "nil", cfg.MinDelta >= 0
               PROVE  Len(pool') <= 1
    BY <1>1 DEF RatedDataTeachesNothing, Source
  <2>1. CASE RunSeed
    <3>1. pool = <<>> /\ Len(pool) = 0
      BY <2>1 DEF RunSeed, IInv
    <3> QED  BY <1>7, <3>1
  <2>2. CASE Rollout
    <3>1. pool' = pool
      BY <2>2, RatedAddsNothing
    <3> QED  BY <3>1 DEF IInv, RatedDataTeachesNothing
  <2> QED  BY <2>1, <2>2
<1>10. ResultIsRanked'
  BY <1>1 DEF ResultIsRanked
<1>11. \A i \in DOMAIN pool' : /\ pool'[i].prompt \in Prompts
                               /\ pool'[i].parent \in 0 .. i - 1
                               /\ pool'[i].scores \in [pareto -> 0 .. Unit]
  <2> TAKE i \in DOMAIN pool'
  <2> DEFINE p == pool'
  <2>1. PoolOK(p) /\ i \in DOMAIN p
    BY <1>5
  <2> HIDE DEF p
  <2>2. p[i] \in Scored /\ i \in Nat
    BY <2>1, CandidateFacts
  <2>3. p[i].parent < i
    BY <2>1 DEF PoolOK
  <2>4. /\ p[i].prompt \in Prompts
        /\ p[i].parent \in 0 .. i - 1
        /\ p[i].scores \in [pareto -> 0 .. Unit]
    BY <2>2, <2>3 DEF Scored
  <2> QED  BY <2>4 DEF p
<1>12. result.best \in 0 .. Len(pool')
  BY <1>3, <1>7 DEF IInv, TypeOK
<1>13. TypeOK'
  BY <1>1, <1>2, <1>8, <1>11, <1>12 DEF TypeOK, IInv
<1> QED  BY <1>1, <1>6, <1>9, <1>10, <1>13 DEF IInv

\* What Run returns is ranked.
LEMMA ReturnStep ==
    ASSUME IInv, RunReturn PROVE IInv'
<1> DEFINE top == topN(pool, cfg.TopN)
           b == Best(pool)
           m == Min({Max({cfg.TopN, 0}), Len(pool)})
<1>1. /\ pc' = "done" /\ UNCHANGED <<cfg, dataset, pareto, feedback, pool, rollout>>
      /\ result' = [candidates |-> top, best |-> b]
      /\ pool # <<>> /\ pareto # {}
  BY DEF RunReturn, IInv, TypeOK
<1>2. PoolOK(pool) /\ IsFiniteSet(pareto) /\ cfg.TopN \in Int
  BY ParetoIsFinite DEF IInv, TypeOK, Config
<1>3. pool \in Seq(Scored) /\ DOMAIN pool = 1 .. Len(pool) /\ Len(pool) \in Nat /\ DOMAIN pool # {}
  BY <1>1 DEF IInv, PoolOK
<1>4. Ranked(pool, top) /\ Len(top) = m
  BY <1>2, TopNIsRanked
<1>5. b \in DOMAIN pool /\ \A k \in DOMAIN pool : ~Ahead(pool, k, b)
  BY <1>2, <1>3, BestOfFacts DEF Best
<1>6. result'.candidates = top /\ result'.best = b
  BY <1>1
<1> HIDE DEF top, b, m
<1>7. top \in Seq(DOMAIN pool) /\ DOMAIN top = 1 .. Len(top)
  BY <1>4 DEF Ranked
<1>8. \A k \in DOMAIN top : /\ top[k] \in DOMAIN pool
                            /\ \A j \in DOMAIN pool : Ahead(pool, j, top[k]) <=> \E h \in 1 .. k - 1 : top[h] = j
  BY <1>4, <1>7 DEF Ranked
<1>9. ResultIsRanked'
  <2>2. Len(result'.candidates) = Min({Max({cfg'.TopN, 0}), Len(pool')})
    BY <1>1, <1>4, <1>6 DEF m
  <2>3. \A k \in DOMAIN result'.candidates :
             /\ result'.candidates[k] \in DOMAIN pool'
             /\ \A j \in DOMAIN pool' :
                  Ahead(pool', j, result'.candidates[k]) <=> \E h \in 1 .. k - 1 : result'.candidates[h] = j
    BY <1>1, <1>6, <1>8
  <2>4. result'.best \in DOMAIN pool' /\ \A j \in DOMAIN pool' : ~Ahead(pool', j, result'.best)
    BY <1>1, <1>5, <1>6
  <2> QED  BY <2>2, <2>3, <2>4 DEF ResultIsRanked
<1>10. b \in 0 .. Len(pool)
  BY <1>3, <1>5
<1>11. TypeOK'
  BY <1>1, <1>6, <1>10 DEF TypeOK, IInv
<1>12. PoolOK(pool)'
  BY <1>1 DEF PoolOK, Scored, IInv
<1>13. RatedDataTeachesNothing'
  BY <1>1 DEF RatedDataTeachesNothing, Source, IInv
<1> QED  BY <1>1, <1>9, <1>11, <1>12, <1>13 DEF IInv

\* Every step keeps the invariant.
LEMMA NextInv == IInv /\ [Next]_vars => IInv'
<1> SUFFICES ASSUME IInv, [Next]_vars PROVE IInv'
  OBVIOUS
<1>1. CASE RunNoData
  <2>1. dataset = <<>> /\ DOMAIN dataset = {} /\ pool = <<>> /\ pareto = {} /\ feedback = {}
    BY <1>1 DEF RunNoData, IInv
  <2>2. pc' = "done" /\ UNCHANGED <<cfg, dataset, pareto, feedback, pool, rollout, result>>
    BY <1>1 DEF RunNoData
  <2>3. TypeOK'
    BY <2>1, <2>2 DEF TypeOK, IInv
  <2>4. ResultIsRanked'
    BY <2>1, <2>2 DEF ResultIsRanked
  <2>5. PoolOK(pool)'
    BY <2>2 DEF PoolOK, Scored, IInv
  <2>6. RatedDataTeachesNothing'
    BY <2>2 DEF RatedDataTeachesNothing, Source, IInv
  <2> QED  BY <2>1, <2>2, <2>3, <2>4, <2>5, <2>6 DEF IInv
<1>2. CASE UNCHANGED vars
  <2>1. UNCHANGED <<pc, cfg, dataset, pareto, feedback, pool, rollout, result>>
    BY <1>2 DEF vars
  <2>2. TypeOK'
    BY <2>1 DEF TypeOK, IInv
  <2>3. ResultIsRanked'
    BY <2>1 DEF ResultIsRanked, Ahead, IInv
  <2>4. PoolOK(pool)'
    BY <2>1 DEF PoolOK, Scored, IInv
  <2>5. RatedDataTeachesNothing'
    BY <2>1 DEF RatedDataTeachesNothing, Source, IInv
  <2> QED  BY <2>1, <2>2, <2>3, <2>4, <2>5 DEF IInv
<1> QED  BY <1>1, <1>2, SplitStep, GrowStep, ReturnStep DEF Next

-----------------------------------------------------------------------------
(* The theorems *)

\* The invariant holds in every state of every run of the optimizer.
THEOREM Inductive == Spec => []IInv
BY InitInv, NextInv, PTL DEF Spec

\* Run keeps its types: the Pareto and the feedback set split the dataset, no
\* loop starts without a Pareto set or a seed, and a parent is older than its child.
THEOREM TypeCorrect == Spec => []TypeOK
<1>1. IInv => TypeOK
  BY DEF IInv
<1> QED  BY <1>1, Inductive, PTL

\* Parents can always be drawn: the frontier holds the best candidate, and for
\* every candidate off it one that dominates that candidate.
THEOREM FrontierIsEnough == Spec => []FrontierCovers
<1>1. IInv => FrontierCovers
  <2> SUFFICES ASSUME IInv PROVE FrontierCovers
    OBVIOUS
  <2>1. IsFiniteSet(pareto) /\ PoolOK(pool)
    BY ParetoIsFinite DEF IInv, TypeOK
  <2> QED  BY <2>1, PoolIsCovered
<1> QED  BY <1>1, Inductive, PTL

\* With nothing but rated points to draw minibatches from, the pool never grows
\* beyond the seed, whatever the LLM answers.
THEOREM RatedOnlyKeepsTheSeed == Spec => []RatedDataTeachesNothing
<1>1. IInv => RatedDataTeachesNothing
  BY DEF IInv
<1> QED  BY <1>1, Inductive, PTL

\* What Run returns is the head of the pool by score, oldest first among equals,
\* and the best of the pool.
THEOREM ReturnsTheRanking == Spec => []ResultIsRanked
<1>1. IInv => ResultIsRanked
  BY DEF IInv
<1> QED  BY <1>1, Inductive, PTL

\* The best candidate only gives way to one with a higher score.
THEOREM BestImproves == Spec => BestOnlyImproves
<1> DEFINE Replaced == pool # <<>> /\ Best(pool') # Best(pool) => pool'[Best(pool')].agg > pool[Best(pool)].agg
<1>1. ASSUME IInv, Next PROVE Replaced
  <2> SUFFICES ASSUME pool # <<>>, Best(pool') # Best(pool)
               PROVE  pool'[Best(pool')].agg > pool[Best(pool)].agg
    OBVIOUS
  <2>0. IsFiniteSet(pareto) /\ PoolOK(pool)
    BY <1>1, ParetoIsFinite DEF IInv, TypeOK
  <2>1. PICK c : pool' = Append(pool, c) /\ PoolOK(Append(pool, c))
    BY <1>1, PoolGrows
  <2> DEFINE q == Append(pool, c)
             N == Len(pool)
             b == Best(pool)
             d == Best(q)
  <2>2. pool \in Seq(Scored) /\ N \in Nat /\ DOMAIN pool = 1 .. N /\ DOMAIN pool # {}
    BY <2>0 DEF PoolOK
  <2>3. DOMAIN q = 1 .. N + 1 /\ \A i \in 1 .. N : q[i] = pool[i]
    BY <2>2
  <2>4. PoolOK(q)
    BY <2>1
  <2> HIDE DEF q
  <2>5. b \in DOMAIN pool /\ \A i \in DOMAIN pool : (\A k \in DOMAIN pool : ~Ahead(pool, k, i)) => i = b
    BY <2>0, <2>2, BestOfFacts DEF Best
  <2>6. d \in DOMAIN q /\ \A k \in DOMAIN q : ~Ahead(q, k, d)
    <3>1. DOMAIN q # {}
      BY <2>2, <2>3
    <3>2. BestOf(q, DOMAIN q) \in DOMAIN q /\ \A k \in DOMAIN q : ~Ahead(q, k, BestOf(q, DOMAIN q))
      BY <2>0, <2>4, <3>1, BestOfFacts
    <3> QED  BY <3>2 DEF Best
  <2>7. d # b
    BY <2>1 DEF q
  <2> HIDE DEF b, d, N
  <2>8. \A i, k \in 1 .. N : Ahead(q, k, i) <=> Ahead(pool, k, i)
    BY <2>3 DEF Ahead
  <2>9. d = N + 1
    <3> SUFFICES ASSUME d \in 1 .. N PROVE FALSE
      BY <2>2, <2>3, <2>6
    <3>1. \A k \in DOMAIN pool : ~Ahead(pool, k, d)
      BY <2>2, <2>3, <2>6, <2>8
    <3> QED  BY <2>2, <2>5, <2>7, <3>1
  <2>10. b \in DOMAIN q /\ q[b] = pool[b] /\ b < d /\ b \in Nat /\ d \in Nat
    BY <2>2, <2>3, <2>5, <2>9
  <2>11. q[b].agg \in Nat
    BY <2>4, <2>10, CandidateFacts
  <2>12. q[d].agg \in Nat
    BY <2>4, <2>6, CandidateFacts
  <2>13. ~Ahead(q, b, d)
    BY <2>6, <2>10
  <2>14. q[d].agg > q[b].agg
    BY <2>10, <2>11, <2>12, <2>13 DEF Ahead
  <2> QED  BY <2>1, <2>10, <2>14 DEF q, b, d
<1>2. IInv /\ [Next]_vars => [Replaced]_vars
  BY <1>1
<1>3. Spec => [][Replaced]_vars
  BY <1>2, Inductive, PTL DEF Spec
<1> QED  BY <1>3 DEF BestOnlyImproves

=============================================================================
