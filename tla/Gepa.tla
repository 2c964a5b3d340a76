-------------------------------- MODULE Gepa --------------------------------
(***************************************************************************)
(* The GEPA library: Optimizer.Run evolves a pool of prompts.  A rollout   *)
(* samples a parent from the Pareto frontier, asks the LLM for a child,    *)
(* and adds it when it beats its parent on a minibatch by MinDelta.        *)
(*                                                                         *)
(* A text is the set of its lower-case tokens, all that similarityScore    *)
(* looks at.  Scores are counted in units of 1/Unit, of which every score   *)
(* of similarityScore and the thresholds 0.1 and 0.01 are a whole number.  *)
(***************************************************************************)
EXTENDS Integers, Sequences, SequencesExt, FiniteSetsExt

CONSTANTS
    Tokens,         \* the words of the prompts and of the inputs
    Datasets,       \* the datasets Run is given
    Configs,        \* the configurations New is given
    Unit,           \* how many units the score 1 has
    CustomScorer(_, _), \* what Config.Scorer gives a prompt for a point
    DefaultBudget   \* RolloutBudget when none is given: 50 in the code

Prompts == SUBSET Tokens
DataPoint == [input : Prompts, rating : {-1, 0, 1}]
Config == [RolloutBudget : Int, MinibatchSize : Int, ParetoPercent : Int,
           MinDelta : Int, TopN : Int, Crossover : {"on", "off"},
           LLM : {"nil", "client"}, Scorer : {"nil", "custom"}]

ASSUME GepaAssumption ==
    /\ IsFiniteSet(Tokens)
    /\ Datasets \subseteq Seq(DataPoint)
    /\ Configs \subseteq Config
    /\ DefaultBudget \in Nat \ {0}
\* Scorers give scores between 0 and 1, as those of scorer.go do.
ASSUME ScoreAssumption ==
    /\ Unit \in Nat \ {0} /\ Unit % 100 = 0
    /\ \A n \in 1 .. Cardinality(Tokens) : Unit % n = 0
    /\ \A prompt \in Prompts, d \in DataPoint : CustomScorer(prompt, d) \in 0 .. Unit

VARIABLES
    pc,         \* where Run is
    cfg,        \* Optimizer.cfg
    dataset,    \* what Run was given
    pareto,     \* indices of the points every candidate is scored on
    feedback,   \* indices of the points minibatches are drawn from
    pool,       \* the candidates, oldest first
    rollout,    \* rollouts used so far
    result      \* Result.Candidates and Result.Best, as positions in the pool

vars == <<pc, cfg, dataset, pareto, feedback, pool, rollout, result>>

-----------------------------------------------------------------------------
(* Scores *)

similarityScore(prompt, input) ==
    IF prompt = {} \/ input = {} THEN Unit \div 2
    ELSE Max({Unit \div 10,
              (Unit * Cardinality(prompt \cap input)) \div Cardinality(prompt)})

\* Mutant of FeedbackScorer: the rating weighs the similarity.
FeedbackScorerWeighing(prompt, d) ==
    ((d.rating + 1) * similarityScore(prompt, d.input)) \div 2

\* A rated point has its rating for a score, whatever the prompt.
FeedbackScorer(prompt, d) ==
    IF d.rating # 0 THEN ((d.rating + 1) * Unit) \div 2
    ELSE similarityScore(prompt, d.input)

Score(prompt, d) ==
    IF cfg.Scorer = "nil" THEN FeedbackScorer(prompt, d) ELSE CustomScorer(prompt, d)

ScoresOn(prompt, points) == [i \in points |-> Score(prompt, dataset[i])]

\* mean, times the number of points: only means over equally many are compared.
Total(scores) == SumFunction(scores)

\* Scores and AggScore are those of the Pareto set.
Candidate(prompt, parent) ==
    [prompt |-> prompt, parent |-> parent,
     scores |-> ScoresOn(prompt, pareto), agg |-> Total(ScoresOn(prompt, pareto))]

-----------------------------------------------------------------------------
(* CandidatePool, ParetoFrontier, topN *)

\* Mutant of dominates: being nowhere worse is enough.
dominatesWeakly(a, b) == \A i \in DOMAIN a : a[i] >= b[i]

dominates(a, b) ==
    /\ \A i \in DOMAIN a : a[i] >= b[i]
    /\ \E i \in DOMAIN a : a[i] > b[i]

ParetoFrontier(p) ==
    {i \in DOMAIN p : \A j \in DOMAIN p \ {i} : ~dominates(p[j].scores, p[i].scores)}

\* The weights (1 plus the children a candidate already has) are positive: they
\* change the odds, never who can be drawn.
SampleFromFrontier(frontier) == frontier

Add(c) == pool' = Append(pool, c)

\* Mutant of BestOf: a later candidate wins a tie.
LastBestOf(p, I) ==
    IF I = {} THEN 0
    ELSE CHOOSE i \in I : \A k \in I : IF k > i THEN p[i].agg > p[k].agg ELSE p[i].agg >= p[k].agg

\* What a scan from the oldest candidate on finds: the first of the highest
\* scores among the candidates at I; 0 is none.
BestOf(p, I) ==
    IF I = {} THEN 0
    ELSE CHOOSE i \in I : \A k \in I : IF k < i THEN p[i].agg > p[k].agg ELSE p[i].agg >= p[k].agg

Best(p) == BestOf(p, DOMAIN p)

\* Mutant of topN: a picked candidate is not left out of the next scan.
topNRepeating(p, n) == [k \in 1 .. Min({Max({n, 0}), Len(p)}) |-> Best(p)]

\* n scans, each for the best candidate not picked yet.
topN(p, n) ==
    LET out[k \in 0 .. Len(p)] ==
            IF k = 0 THEN <<>>
            ELSE LET picked == out[k - 1] IN Append(picked, BestOf(p, DOMAIN p \ Range(picked)))
    IN  out[Min({Max({n, 0}), Len(p)})]

-----------------------------------------------------------------------------
(* New *)

OrDefault(x, default) == IF x = 0 THEN default ELSE x

New(c) ==
    [c EXCEPT !.RolloutBudget = OrDefault(@, DefaultBudget),
              !.MinibatchSize = OrDefault(@, 5),
              !.ParetoPercent = OrDefault(@, 30),
              !.MinDelta      = OrDefault(@, Unit \div 100),
              !.TopN          = OrDefault(@, 3)]

Init ==
    /\ pc = "call"
    /\ \E c \in Configs : cfg = New(c)
    /\ dataset \in Datasets
    /\ pareto = {} /\ feedback = {}
    /\ pool = <<>>
    /\ rollout = 0
    /\ result = [candidates |-> <<>>, best |-> 0]

-----------------------------------------------------------------------------
(* Run *)

\* Mutant of Cutoff: without the minimum.
CutoffOrZero == (Len(dataset) * cfg.ParetoPercent) \div 100

\* How many points the shuffled dataset gives to the Pareto set: at least one.
Cutoff == Max({1, (Len(dataset) * cfg.ParetoPercent) \div 100})

\* Dataset.Split: the Pareto sets a shuffle can give; without a proper fraction
\* it is the whole dataset, and no feedback set is left.
Splits ==
    IF cfg.ParetoPercent \in 1 .. 99 THEN kSubset(Cutoff, DOMAIN dataset)
    ELSE {DOMAIN dataset}

RunNoData ==
    /\ pc = "call"
    /\ dataset = <<>>
    /\ pc' = "done"
    /\ UNCHANGED <<cfg, dataset, pareto, feedback, pool, rollout, result>>

\* The dataset is split; an empty Pareto set would be replaced by all of it.
RunSplit ==
    /\ pc = "call"
    /\ dataset # <<>>
    /\ \E S \in Splits : /\ pareto' = IF S = {} THEN DOMAIN dataset ELSE S
                         /\ feedback' = DOMAIN dataset \ S
    /\ pc' = "seed"
    /\ UNCHANGED <<cfg, dataset, pool, rollout, result>>

\* The seed prompt opens the pool.
RunSeed ==
    /\ pc = "seed"
    /\ \E prompt \in Prompts : Add(Candidate(prompt, 0))
    /\ pc' = "loop"
    /\ UNCHANGED <<cfg, dataset, pareto, feedback, rollout, result>>

\* Where minibatches come from: the Pareto set itself when nothing else is left.
Source == IF feedback # {} THEN feedback ELSE pareto

\* Dataset.Minibatch.
Minibatches ==
    IF cfg.MinibatchSize <= 0 THEN {{}}
    ELSE kSubset(Min({cfg.MinibatchSize, Cardinality(Source)}), Source)

\* What Mutate and Crossover make of the LLM's answer: without a client, on an
\* error and on an empty answer, the parent's prompt.
Complete(prompt) == {prompt} \cup (IF cfg.LLM = "nil" THEN {} ELSE Prompts \ {{}})
Mutate(parent) == Complete(parent.prompt)
Crossover(a, b) == Complete(a.prompt)

ChildPrompts(frontier, parent) ==
    Mutate(parent) \cup
    IF cfg.Crossover = "on" /\ Cardinality(frontier) >= 2
    THEN UNION {Crossover(parent, pool[other]) : other \in frontier} ELSE {}

\* The child beats its parent on the minibatch by more than MinDelta.
Improves(child, parent, batch) ==
    Total(ScoresOn(child, batch))
        > Total(ScoresOn(parent, batch)) + cfg.MinDelta * Cardinality(batch)

\* Mutant of Count: only accepted children use up the budget.
CountAccepted == rollout' = Len(pool') - 1

Count == rollout' = rollout + 1

\* One turn of the loop: a child is accepted, or the parent's turn was in vain.
Rollout ==
    /\ pc = "loop"
    /\ rollout < cfg.RolloutBudget
    /\ \E i \in SampleFromFrontier(ParetoFrontier(pool)), batch \in Minibatches \ {{}} :
            \E prompt \in ChildPrompts(ParetoFrontier(pool), pool[i]) :
                \/ /\ Improves(prompt, pool[i].prompt, batch)
                   /\ Add(Candidate(prompt, i))
                \/ /\ ~Improves(prompt, pool[i].prompt, batch)
                   /\ UNCHANGED pool
    /\ Count
    /\ UNCHANGED <<pc, cfg, dataset, pareto, feedback, result>>

\* The budget is used up, or there is no parent or no minibatch: Run returns.
RunReturn ==
    /\ pc = "loop"
    /\ \/ rollout >= cfg.RolloutBudget
       \/ ParetoFrontier(pool) = {}
       \/ Minibatches = {{}}
    /\ result' = [candidates |-> topN(pool, cfg.TopN), best |-> Best(pool)]
    /\ pc' = "done"
    /\ UNCHANGED <<cfg, dataset, pareto, feedback, pool, rollout>>

Next == RunNoData \/ RunSplit \/ RunSeed \/ Rollout \/ RunReturn

Spec == Init /\ [][Next]_vars

\* Run is one goroutine, and every call it makes returns.
FairSpec == Spec /\ WF_vars(Next)

-----------------------------------------------------------------------------
(* Properties *)

\* The state keeps its types; the two sets split the dataset, no candidate is
\* left without scores, and every child comes from an older candidate.
TypeOK ==
    /\ pc \in {"call", "seed", "loop", "done"}
    /\ cfg \in Config
    /\ dataset \in Datasets
    /\ pc # "call" => pareto \cup feedback = DOMAIN dataset /\ pareto \cap feedback = {}
    /\ pc = "loop" => pareto # {} /\ pool # <<>>
    /\ \A i \in DOMAIN pool : /\ pool[i].prompt \in Prompts
                              /\ pool[i].parent \in 0 .. i - 1
                              /\ pool[i].scores \in [pareto -> 0 .. Unit]
    /\ rollout \in Nat
    /\ result.best \in 0 .. Len(pool)

\* The frontier that parents are drawn from is never empty, holds the best
\* candidate, and holds a reason for every candidate it leaves out.
FrontierCovers ==
    pool # <<>> =>
        LET frontier == ParetoFrontier(pool)
        IN  /\ Best(pool) \in frontier
            /\ \A i \in DOMAIN pool \ frontier :
                    \E j \in frontier : dominates(pool[j].scores, pool[i].scores)

\* When every point that minibatches are drawn from is rated, no LLM answer ever
\* gets into the pool, unless a negative MinDelta lets in children that are no
\* better: FeedbackScorer's scores do not depend on the prompt.
RatedDataTeachesNothing ==
    cfg.Scorer = "nil" /\ cfg.MinDelta >= 0 /\ (\A i \in Source : dataset[i].rating # 0)
        => Len(pool) <= 1

\* The order Result.Candidates is in: by score, the older first among equals.
Ahead(p, i, j) == p[i].agg > p[j].agg \/ (p[i].agg = p[j].agg /\ i < j)

\* Result.Candidates is the head of the pool in that order: ahead of its k-th
\* candidate are exactly the k - 1 before it.  Nobody is ahead of Result.Best.
ResultIsRanked ==
    pc = "done" /\ pool # <<>> =>
        /\ Len(result.candidates) = Min({Max({cfg.TopN, 0}), Len(pool)})
        /\ \A k \in DOMAIN result.candidates :
             /\ result.candidates[k] \in DOMAIN pool
             /\ \A j \in DOMAIN pool :
                  Ahead(pool, j, result.candidates[k]) <=> \E h \in 1 .. k - 1 : result.candidates[h] = j
        /\ result.best \in DOMAIN pool
        /\ \A j \in DOMAIN pool : ~Ahead(pool, j, result.best)

\* The best candidate is replaced only by one with a higher score: what Run
\* returns is never worse than the seed.
BestOnlyImproves ==
    [][pool # <<>> /\ Best(pool') # Best(pool)
            => pool'[Best(pool')].agg > pool[Best(pool)].agg]_vars

\* Run returns, whatever the LLM answers.
Terminates == <>(pc = "done")

=============================================================================
