------------------------------- MODULE MCGepa -------------------------------
(***************************************************************************)
(* Small instances of Gepa: three tokens, datasets of up to three points,    *)
(* configurations at their defaults and at their edges, a scorer.          *)
(***************************************************************************)
EXTENDS Gepa

CONSTANTS a, b, c

MCPoints == <<[input |-> {a}, rating |-> 0], [input |-> {b, c}, rating |-> 0],
              [input |-> {}, rating |-> 0], [input |-> {a}, rating |-> 1],
              [input |-> {b}, rating |-> -1]>>

\* The order of the points does not matter: Split shuffles them.
MCDatasets ==
    {[i \in 1 .. n |-> MCPoints[f[i]]] :
        n \in 0 .. 3, f \in {g \in [1 .. 3 -> 1 .. Len(MCPoints)] : g[1] <= g[2] /\ g[2] <= g[3]}}

Given == [RolloutBudget |-> 0, MinibatchSize |-> 0, ParetoPercent |-> 0, MinDelta |-> 0,
          TopN |-> 0, Crossover |-> "on", LLM |-> "client", Scorer |-> "nil"]

MCConfigs ==
    {Given,
     [Given EXCEPT !.MinibatchSize = 1, !.ParetoPercent = 67, !.TopN = 2],
     [Given EXCEPT !.MinibatchSize = 1, !.ParetoPercent = 100, !.Crossover = "off"],
     [Given EXCEPT !.MinibatchSize = -1, !.TopN = -1],
     [Given EXCEPT !.RolloutBudget = 1, !.MinDelta = 160, !.LLM = "nil"],
     [Given EXCEPT !.RolloutBudget = 2, !.MinDelta = -100],
     [Given EXCEPT !.RolloutBudget = 2, !.Scorer = "custom"]}

\* A scorer that wants short prompts, and rates them on unhappy points only.
MCScorer(prompt, d) == IF d.rating = 1 THEN 300 ELSE 300 - 100 * Cardinality(prompt)

=============================================================================
