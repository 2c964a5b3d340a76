--------------------------- MODULE VariantService ---------------------------
(***************************************************************************)
(* What the proxy may rely on when it asks the store for the variants of   *)
(* one session: it gets a whole set that some promotion wrote, or the      *)
(* baseline.  Which tier answered, what expired, what was evicted and what *)
(* failed are invisible at this level.                                     *)
(***************************************************************************)

CONSTANTS
    CandidateSets,   \* the sets of variants an optimizer run may promote
    Readers          \* proxy requests that look a variant up

VARIABLES
    issued,          \* the candidate sets some promotion has written
    answer           \* the last answer each reader got

svars == <<issued, answer>>

Baseline == {}       \* no variant: the proxy forwards the prompt as it came

SInit ==
    /\ issued = {}
    /\ answer = [r \in Readers |-> Baseline]

\* The store accepts a promoted set.
Issue(S) ==
    /\ issued' = issued \cup {S}
    /\ UNCHANGED answer

\* A lookup ends with one whole promoted set, or with the baseline.
Answer(r) ==
    /\ \E S \in issued \cup {Baseline} : answer' = [answer EXCEPT ![r] = S]
    /\ UNCHANGED issued

SNext ==
    \/ \E S \in CandidateSets : Issue(S)
    \/ \E r \in Readers : Answer(r)

SSpec == SInit /\ [][SNext]_svars

=============================================================================
