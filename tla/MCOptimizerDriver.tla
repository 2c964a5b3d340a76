-------------------------- MODULE MCOptimizerDriver --------------------------
(***************************************************************************)
(* Small instances of OptimizerDriver.  Conversations 1 and 2 were served  *)
(* by one variant, 3 by the baseline.  Conversation 1 gets praise with two *)
(* comments, so that it fills two samples; 2 gets complaints.              *)
(***************************************************************************)
EXTENDS OptimizerDriver

Rating(conv, rating, comment) == [conv |-> conv, rating |-> rating, comment |-> comment]

MCVariantOf == <<"a", "a", "none">>
MCFewInputs == {Rating(1, 1, 0), Rating(2, -1, 0), Rating(2, -1, 1)}
MCInputs == {Rating(1, 1, 0), Rating(1, 1, 1), Rating(2, -1, 0), Rating(3, 0, 0)}

=============================================================================
