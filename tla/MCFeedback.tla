----------------------------- MODULE MCFeedback -----------------------------
(***************************************************************************)
(* Small instances of Feedback: v1 served c1, no variant served c2.        *)
(***************************************************************************)
EXTENDS Feedback

CONSTANTS c1, c2, v1, h1, h2

MCServedBy == [c \in Convs |-> IF c = c1 THEN v1 ELSE None]

=============================================================================
