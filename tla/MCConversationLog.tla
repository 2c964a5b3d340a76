-------------------------- MODULE MCConversationLog --------------------------
(***************************************************************************)
(* Small instances of ConversationLog: two requests that share a           *)
(* conversation, have one each, or have none.                              *)
(***************************************************************************)
EXTENDS ConversationLog

CONSTANTS q1, q2, c1, c2

\* Requests, and conversations, differ by their names only, so q1 is the first
\* and a conversation is c1 unless another one already is.  One request with a
\* variant and one with an empty answer are enough.  Only Forward and Respond are
\* restricted, which nothing makes happen: every fair behaviour left is one of
\* the specification.
Named ==
    /\ phase'[q2] # "new" => phase'[q1] # "new"
    /\ conv'[q1] # c2 /\ (conv'[q2] = c2 => conv'[q1] = c1)
    /\ treated' \subseteq {q1} /\ phase'[q2] # "empty"

=============================================================================
