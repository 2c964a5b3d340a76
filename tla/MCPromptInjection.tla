------------------------- MODULE MCPromptInjection -------------------------
(***************************************************************************)
(* Prompts p1 and p2 differ in the last character of their fourth word,    *)
(* whose first byte they share.  p3 breaks the line after its first word   *)
(* and differs from there on.  p4 differs in its fourth word.              *)
(***************************************************************************)
EXTENDS PromptInjection

s == Space
p1 == <<"you", s, "are", s, "helping", s, "caf", "C3", "A9">>
p2 == <<"you", s, "are", s, "helping", s, "caf", "C3", "A8">>
p3 == <<"you", s, Newline, "are", s, "a", s, "poet", s, "joe">>
p4 == <<"you", s, "are", s, "helping", s, "joe">>

Request(style, shape, text) == [style |-> style, body |-> [shape |-> shape, text |-> text]]

MCPieces == {Space, Newline, Dash, Backslash, "you", "are", "helping", "caf", "C3", "A9", "A8", "U+FFFD",
             "a", "poet", "joe", "be", "brief", "never"}

\* Besides the four prompts: a style that does not fit the body, and the
\* bodies without a prompt.
MCRequests ==
    {Request("openai-chat", "messages", p1), Request("replicate", "input", p2),
     Request("openai-chat", "messages", p3), Request("openai-chat", "messages", p4),
     Request("replicate", "messages", p1), Request("none", "opaque", Empty),
     Request("replicate", "streamed", Empty), Request("openai-chat", "broken", Empty)}

\* Bounds: two conversations the optimizer may still sample are of different
\* prompts, which is all a run sees of them, and one of them is p1; a request
\* without a prompt, which leaves nothing behind, is served while nothing is logged.
OneOfP1 ==
    LET originals == {e.original : e \in log'}
    IN  Cardinality(originals) = Cardinality(log') /\ Cardinality(originals \ {p1}) <= 1
PromptlessFirst ==
    req'.pc = "done" /\ Extract(req'.style, Buffered(req'.body)) = Empty => log' = {}

\* The array that was asked for, with a blank and one item too many; and prose
\* with a dash, a line break and a written \n.  Both come to the same variant.
MCAnswers ==
    {[form |-> "array", items |-> <<<<s, Dash, s>>, <<"be", Newline, "brief">>, <<"never">>>>],
     [form |-> "text", items |-> <<<<Dash, s, "be", Newline, "brief", Backslash, s>>>>]}

=============================================================================
