----------------------------- MODULE LLMService -----------------------------
(***************************************************************************)
(* What a caller of LLMClient.Complete may rely on: a call is answered     *)
(* once, with an error, with no text at all, or with the output of the     *)
(* very prediction it asked for, once that has succeeded; and it is always *)
(* answered, whether the provider does anything or not.                    *)
(***************************************************************************)
EXTENDS Naturals

CONSTANT MaxCalls     \* calls made one after the other (a bound)

VARIABLES
    answer,     \* what each call came to
    succeeded   \* the calls whose prediction has succeeded at the provider

vars == <<answer, succeeded>>

Calls == 1 .. MaxCalls

\* "of" is the call whose prediction produced the text.
Outcome(k, o) == [kind |-> k, of |-> o]
Unasked == Outcome("unasked", 0)
Pending == Outcome("pending", 0)
Error == Outcome("error", 0)
NoText == Outcome("empty", 0)
Text(k) == Outcome("text", k)

Init ==
    /\ answer = [k \in Calls |-> Unasked]
    /\ succeeded = {}

Ask(k) ==
    /\ answer[k] = Unasked
    /\ \A j \in Calls : answer[j] # Pending
    /\ answer' = [answer EXCEPT ![k] = Pending]
    /\ UNCHANGED succeeded

Return(k) ==
    /\ answer[k] = Pending
    /\ \E out \in {Error, NoText} \cup {Text(j) : j \in succeeded \cap {k}} :
            answer' = [answer EXCEPT ![k] = out]
    /\ UNCHANGED succeeded

\* The provider finishes the prediction of a call, perhaps after the call ended.
Succeed(k) ==
    /\ answer[k] # Unasked
    /\ succeeded' = succeeded \cup {k}
    /\ UNCHANGED answer

Next == \E k \in Calls : Ask(k) \/ Return(k) \/ Succeed(k)

Spec == Init /\ [][Next]_vars

FairSpec == Spec /\ \A k \in Calls : WF_vars(Return(k))

=============================================================================
