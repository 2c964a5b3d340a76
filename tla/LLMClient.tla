------------------------------ MODULE LLMClient ------------------------------
(***************************************************************************)
(* The LLM calls of the optimizer: NewLLMClient, the stub clients, and     *)
(* ReplicateClient.Complete, which POSTs a prediction, reads the answer,   *)
(* and polls the prediction until it has succeeded or failed or a deadline *)
(* has passed.  The http.Client has a timeout of its own, the context may  *)
(* be cancelled (SIGTERM) at any time, and the provider does what it likes.*)
(*                                                                         *)
(* Time passes in ticks, only while the client waits; the client's own     *)
(* computations take none.  A prediction is named by the call that asked   *)
(* for it, and so is its output.                                           *)
(***************************************************************************)
EXTENDS Naturals, Sequences

CONSTANTS
    Timeout,    \* ReplicateTimeout: of the http.Client, and of the poll loop
    Sleep,      \* time.Sleep between two polls
    MaxCalls,   \* calls made one after the other (a bound)
    Faults      \* the faults this instance is exposed to

\* A Timeout of 0 is http.Client's "no timeout" and is not covered.
ASSUME TimesAssumption ==
    /\ Timeout \in Nat \ {0}
    /\ Sleep \in Nat \ {0}
    /\ MaxCalls \in Nat
ASSUME FaultsAssumption == Faults \subseteq {"network", "reply", "cancel"}

VARIABLES
    client,     \* what NewLLMClient returned
    pc,         \* where Complete is
    call,       \* the call in progress, or the last one
    answer,     \* what each call came to
    id,         \* the prediction poll was given, 0 for an empty id
    wire,       \* the provider's reply to the request in flight
    preds,      \* the predictions at the provider
    ctx,        \* the context of the call
    timer,      \* ticks since the wait in progress began
    polled,     \* ticks since poll computed its deadline
    elapsed,    \* ticks since Complete was called
    overtime,   \* of which since the context was cancelled
    unheard     \* ticks since the prediction succeeded or a reply hid it

local == <<pc, call, answer, id, wire>>
clocks == <<timer, polled, elapsed, overtime, unheard>>
vars == <<client, local, preds, ctx, clocks>>

Calls == 1 .. MaxCalls
NoId == 0

Outcome(k, o) == [kind |-> k, of |-> o]
Unasked == Outcome("unasked", 0)
Pending == Outcome("pending", 0)
Error == Outcome("error", 0)
TimedOut == Outcome("timeout", 0)
NoText == Outcome("empty", 0)
Text(k) == Outcome("text", k)
Outcomes == {Unasked, Pending, Error, TimedOut, NoText} \cup {Text(k) : k \in Calls}

-----------------------------------------------------------------------------
(* NewLLMClient *)

Config == [provider : {"replicate", "anthropic", "openai"},
           token : {"", "t"}, key : {"", "k"}, replicateModel : {"", "m"}, model : {"", "m"}]

firstNonEmpty(x, y) == IF x # "" THEN x ELSE y

NewLLMClient(cfg) ==
    CASE cfg.provider = "replicate" ->
            [kind  |-> "replicate",
             token |-> firstNonEmpty(cfg.token, cfg.key),
             model |-> firstNonEmpty(cfg.replicateModel, cfg.model)]
      [] cfg.provider # "replicate" /\ cfg.key = "" ->
            [kind |-> "noop", token |-> "", model |-> ""]
      [] OTHER ->
            [kind |-> "unimplemented", token |-> cfg.key, model |-> cfg.model]

-----------------------------------------------------------------------------
(* The provider's replies.  A status travels as its name or as a number. *)

Statuses == <<"starting", "processing", "succeeded", "failed", "canceled">>

ByName(s) == [name |-> s, number |-> 0]
ByNumber(n) == [name |-> "", number |-> n]
NoStatus == ByNumber(0)
Forms(s) == {ByName(s)} \cup {ByNumber(n) : n \in {m \in 1 .. 5 : Statuses[m] = s}}

Reply(kind, k, status) == [kind |-> kind, id |-> k, status |-> status]
NoReply == Reply("none", NoId, NoStatus)
Junk == Reply("junk", NoId, NoStatus)
\* An error body: JSON without an id or a known status, whatever the HTTP code.
ErrorBody == Reply("json", NoId, NoStatus)

\* Mutant of statusString: numbers counted from 0.
statusStringFromZero(s) ==
    IF s.name # "" THEN s.name
    ELSE IF s.number \in 0 .. 4 THEN Statuses[s.number + 1] ELSE "unknown"

\* Mutant of statusString: numbers are not understood.
statusStringNames(s) == IF s.name # "" THEN s.name ELSE "unknown"

statusString(s) ==
    IF s.name # "" THEN s.name
    ELSE IF s.number \in 1 .. 5 THEN Statuses[s.number] ELSE "unknown"

-----------------------------------------------------------------------------
Init ==
    /\ \E cfg \in Config : client = NewLLMClient(cfg)
    /\ pc = "idle"
    /\ call = 0
    /\ answer = [k \in Calls |-> Unasked]
    /\ id = NoId
    /\ wire = NoReply
    /\ preds = [k \in Calls |-> "none"]
    /\ ctx = "live"
    /\ timer = 0 /\ polled = 0 /\ elapsed = 0 /\ overtime = 0 /\ unheard = 0

\* The driver calls Complete, for one analysis or generation after the other.
Ask ==
    /\ pc = "idle"
    /\ call < MaxCalls
    /\ call' = call + 1
    /\ answer' = [answer EXCEPT ![call + 1] = Pending]
    /\ pc' = "start"
    /\ polled' = 0 /\ elapsed' = 0 /\ overtime' = 0 /\ unheard' = 0
    /\ UNCHANGED <<client, id, wire, preds, ctx, timer>>

\* Complete returns.
Finish(out) ==
    /\ answer' = [answer EXCEPT ![call] = out]
    /\ pc' = "idle"
    /\ id' = NoId
    /\ wire' = NoReply
    /\ timer' = 0
    /\ UNCHANGED <<client, call, preds, ctx, polled, elapsed, overtime, unheard>>

\* On to the next statement: a request goes out, or a sleep begins or ends.
GoTo(p) ==
    /\ pc' = p
    /\ wire' = NoReply
    /\ timer' = 0
    /\ UNCHANGED <<client, call, answer, preds, ctx, polled, elapsed, overtime>>

-----------------------------------------------------------------------------
(* Complete *)

Ready == client.kind = "replicate" /\ client.token # "" /\ client.model # ""

\* No credentials: NoopClient.
NoopComplete ==
    /\ pc = "start"
    /\ client.kind = "noop"
    /\ Finish(NoText)

\* The clients that are not implemented, or a replicate client without a token
\* or a model.
Refuse ==
    /\ pc = "start"
    /\ client.kind # "noop" /\ ~Ready
    /\ Finish(Error)

Post ==
    /\ pc = "start"
    /\ Ready
    /\ GoTo("post")
    /\ UNCHANGED <<id, unheard>>

\* decodePrediction fails.
Undecodable ==
    /\ wire = Junk
    /\ Finish(Error)

Succeeded ==
    /\ wire.kind = "json"
    /\ statusString(wire.status) = "succeeded"
    /\ Finish(Text(wire.id))

Failed ==
    /\ wire.kind = "json"
    /\ statusString(wire.status) = "failed"
    /\ Finish(Error)

\* Any other status, "canceled" and unknown ones included: poll, or poll again
\* after a sleep.  An error body leaves poll with an empty id.
Unfinished ==
    /\ wire.kind = "json"
    /\ statusString(wire.status) \notin {"succeeded", "failed"}
    /\ \/ /\ pc = "post"
          /\ GoTo("check")
          /\ id' = wire.id
       \/ /\ pc = "get"
          /\ GoTo("sleep")
          /\ UNCHANGED id
    /\ unheard' = IF wire.id = NoId THEN 0 ELSE unheard

\* Mutant of Check: the deadline, computed anew on every turn, is never reached.
CheckAnew ==
    /\ pc = "check"
    /\ GoTo("get")
    /\ UNCHANGED <<id, unheard>>

\* The head of poll's loop: the deadline is looked at here and nowhere else.
Check ==
    /\ pc = "check"
    /\ \/ /\ polled > Timeout
          /\ Finish(TimedOut)
       \/ /\ polled <= Timeout
          /\ GoTo("get")
          /\ UNCHANGED <<id, unheard>>

Wake ==
    /\ pc = "sleep"
    /\ timer = Sleep
    /\ GoTo("check")
    /\ UNCHANGED <<id, unheard>>

\* Mutant of WaitLimit: an http.Client without a timeout.
WaitLimitNone == IF pc = "sleep" THEN Sleep ELSE 3 * Timeout + Sleep

\* How long a wait may last: http.Client.Timeout covers a request from the dial
\* to the last byte of its body.
WaitLimit == IF pc = "sleep" THEN Sleep ELSE Timeout

HttpTimeout ==
    /\ pc \in {"post", "get"}
    /\ timer = WaitLimit
    /\ Finish(Error)

\* Mutant of Cancellable: the poll requests are made without the context.
CancellablePost == pc = "post"

\* The context is part of the requests; the sleep does not look at it.
Cancellable == pc \in {"post", "get"}

Aborted ==
    /\ ctx = "cancelled"
    /\ Cancellable
    /\ Finish(Error)

-----------------------------------------------------------------------------
(* The world around it *)

\* A request whose context is cancelled is never sent, or no longer waited for.
InFlight == pc \in {"post", "get"} /\ wire = NoReply /\ ctx = "live"
Requested == IF pc = "post" THEN call ELSE id

\* The provider accepts the POST; with "Prefer: wait" its reply may come later.
Create ==
    /\ InFlight
    /\ pc = "post"
    /\ preds[call] = "none"
    /\ preds' = [preds EXCEPT ![call] = "starting"]
    /\ UNCHANGED <<client, local, ctx, clocks>>

Progress(k) ==
    /\ preds[k] \in {"starting", "processing"}
    /\ \E s \in {"processing", "succeeded", "failed", "canceled"} \ {preds[k]} :
            preds' = [preds EXCEPT ![k] = s]
    /\ UNCHANGED <<client, local, ctx, clocks>>

\* The reply says what is true when it is made, which may be over when it is read.
Respond ==
    /\ InFlight
    /\ Requested \in Calls
    /\ preds[Requested] # "none"
    /\ \E f \in Forms(preds[Requested]) : wire' = Reply("json", Requested, f)
    /\ UNCHANGED <<client, pc, call, answer, id, preds, ctx, clocks>>

BadReply ==
    /\ "reply" \in Faults
    /\ InFlight
    /\ wire' \in {Junk, ErrorBody}
    /\ UNCHANGED <<client, pc, call, answer, id, preds, ctx, clocks>>

\* A URL that cannot be parsed, no connection, or one that breaks before the
\* body is read.
NetworkError ==
    /\ "network" \in Faults
    /\ pc \in {"post", "get"}
    /\ Finish(Error)

\* SIGTERM reaches the optimizer.
Cancel ==
    /\ "cancel" \in Faults
    /\ ctx = "live"
    /\ ctx' = "cancelled"
    /\ UNCHANGED <<client, local, preds, clocks>>

\* Time passes while the client waits, never past the end of a wait.
Tick ==
    /\ pc \in {"post", "get", "sleep"}
    /\ timer < WaitLimit
    /\ ~(ctx = "cancelled" /\ Cancellable)
    /\ timer' = timer + 1
    /\ polled' = IF pc = "post" THEN 0 ELSE polled + 1
    /\ elapsed' = elapsed + 1
    /\ overtime' = IF ctx = "cancelled" THEN overtime + 1 ELSE 0
    /\ unheard' = IF preds[call] = "succeeded" THEN unheard + 1 ELSE 0
    /\ UNCHANGED <<client, local, preds, ctx>>

-----------------------------------------------------------------------------
Complete ==
    \/ NoopComplete \/ Refuse \/ Post
    \/ Undecodable \/ Succeeded \/ Failed \/ Unfinished
    \/ Check \/ Wake \/ HttpTimeout \/ Aborted

Provider == Create \/ (\E k \in Calls : Progress(k)) \/ Respond \/ BadReply

Next == Ask \/ Complete \/ Provider \/ NetworkError \/ Cancel \/ Tick

Spec == Init /\ [][Next]_vars

\* The goroutine that runs Complete is scheduled and time goes on.  Nothing is
\* asked of the provider or the network.
Fairness == WF_vars(Complete) /\ WF_vars(Tick)

FairSpec == Spec /\ Fairness

-----------------------------------------------------------------------------
(* Properties *)

\* The state keeps its types; no wait outlasts its timer.
TypeOK ==
    /\ client \in {NewLLMClient(cfg) : cfg \in Config}
    /\ pc \in {"idle", "start", "post", "check", "get", "sleep"}
    /\ call \in 0 .. MaxCalls
    /\ answer \in [Calls -> Outcomes]
    /\ id \in 0 .. MaxCalls
    /\ wire.kind \in {"none", "json", "junk"} /\ wire.id \in 0 .. MaxCalls
    /\ preds \in [Calls -> {"none", "starting", "processing", "succeeded", "failed", "canceled"}]
    /\ ctx \in {"live", "cancelled"}
    /\ polled \in Nat /\ elapsed \in Nat /\ overtime \in Nat /\ unheard \in Nat
    /\ timer \in 0 .. (IF pc = "sleep" THEN Sleep ELSE Timeout)

\* A call ends within three Timeouts and a sleep, whatever the provider does:
\* the POST, the polls up to the last look at the deadline, one more GET.
CallBounded == elapsed <= 3 * Timeout + Sleep

\* Once the context is cancelled a call lasts no longer than the sleep it is in.
CancelEndsCall == overtime <= Sleep

\* A call gives up on a prediction that has succeeded only if that is so recent
\* that one stale reply and one sleep hid it, or if the replies hid it.
OnlyLateAnswersMissed ==
    pc = "idle" /\ call # 0 /\ answer[call] = TimedOut => unheard <= Timeout + Sleep

\* The caller's view: the timeout of the poll is an error like any other.
Seen(out) == IF out = TimedOut THEN Error ELSE out
Service ==
    INSTANCE LLMService WITH
        answer    <- [k \in Calls |-> Seen(answer[k])],
        succeeded <- {k \in Calls : preds[k] = "succeeded"}

\* Complete keeps LLMService's promise: one answer per call, the text only of the
\* call's own prediction once that has succeeded, and always an answer.
ImplementsLLMService == Service!FairSpec

=============================================================================
