--------------------------- MODULE LLMClientProofs ---------------------------
(***************************************************************************)
(* For every timeout, sleep and number of calls, and whatever the provider *)
(* and the network do: how long a call to Complete can last, which answers *)
(* it can miss, and that it implements LLMService.                         *)
(***************************************************************************)
EXTENDS LLMClient, TLAPS

\* Where the time of a call has gone, at each place Complete can be: before the
\* polling it is the POST's, later it is at most a Timeout more than polled; the
\* loop was entered again only while polled was at most Timeout.
TimeOK ==
    /\ timer \in Nat /\ polled \in Nat /\ elapsed \in Nat /\ overtime \in Nat
    /\ pc \in {"idle", "start", "post", "check", "get", "sleep"}
    /\ pc = "idle" => elapsed <= 3 * Timeout + Sleep
    /\ pc = "start" => elapsed = 0 /\ polled = 0
    /\ pc = "post" => elapsed = timer /\ polled = 0 /\ timer <= Timeout
    /\ pc \in {"check", "get", "sleep"} => elapsed <= Timeout + polled
    /\ pc = "check" => polled <= 2 * Timeout + Sleep
    /\ pc = "get" => polled <= Timeout + timer /\ timer <= Timeout
    /\ pc = "sleep" => polled <= 2 * Timeout + timer /\ timer <= Sleep

\* After the context is cancelled time passes only in a sleep, and there is no
\* second one: no reply is read to a request made after it.
CancelOK ==
    /\ pc \in {"idle", "check", "get"} => overtime <= Sleep
    /\ pc \in {"start", "post"} => overtime = 0
    /\ pc = "sleep" => overtime <= timer
    /\ overtime > 0 => ctx = "cancelled"
    /\ pc = "get" /\ overtime > 0 => wire = NoReply

IInv == TimeOK /\ CancelOK

USE TimesAssumption

LEMMA InitIInv == Init => IInv
BY DEF Init, IInv, TimeOK, CancelOK

\* Complete may return from anywhere.
LEMMA FinishIInv ==
    ASSUME IInv, pc # "start" \/ elapsed = 0, NEW out, Finish(out) PROVE IInv'
BY DEF IInv, TimeOK, CancelOK, Finish

LEMMA NextIInv == IInv /\ [Next]_vars => IInv'
<1> SUFFICES ASSUME IInv, [Next]_vars PROVE IInv'
  OBVIOUS
<1>1. CASE Ask
  BY <1>1 DEF Ask, IInv, TimeOK, CancelOK
<1>2. CASE Post
  BY <1>2 DEF Post, GoTo, IInv, TimeOK, CancelOK
<1>3. CASE NoopComplete \/ Refuse
  BY <1>3, FinishIInv DEF NoopComplete, Refuse, IInv, TimeOK
<1>4. CASE Undecodable \/ Succeeded \/ Failed
  BY <1>4, FinishIInv DEF Undecodable, Succeeded, Failed, IInv, TimeOK
<1>5. CASE Unfinished
  <2>1. wire # NoReply
    BY <1>5 DEF Unfinished, NoReply, Reply
  <2>2. CASE pc = "post" /\ GoTo("check")
    BY <1>5, <2>2 DEF GoTo, IInv, TimeOK, CancelOK
  <2>3. CASE pc = "get" /\ GoTo("sleep")
    BY <2>1, <2>3 DEF GoTo, IInv, TimeOK, CancelOK
  <2> QED  BY <1>5, <2>2, <2>3 DEF Unfinished
<1>6. CASE Check
  <2>1. CASE polled > Timeout /\ Finish(TimedOut)
    BY <1>6, <2>1, FinishIInv DEF Check
  <2>2. CASE polled <= Timeout /\ GoTo("get")
    BY <1>6, <2>2 DEF Check, GoTo, IInv, TimeOK, CancelOK
  <2> QED  BY <1>6, <2>1, <2>2 DEF Check
<1>7. CASE Wake
  BY <1>7 DEF Wake, GoTo, IInv, TimeOK, CancelOK
<1>8. CASE HttpTimeout \/ Aborted \/ NetworkError
  BY <1>8, FinishIInv DEF HttpTimeout, Aborted, NetworkError, Cancellable
<1>9. CASE Create \/ (\E k \in Calls : Progress(k))
  BY <1>9 DEF Create, Progress, local, clocks, IInv, TimeOK, CancelOK
<1>10. CASE Respond \/ BadReply
  BY <1>10 DEF Respond, BadReply, InFlight, clocks, IInv, TimeOK, CancelOK
<1>11. CASE Cancel
  BY <1>11 DEF Cancel, local, clocks, IInv, TimeOK, CancelOK
<1>12. CASE Tick
  BY <1>12 DEF Tick, Cancellable, WaitLimit, local, IInv, TimeOK, CancelOK
<1>13. CASE UNCHANGED vars
  BY <1>13 DEF vars, local, clocks, IInv, TimeOK, CancelOK
<1> QED
  BY <1>1, <1>2, <1>3, <1>4, <1>5, <1>6, <1>7, <1>8, <1>9, <1>10, <1>11, <1>12, <1>13
  DEF Next, Complete, Provider

\* ReplicateClient.Complete returns within three Timeouts and a sleep, for every
\* Timeout and Sleep and whatever the provider does.
THEOREM CallsAreBounded == Spec => []CallBounded
<1>1. IInv => CallBounded
  BY DEF IInv, TimeOK, CallBounded
<1> QED  BY <1>1, InitIInv, NextIInv, PTL DEF Spec

\* After SIGTERM a call lasts no longer than one sleep.
THEOREM CancelIsPrompt == Spec => []CancelEndsCall
<1>1. IInv => CancelEndsCall
  BY DEF IInv, TimeOK, CancelOK, CancelEndsCall
<1> QED  BY <1>1, InitIInv, NextIInv, PTL DEF Spec

-----------------------------------------------------------------------------
(* What a call knows of its prediction *)

\* A reply is read in the request it answers, is about the call's own prediction
\* (an error body is about none), and "succeeded" is for good.
WireOK ==
    /\ wire.kind \in {"none", "json", "junk"}
    /\ wire.id \in {NoId, call}
    /\ wire.kind = "none" => wire.id = NoId
    /\ wire.kind # "none" => pc \in {"post", "get"}
    /\ wire.kind = "json" /\ wire.id = NoId => statusString(wire.status) = "unknown"
    /\ wire.kind = "json" /\ statusString(wire.status) = "succeeded" => preds[call] = "succeeded"

\* Calls are made one after the other, and only an asked call has a prediction.
CallsOK ==
    /\ id \in {NoId, call}
    /\ pc \in {"idle", "start"} => id = NoId
    /\ pc # "idle" => call \in Calls
    /\ \A k \in Calls : answer[k] = Unasked <=> k > call
    /\ \A k \in Calls : answer[k] = Pending <=> k = call /\ pc # "idle"
    /\ \A k \in Calls : preds[k] # "none" => k <= call

\* How long a success can have been missed: for the POST, or for the one GET
\* whose reply was made before it, and for the sleep after that.
UnheardOK ==
    /\ pc # "idle" /\ preds[call] # "succeeded" => unheard = 0
    /\ pc = "start" => unheard = 0
    /\ pc = "post" => unheard <= timer
    /\ pc = "check" => unheard <= Timeout + Sleep
    /\ pc = "get" /\ wire.kind = "json" /\ wire.id # NoId /\ statusString(wire.status) # "succeeded"
          => unheard <= timer
    /\ pc = "sleep" => unheard <= Timeout + timer
    /\ OnlyLateAnswersMissed

JInv == TypeOK /\ WireOK /\ CallsOK /\ UnheardOK

\* A status means the same as a name and as a number.
LEMMA FormsMeaning ==
    ASSUME NEW s \in {"starting", "processing", "succeeded", "failed", "canceled"}, NEW f \in Forms(s)
    PROVE  statusString(f) = s
<1>1. s # ""
  OBVIOUS
<1>2. CASE f = ByName(s)
  <2>1. f.name = s
    BY <1>2 DEF ByName
  <2> QED  BY <1>1, <2>1 DEF statusString
<1>3. CASE \E n \in 1 .. 5 : Statuses[n] = s /\ f = ByNumber(n)
  <2>1. PICK n \in 1 .. 5 : Statuses[n] = s /\ f = ByNumber(n)
    BY <1>3
  <2>2. f.name = "" /\ f.number = n
    BY <2>1 DEF ByNumber
  <2> QED  BY <2>1, <2>2 DEF statusString
<1> QED  BY <1>2, <1>3 DEF Forms

\* The outcomes differ.
LEMMA OutcomeFacts ==
    /\ {Error, TimedOut, NoText} \subseteq Outcomes \ {Unasked, Pending}
    /\ Unasked \in Outcomes /\ Pending \in Outcomes /\ Unasked # Pending
    /\ TimedOut \notin {Unasked, Pending, Error, NoText}
    /\ \A k \in Calls : Text(k) \in Outcomes \ {Unasked, Pending, TimedOut, Error, NoText}
<1>1. /\ Unasked.kind = "unasked" /\ Pending.kind = "pending" /\ Error.kind = "error"
      /\ TimedOut.kind = "timeout" /\ NoText.kind = "empty" /\ \A k : Text(k).kind = "text"
  BY DEF Outcome, Unasked, Pending, Error, TimedOut, NoText, Text
<1>2. {Unasked, Pending, Error, TimedOut, NoText} \subseteq Outcomes /\ \A k \in Calls : Text(k) \in Outcomes
  BY DEF Outcomes
<1>3. "text" \notin {"unasked", "pending", "timeout", "error", "empty"}
  OBVIOUS
<1> QED  BY <1>1, <1>2, <1>3

\* Replies that are none, undecodable, or an error body.
LEMMA ReplyFacts ==
    /\ NoReply.kind = "none" /\ NoReply.id = NoId
    /\ Junk.kind = "junk" /\ Junk.id = NoId
    /\ ErrorBody.kind = "json" /\ ErrorBody.id = NoId /\ statusString(ErrorBody.status) = "unknown"
<1>1. NoReply.kind = "none" /\ NoReply.id = NoId /\ Junk.kind = "junk" /\ Junk.id = NoId
  BY DEF NoReply, Junk, Reply
<1>2. ErrorBody.kind = "json" /\ ErrorBody.id = NoId /\ ErrorBody.status = NoStatus
  BY DEF ErrorBody, Reply
<1>3. NoStatus.name = "" /\ NoStatus.number = 0
  BY DEF NoStatus, ByNumber
<1>4. statusString(NoStatus) = "unknown"
  <2> DEFINE x == NoStatus
  <2>0. 0 \notin 1 .. 5
    OBVIOUS
  <2>1. x.name = "" /\ x.number \notin 1 .. 5
    BY ONLY <1>3, <2>0, Zenon
  <2> HIDE DEF x
  <2>2. statusString(x) = "unknown"
    BY <2>1 DEF statusString
  <2> QED  BY <2>2 DEF x
<1> QED  BY <1>1, <1>2, <1>4

\* Nothing has been asked at the start.
LEMMA InitJInv == Init => JInv
<1> SUFFICES ASSUME Init PROVE JInv
  OBVIOUS
<1>1. TypeOK
  BY OutcomeFacts, ReplyFacts DEF Init, TypeOK, NoId, Calls
<1>2. WireOK
  BY ReplyFacts DEF Init, WireOK
<1>3. CallsOK
  BY OutcomeFacts DEF Init, CallsOK, NoId, Calls
<1>4. UnheardOK
  BY DEF Init, UnheardOK, OnlyLateAnswersMissed
<1> QED  BY <1>1, <1>2, <1>3, <1>4 DEF JInv

\* A call that is under way may return with any outcome, but with a timeout only
\* if nothing was missed for long.
LEMMA FinishJInv ==
    ASSUME JInv, pc # "idle", NEW out \in Outcomes \ {Unasked, Pending}, Finish(out),
           out = TimedOut => unheard <= Timeout + Sleep
    PROVE  JInv'
<1>0. call \in Calls /\ answer \in [Calls -> Outcomes]
  BY DEF JInv, CallsOK, TypeOK
<1>1. answer' \in [Calls -> Outcomes] /\ answer'[call] = out /\ \A k \in Calls \ {call} : answer'[k] = answer[k]
  BY <1>0 DEF Finish
<1>2. /\ pc' = "idle" /\ id' = NoId /\ wire' = NoReply /\ timer' = 0
      /\ UNCHANGED <<client, call, preds, ctx, polled, elapsed, overtime, unheard>>
  BY DEF Finish
<1>3. TypeOK'
  BY <1>1, <1>2, ReplyFacts DEF JInv, TypeOK, NoId
<1>4. WireOK'
  BY <1>2, ReplyFacts DEF WireOK
<1>5. CallsOK'
  BY <1>0, <1>1, <1>2 DEF JInv, CallsOK, Calls
<1>6. UnheardOK'
  BY <1>1, <1>2 DEF JInv, UnheardOK, OnlyLateAnswersMissed
<1> QED  BY <1>3, <1>4, <1>5, <1>6 DEF JInv

\* Every step of the client, the provider and the clock keeps the invariant.
LEMMA NextJInv == JInv /\ [Next]_vars => JInv'
<1> SUFFICES ASSUME JInv, [Next]_vars PROVE JInv'
  OBVIOUS
<1>1. CASE Ask
  <2>1. /\ pc = "idle" /\ pc' = "start" /\ call' = call + 1 /\ call \in Nat /\ call' \in Calls
        /\ UNCHANGED <<client, id, wire, preds, ctx, timer>>
        /\ polled' = 0 /\ elapsed' = 0 /\ overtime' = 0 /\ unheard' = 0
    BY <1>1 DEF Ask, JInv, TypeOK, Calls
  <2>2. /\ answer' \in [Calls -> Outcomes] /\ answer'[call'] = Pending
        /\ \A k \in Calls \ {call'} : answer'[k] = answer[k]
    BY <1>1, <2>1, OutcomeFacts DEF Ask, JInv, TypeOK
  <2>3. TypeOK'
    BY <2>1, <2>2 DEF JInv, TypeOK, Calls
  <2>4. WireOK'
    BY <2>1 DEF JInv, WireOK
  <2>5. CallsOK'
    BY <2>1, <2>2, OutcomeFacts DEF JInv, CallsOK, Calls
  <2>6. UnheardOK'
    BY <2>1 DEF UnheardOK, OnlyLateAnswersMissed
  <2> QED  BY <2>3, <2>4, <2>5, <2>6 DEF JInv
<1>2. CASE NoopComplete \/ Refuse \/ Undecodable \/ Failed \/ HttpTimeout \/ Aborted \/ NetworkError
  <2>1. PICK out \in {Error, NoText} : Finish(out)
    BY <1>2 DEF NoopComplete, Refuse, Undecodable, Failed, HttpTimeout, Aborted, NetworkError
  <2>2. pc # "idle"
    BY <1>2, ReplyFacts DEF NoopComplete, Refuse, Undecodable, Failed, HttpTimeout, Aborted, NetworkError,
                            Cancellable, JInv, WireOK
  <2>3. out \in Outcomes \ {Unasked, Pending} /\ out # TimedOut
    BY <2>1, OutcomeFacts
  <2> QED  BY <2>1, <2>2, <2>3, FinishJInv
<1>3. CASE Succeeded
  <2>1. pc # "idle" /\ wire.id = call /\ Finish(Text(call))
    BY <1>3 DEF Succeeded, JInv, WireOK
  <2>2. call \in Calls
    BY <2>1 DEF JInv, CallsOK
  <2>3. Text(call) \in Outcomes \ {Unasked, Pending} /\ Text(call) # TimedOut
    BY <2>2, OutcomeFacts
  <2> QED  BY <2>1, <2>3, FinishJInv
<1>4. CASE Post
  <2>1. /\ pc = "start" /\ pc' = "post" /\ wire' = NoReply /\ timer' = 0
        /\ UNCHANGED <<client, call, answer, preds, ctx, polled, elapsed, overtime, id, unheard>>
    BY <1>4 DEF Post, GoTo
  <2>2. TypeOK'
    BY <2>1, ReplyFacts DEF JInv, TypeOK, NoId
  <2>3. WireOK'
    BY <2>1, ReplyFacts DEF WireOK
  <2>4. CallsOK'
    BY <2>1 DEF JInv, CallsOK
  <2>5. UnheardOK'
    BY <2>1 DEF JInv, UnheardOK, OnlyLateAnswersMissed
  <2> QED  BY <2>2, <2>3, <2>4, <2>5 DEF JInv
<1>5. CASE Unfinished
  <2>1. /\ wire' = NoReply /\ timer' = 0 /\ UNCHANGED <<client, call, answer, preds, ctx, polled, elapsed, overtime>>
        /\ (pc = "post" /\ pc' = "check" /\ id' = wire.id) \/ (pc = "get" /\ pc' = "sleep" /\ id' = id)
        /\ unheard' = IF wire.id = NoId THEN 0 ELSE unheard
        /\ wire.kind = "json" /\ statusString(wire.status) # "succeeded"
    BY <1>5 DEF Unfinished, GoTo
  <2>2. TypeOK'
    BY <2>1, ReplyFacts DEF JInv, TypeOK, NoId
  <2>3. WireOK'
    BY <2>1, ReplyFacts DEF WireOK
  <2>4. CallsOK'
    BY <2>1 DEF JInv, CallsOK, WireOK
  <2>5. timer \in Nat /\ timer <= Timeout /\ unheard \in Nat
    BY <2>1 DEF JInv, TypeOK
  <2>6. UnheardOK'
    BY <2>1, <2>5 DEF JInv, UnheardOK, OnlyLateAnswersMissed
  <2> QED  BY <2>2, <2>3, <2>4, <2>6 DEF JInv
<1>6. CASE Check
  <2>1. CASE Finish(TimedOut)
    <3>1. pc # "idle" /\ unheard <= Timeout + Sleep
      BY <1>6 DEF Check, JInv, UnheardOK
    <3> QED  BY <2>1, <3>1, OutcomeFacts, FinishJInv
  <2>2. CASE GoTo("get") /\ UNCHANGED <<id, unheard>>
    <3>1. /\ pc = "check" /\ pc' = "get" /\ wire' = NoReply /\ timer' = 0
          /\ UNCHANGED <<client, call, answer, preds, ctx, polled, elapsed, overtime, id, unheard>>
      BY <1>6, <2>2 DEF Check, GoTo
    <3>2. TypeOK'
      BY <3>1, ReplyFacts DEF JInv, TypeOK, NoId
    <3>3. WireOK'
      BY <3>1, ReplyFacts DEF WireOK
    <3>4. CallsOK'
      BY <3>1 DEF JInv, CallsOK
    <3>5. UnheardOK'
      BY <3>1, ReplyFacts DEF JInv, UnheardOK, OnlyLateAnswersMissed
    <3> QED  BY <3>2, <3>3, <3>4, <3>5 DEF JInv
  <2> QED  BY <1>6, <2>1, <2>2 DEF Check
<1>7. CASE Wake
  <2>1. /\ pc = "sleep" /\ timer = Sleep /\ pc' = "check" /\ wire' = NoReply /\ timer' = 0
        /\ UNCHANGED <<client, call, answer, preds, ctx, polled, elapsed, overtime, id, unheard>>
    BY <1>7 DEF Wake, GoTo
  <2>2. TypeOK'
    BY <2>1, ReplyFacts DEF JInv, TypeOK, NoId
  <2>3. WireOK'
    BY <2>1, ReplyFacts DEF WireOK
  <2>4. CallsOK'
    BY <2>1 DEF JInv, CallsOK
  <2>5. UnheardOK'
    BY <2>1 DEF JInv, UnheardOK, OnlyLateAnswersMissed
  <2> QED  BY <2>2, <2>3, <2>4, <2>5 DEF JInv
<1>8. CASE Create
  <2>1. /\ call \in Calls /\ preds' = [preds EXCEPT ![call] = "starting"] /\ preds[call] = "none"
        /\ UNCHANGED <<client, pc, call, answer, id, wire, ctx, timer, polled, elapsed, overtime, unheard>>
    BY <1>8 DEF Create, JInv, CallsOK, local, clocks
  <2>2. TypeOK'
    BY <2>1 DEF JInv, TypeOK
  <2>3. WireOK'
    BY <2>1 DEF JInv, WireOK
  <2>4. CallsOK'
    BY <2>1 DEF JInv, CallsOK, Calls, TypeOK
  <2>5. UnheardOK'
    BY <2>1 DEF JInv, UnheardOK, OnlyLateAnswersMissed
  <2> QED  BY <2>2, <2>3, <2>4, <2>5 DEF JInv
<1>9. CASE \E k \in Calls : Progress(k)
  <2>1. PICK k \in Calls : Progress(k)
    BY <1>9
  <2>2. PICK s \in {"processing", "succeeded", "failed", "canceled"} : preds' = [preds EXCEPT ![k] = s]
    BY <2>1 DEF Progress
  <2>3. /\ preds[k] \in {"starting", "processing"} /\ preds' = [preds EXCEPT ![k] = s]
        /\ UNCHANGED <<client, pc, call, answer, id, wire, ctx, timer, polled, elapsed, overtime, unheard>>
    BY <2>1, <2>2 DEF Progress, local, clocks
  <2>4. TypeOK'
    BY <2>3 DEF JInv, TypeOK
  <2>5. WireOK'
    BY <2>3 DEF JInv, WireOK, TypeOK, CallsOK
  <2>6. CallsOK'
    BY <2>3 DEF JInv, CallsOK, TypeOK
  <2>7. UnheardOK'
    BY <2>3 DEF JInv, UnheardOK, OnlyLateAnswersMissed, TypeOK, CallsOK
  <2> QED  BY <2>4, <2>5, <2>6, <2>7 DEF JInv
<1>10. CASE Respond
  <2>1. /\ pc \in {"post", "get"} /\ Requested = call /\ call \in Calls
        /\ UNCHANGED <<client, pc, call, answer, id, preds, ctx, timer, polled, elapsed, overtime, unheard>>
    BY <1>10 DEF Respond, InFlight, Requested, JInv, CallsOK, clocks, Calls, NoId
  <2>2. preds[call] \in {"starting", "processing", "succeeded", "failed", "canceled"}
    BY <1>10, <2>1 DEF Respond, JInv, TypeOK
  <2>3. PICK f \in Forms(preds[call]) : wire' = Reply("json", call, f)
    BY <1>10, <2>1 DEF Respond
  <2>4. statusString(f) = preds[call]
    BY <2>2, <2>3, FormsMeaning
  <2>5. wire'.kind = "json" /\ wire'.id = call /\ statusString(wire'.status) = preds[call]
    BY <2>3, <2>4 DEF Reply
  <2>6. call # NoId
    BY <2>1 DEF Calls, NoId
  <2>7. TypeOK'
    BY <2>1, <2>5 DEF JInv, TypeOK
  <2>8. WireOK'
    BY <2>1, <2>5, <2>6 DEF WireOK
  <2>9. CallsOK'
    BY <2>1 DEF JInv, CallsOK
  <2>10. UnheardOK'
    BY <2>1, <2>5 DEF JInv, UnheardOK, OnlyLateAnswersMissed, TypeOK
  <2> QED  BY <2>7, <2>8, <2>9, <2>10 DEF JInv
<1>11. CASE BadReply
  <2>1. /\ pc \in {"post", "get"} /\ wire' \in {Junk, ErrorBody}
        /\ UNCHANGED <<client, pc, call, answer, id, preds, ctx, timer, polled, elapsed, overtime, unheard>>
    BY <1>11 DEF BadReply, InFlight, clocks
  <2>2. TypeOK'
    BY <2>1, ReplyFacts DEF JInv, TypeOK, NoId
  <2>3. WireOK'
    BY <2>1, ReplyFacts DEF WireOK
  <2>4. CallsOK'
    BY <2>1 DEF JInv, CallsOK
  <2>5. UnheardOK'
    BY <2>1, ReplyFacts DEF JInv, UnheardOK, OnlyLateAnswersMissed
  <2> QED  BY <2>2, <2>3, <2>4, <2>5 DEF JInv
<1>12. CASE Cancel \/ UNCHANGED vars
  <2>1. /\ ctx' \in {ctx, "cancelled"}
        /\ UNCHANGED <<client, pc, call, answer, id, wire, preds, timer, polled, elapsed, overtime, unheard>>
    BY <1>12 DEF Cancel, vars, local, clocks
  <2>2. TypeOK'
    BY <2>1 DEF JInv, TypeOK
  <2>3. WireOK'
    BY <2>1 DEF JInv, WireOK
  <2>4. CallsOK'
    BY <2>1 DEF JInv, CallsOK
  <2>5. UnheardOK'
    BY <2>1 DEF JInv, UnheardOK, OnlyLateAnswersMissed
  <2> QED  BY <2>2, <2>3, <2>4, <2>5 DEF JInv
<1>13. CASE Tick
  <2>1. /\ pc \in {"post", "get", "sleep"} /\ timer' = timer + 1
        /\ timer < (IF pc = "sleep" THEN Sleep ELSE Timeout)
        /\ polled' = (IF pc = "post" THEN 0 ELSE polled + 1) /\ elapsed' = elapsed + 1
        /\ overtime' = (IF ctx = "cancelled" THEN overtime + 1 ELSE 0)
        /\ unheard' = (IF preds[call] = "succeeded" THEN unheard + 1 ELSE 0)
        /\ UNCHANGED <<client, pc, call, answer, id, wire, preds, ctx>>
    BY <1>13 DEF Tick, WaitLimit, local
  <2>2. TypeOK'
    BY <2>1 DEF JInv, TypeOK
  <2>3. WireOK'
    BY <2>1 DEF JInv, WireOK
  <2>4. CallsOK'
    BY <2>1 DEF JInv, CallsOK
  <2>5. timer \in Nat /\ unheard \in Nat
    BY DEF JInv, TypeOK
  <2>6. UnheardOK'
    BY <2>1, <2>5 DEF JInv, UnheardOK, OnlyLateAnswersMissed
  <2> QED  BY <2>2, <2>3, <2>4, <2>6 DEF JInv
<1> QED
  BY <1>1, <1>2, <1>3, <1>4, <1>5, <1>6, <1>7, <1>8, <1>9, <1>10, <1>11, <1>12, <1>13
  DEF Next, Complete, Provider

\* That invariant holds in every state.
THEOREM KnowsItsPrediction == Spec => []JInv
BY InitJInv, NextJInv, PTL DEF Spec

\* The client and the provider keep their types, and no wait outlasts its timer.
THEOREM TypeCorrect == Spec => []TypeOK
<1>1. JInv => TypeOK
  BY DEF JInv
<1> QED  BY <1>1, KnowsItsPrediction, PTL

\* When poll gives up on a prediction that has succeeded, at most one request and
\* one sleep went by since it succeeded or a reply hid it.
THEOREM MissesOnlyLateAnswers == Spec => []OnlyLateAnswersMissed
<1>1. JInv => OnlyLateAnswersMissed
  BY DEF JInv, UnheardOK
<1> QED  BY <1>1, KnowsItsPrediction, PTL

-----------------------------------------------------------------------------
(* Complete implements LLMService *)

\* Nothing asked maps to nothing asked.
LEMMA InitRefines == Init => Service!Init
<1> SUFFICES ASSUME Init PROVE Service!Init
  OBVIOUS
<1>1. \A k \in Calls : Seen(answer[k]) = Unasked
  BY OutcomeFacts DEF Init, Seen
<1>2. {k \in Calls : preds[k] = "succeeded"} = {}
  BY DEF Init
<1> QED  BY <1>1, <1>2 DEF Service!Init, Service!Calls, Service!Unasked, Service!Outcome, Calls, Unasked, Outcome

\* Each step asks one call, answers the one that waits, succeeds at the provider,
\* or is invisible to the caller.
LEMMA StepRefines == JInv /\ [Next]_vars => [Service!Next]_(Service!vars)
<1> SUFFICES ASSUME JInv, [Next]_vars PROVE Service!Next \/ UNCHANGED Service!vars
  OBVIOUS
<1> DEFINE bar == [k \in Calls |-> Seen(answer[k])]
           won == {k \in Calls : preds[k] = "succeeded"}
<1> USE DEF Service!vars
<1>0. answer \in [Calls -> Outcomes] /\ preds \in [Calls -> {"none", "starting", "processing", "succeeded", "failed", "canceled"}]
  BY DEF JInv, TypeOK
<1>1. ASSUME UNCHANGED <<answer, preds>> PROVE UNCHANGED Service!vars
  BY <1>1 DEF Seen
<1>2. ASSUME NEW out \in {Error, NoText, TimedOut} \cup {Text(k) : k \in won \cap {call}}, Finish(out), pc # "idle"
      PROVE  Service!Next
  <2>1. call \in Calls /\ answer[call] = Pending
    BY <1>2 DEF JInv, CallsOK
  <2>2. Seen(out) \in {Error, NoText} \cup {Text(k) : k \in won \cap {call}}
    BY <1>2 DEF Seen
  <2>3. bar' = [bar EXCEPT ![call] = Seen(out)] /\ won' = won
    BY <1>0, <1>2, <2>1 DEF Finish
  <2>4. bar[call] = Pending
    BY <2>1, OutcomeFacts DEF Seen
  <2>5. Service!Return(call)
    BY <2>2, <2>3, <2>4 DEF Service!Return, Service!Pending, Service!Error, Service!NoText, Service!Text,
       Service!Outcome, Pending, Error, NoText, Text, Outcome
  <2> QED  BY <2>1, <2>5 DEF Service!Next, Service!Calls, Calls
<1>3. CASE Ask
  <2>1. call + 1 \in Calls /\ answer' = [answer EXCEPT ![call + 1] = Pending] /\ preds' = preds /\ pc = "idle" /\ call \in Nat
    BY <1>3 DEF Ask, JInv, TypeOK, Calls
  <2>2. answer[call + 1] = Unasked /\ \A k \in Calls : answer[k] # Pending
    BY <2>1 DEF JInv, CallsOK
  <2>3. bar[call + 1] = Unasked /\ \A k \in Calls : bar[k] # Pending
    BY <2>1, <2>2, OutcomeFacts DEF Seen, Outcome, Error, Pending
  <2>4. bar' = [bar EXCEPT ![call + 1] = Pending] /\ won' = won
    <3>1. Seen(Pending) = Pending
      BY OutcomeFacts DEF Seen
    <3> QED  BY <1>0, <2>1, <3>1
  <2>5. Service!Ask(call + 1)
    BY <2>3, <2>4 DEF Service!Ask, Service!Pending, Service!Unasked, Service!Outcome, Service!Calls, Calls, Pending, Unasked, Outcome
  <2> QED  BY <2>1, <2>5 DEF Service!Next, Service!Calls, Calls
<1>4. CASE NoopComplete \/ Refuse \/ Undecodable \/ Failed \/ HttpTimeout \/ Aborted \/ NetworkError
  <2>1. PICK out \in {Error, NoText} : Finish(out)
    BY <1>4 DEF NoopComplete, Refuse, Undecodable, Failed, HttpTimeout, Aborted, NetworkError
  <2>2. pc # "idle"
    BY <1>4, ReplyFacts DEF NoopComplete, Refuse, Undecodable, Failed, HttpTimeout, Aborted, NetworkError,
                            Cancellable, JInv, WireOK
  <2> QED  BY <1>2, <2>1, <2>2
<1>5. CASE Succeeded
  <2>1. pc # "idle" /\ Finish(Text(call)) /\ preds[call] = "succeeded"
    BY <1>5 DEF Succeeded, JInv, WireOK
  <2>2. call \in won
    BY <2>1 DEF JInv, CallsOK
  <2> QED  BY <1>2, <2>1, <2>2
<1>6. CASE Check
  <2>1. pc # "idle" /\ (Finish(TimedOut) \/ UNCHANGED <<answer, preds>>)
    BY <1>6 DEF Check, GoTo
  <2> QED  BY <1>1, <1>2, <2>1
<1>7. CASE \E k \in Calls : Progress(k)
  <2>1. PICK k \in Calls : Progress(k)
    BY <1>7
  <2>2. PICK s \in {"processing", "succeeded", "failed", "canceled"} : preds' = [preds EXCEPT ![k] = s]
    BY <2>1 DEF Progress
  <2>3. answer' = answer /\ preds[k] \in {"starting", "processing"} /\ bar' = bar
    BY <2>1 DEF Progress, local
  <2>4. CASE s = "succeeded"
    <3>1. won' = won \cup {k}
      BY <1>0, <2>2, <2>4
    <3>2. bar[k] # Unasked
      <4>1. answer[k] # Unasked
        BY <2>3 DEF JInv, CallsOK, Calls, TypeOK
      <4> QED  BY <4>1 DEF Seen, Outcome, Error, Unasked
    <3>3. Service!Succeed(k)
      BY <2>3, <3>1, <3>2 DEF Service!Succeed, Service!Unasked, Service!Outcome, Unasked, Outcome
    <3> QED  BY <3>3 DEF Service!Next, Service!Calls, Calls
  <2>5. CASE s # "succeeded"
    <3>1. won' = won
      BY <1>0, <2>2, <2>3, <2>5
    <3> QED  BY <2>3, <3>1
  <2> QED  BY <2>4, <2>5
<1>8. CASE Create
  <2>1. answer' = answer /\ preds' = [preds EXCEPT ![call] = "starting"] /\ preds[call] = "none" /\ bar' = bar
    BY <1>8 DEF Create, local
  <2>2. won' = won
    BY <1>0, <2>1
  <2> QED  BY <2>1, <2>2
<1>9. CASE Post \/ Unfinished \/ Wake \/ Respond \/ BadReply \/ Cancel \/ Tick \/ UNCHANGED vars
  <2>1. UNCHANGED <<answer, preds>>
    BY <1>9 DEF Post, Unfinished, Wake, Respond, BadReply, Cancel, Tick, GoTo, vars, local
  <2> QED  BY <1>1, <2>1
<1> QED  BY <1>3, <1>4, <1>5, <1>6, <1>7, <1>8, <1>9 DEF Next, Complete, Provider

\* The safety half of ImplementsLLMService: one answer per call, and the text only
\* of the call's own prediction, once that has succeeded.
THEOREM Refinement == Spec => Service!Spec
BY InitRefines, StepRefines, KnowsItsPrediction, PTL DEF Spec, Service!Spec

=============================================================================
