------------------------------ MODULE Feedback ------------------------------
(***************************************************************************)
(* Ratings of one session: POST /feedback records a rating in Redis and in *)
(* Postgres, and the optimizer's RollupConversationFeedback later moves    *)
(* the per-conversation counters of Redis into per-variant totals, while   *)
(* ratings go on arriving.  There is no transaction: a pass sends one      *)
(* Redis command per step, RecordFeedback a plain pipeline, whose commands *)
(* other clients' may fall between, and go-redis sends a command or a      *)
(* whole pipeline again when its reply is lost.                            *)
(***************************************************************************)
EXTENDS Integers, FiniteSets, Functions

CONSTANTS
    Convs,        \* conversations of the session
    Variants,     \* variant ids
    None,         \* the empty id
    ServedBy,     \* the variant that served each conversation, or None
    Clients,      \* which headers the clients of this instance send
    Handlers,     \* requests of POST /feedback served at the same time
    MaxSends,     \* how often go-redis sends a command: once, and its retries
    MaxRatings,   \* bound: requests of POST /feedback in one behaviour
    MaxRolled,    \* bound: no pass starts once more than this was rolled up
    MaxRepeated,  \* bound: nothing is sent again once this was counted twice
    Faults        \* the faults this instance is exposed to

\* "documented" sends X-PG-Conversation-Id and X-PG-Variant-Id, as the docs and
\* the studio do; "source" sends X-PG-Variant, the name handleFeedback reads;
\* "variant" sends that name and no conversation id; "bare" sends neither.
ClientKinds == {"documented", "source", "variant", "bare"}

ASSUME FeedbackAssumption ==
    /\ None \notin Convs \cup Variants
    /\ IsFiniteSet(Convs) /\ IsFiniteSet(Variants)
    /\ ServedBy \in [Convs -> Variants \cup {None}]
    /\ Clients \subseteq ClientKinds
    /\ MaxSends \in Nat \ {0}
    /\ MaxRatings \in Nat /\ MaxRolled \in Nat /\ MaxRepeated \in Nat
    /\ Faults \subseteq {"redis", "pg", "crash"}

VARIABLES
    convs,     \* pg:conversation_feedback: counters and variantId, per conversation
    session,   \* up and down rolled up into pg:session_feedback
    totals,    \* pg:feedback: up and down, per variant
    events,    \* feedback_events: the (conversation, variant) pairs stored
    requests,  \* how many requests of POST /feedback were handled
    rating,    \* where each RecordFeedback is and what it records
    roll,      \* where RollupConversationFeedback is and what it has read
    given,     \* auxiliary: ratings Redis has counted, per conversation
    repeated,  \* auxiliary: what a command sent again, or a key that outlived
               \* the pass that counted it, counts a second time
    inferred   \* auxiliary: a rating was recorded under inferred ids

tallies == <<convs, session, totals>>
counted == <<given, repeated>>
vars == <<tallies, events, requests, rating, roll, counted, inferred>>

Dirs == {"up", "down"}
Zero == [d \in Dirs |-> 0]
NoKey == [live |-> FALSE, count |-> Zero, variant |-> None]
IdleRating == [pc |-> "idle", conv |-> None, variant |-> None, dirs |-> {}, sent |-> 0, known |-> FALSE]
IdleRoll == [pc |-> "idle", conv |-> None, read |-> NoKey, added |-> {}, todo |-> {}]

Init ==
    /\ convs = [c \in Convs |-> NoKey]
    /\ session = Zero
    /\ totals = [v \in Variants |-> Zero]
    /\ events = {}
    /\ requests = 0
    /\ rating = [h \in Handlers |-> IdleRating]
    /\ roll = IdleRoll
    /\ given = [c \in Convs |-> Zero]
    /\ repeated = Zero
    /\ inferred = FALSE

-----------------------------------------------------------------------------
(* handleFeedback and RecordFeedback *)

Direction(n) == CASE n > 0 -> {"up"} [] n < 0 -> {"down"} [] OTHER -> {}
Bump(count, ds, n) == [d \in Dirs |-> IF d \in ds THEN count[d] + n ELSE count[d]]

\* What GetSessionInfo finds in the last 21 log entries: the conversation of the
\* newest request, and the newest variant named.  The proxy's goroutines write
\* entries of any request at any time, in any order, and the entries of an
\* untreated request name no variant: every pair is possible.
SessionInfo == [conv : Convs \cup {None}, variant : Variants \cup {None}]

\* Mutant of Target: the variant is taken from the session although the
\* conversation came in a header.
TargetLatestVariant(client, c, info) ==
    [conv |-> c, variant |-> info.variant]

\* The ids the handler records: from the headers, or inferred from the session
\* when there is no conversation header.
Target(client, c, info) ==
    CASE client = "documented" -> [conv |-> c, variant |-> None]
      [] client = "source"     -> [conv |-> c, variant |-> ServedBy[c]]
      [] client = "variant"    -> [conv |-> info.conv,
                                   variant |-> IF ServedBy[c] # None THEN ServedBy[c] ELSE info.variant]
      [] client = "bare"       -> info

\* One more request, within the bound.
Handled == requests < MaxRatings /\ requests' = requests + 1

Asked(t, n) == [pc |-> "key", conv |-> t.conv, variant |-> t.variant,
                dirs |-> Direction(n), sent |-> 1, known |-> FALSE]

\* Mutant of HandleFeedback: no early return without a conversation id.
HandleFeedbackUnchecked(h, client, c, n) ==
    /\ rating[h].pc = "idle"
    /\ Handled
    /\ \E info \in SessionInfo :
         LET t == Target(client, c, info)
         IN  rating' = [rating EXCEPT ![h] = Asked(t, n)]
    /\ UNCHANGED <<tallies, events, roll, counted, inferred>>

\* A rating by the client that got the answer of c.  Without a conversation id
\* nothing is recorded, and the client is told {"ok": true}.
HandleFeedback(h, client, c, n) ==
    /\ rating[h].pc = "idle"
    /\ Handled
    /\ \E info \in SessionInfo :
         LET t == Target(client, c, info)
         IN  /\ t.conv # None
             /\ rating' = [rating EXCEPT ![h] = Asked(t, n)]
             /\ inferred' = (inferred \/ client \in {"variant", "bare"})
    /\ UNCHANGED <<tallies, events, roll, counted>>

\* HINCRBY of the conversation's key; no such command for a rating of 0.
CountInKey(h) ==
    LET r == rating[h]
        c == r.conv
    IN  /\ r.pc = "key"
        /\ rating' = [rating EXCEPT ![h].pc = "name", ![h].known = TRUE]
        /\ IF r.dirs = {}
             THEN UNCHANGED convs
             ELSE convs' = [convs EXCEPT ![c].live = TRUE, ![c].count = Bump(@, r.dirs, 1)]
        /\ IF r.known
             THEN repeated' = Bump(repeated, r.dirs, 1) /\ UNCHANGED given
             ELSE given' = [given EXCEPT ![c] = Bump(@, r.dirs, 1)] /\ UNCHANGED repeated
        /\ UNCHANGED <<session, totals, events, requests, roll, inferred>>

\* HSET of variantId.  The rest of the pipeline is what nobody here reads: the
\* other fields of the key, and the session's totalRated, up and down.
NameInKey(h) ==
    LET r == rating[h]
    IN  /\ r.pc = "name"
        /\ rating' = [rating EXCEPT ![h].pc = "pg"]
        /\ convs' = [convs EXCEPT ![r.conv].live = TRUE, ![r.conv].variant = r.variant]
        /\ UNCHANGED <<session, totals, events, requests, roll, counted, inferred>>

\* The most go-redis sends a command, and the most Redis executes it.
Sends == IF repeated["up"] + repeated["down"] < MaxRepeated THEN MaxSends ELSE 1
Executions == IF "redis" \in Faults THEN 0 .. Sends ELSE {1}

\* The connection broke, before or after the last command: the pipeline is sent
\* again from its start, while a retry is left.
SendAgain(h) ==
    /\ "redis" \in Faults
    /\ rating[h].pc # "idle" /\ rating[h].sent < Sends
    /\ rating' = [rating EXCEPT ![h].pc = "key", ![h].sent = @ + 1]
    /\ UNCHANGED <<tallies, events, requests, roll, counted, inferred>>

\* An error of Redis, with what the pipeline had done until then: Postgres is
\* written all the same.
GiveUp(h) ==
    /\ "redis" \in Faults
    /\ rating[h].pc \in {"key", "name"}
    /\ rating' = [rating EXCEPT ![h].pc = "pg", ![h].sent = MaxSends]
    /\ UNCHANGED <<tallies, events, requests, roll, counted, inferred>>

\* The append to feedback_events; the end of the request.
RecordPg(h) ==
    /\ rating[h].pc = "pg"
    /\ rating' = [rating EXCEPT ![h] = IdleRating]
    /\ \/ events' = events \cup {<<rating[h].conv, rating[h].variant>>}
       \/ "pg" \in Faults /\ UNCHANGED events
    /\ UNCHANGED <<tallies, requests, roll, counted, inferred>>

RecordFeedback(h) ==
    CountInKey(h) \/ NameInKey(h) \/ SendAgain(h) \/ GiveUp(h) \/ RecordPg(h)

ProxyCrash ==
    /\ "crash" \in Faults
    /\ rating' = [h \in Handlers |-> IdleRating]
    /\ UNCHANGED <<tallies, events, requests, roll, counted, inferred>>

-----------------------------------------------------------------------------
(* RollupConversationFeedback *)

\* Ratings counted at least once; what is rolled up into totals and into the
\* session; what still waits in conversation keys; what the pass has added of
\* the key it has not yet deleted.
Given(d) == SumFunction([c \in Convs |-> given[c][d]])
RolledUp(d) == SumFunction([v \in Variants |-> totals[v][d]]) + session[d]
Waiting(d) == SumFunction([c \in Convs |-> convs[c].count[d]])
Added(d) == IF d \in roll.added THEN roll.read.count[d] ELSE 0

\* SCAN.  (A key created during the pass is taken by this pass or by the next.)
RollupScan ==
    /\ roll.pc = "idle"
    /\ \E c \in Convs : convs[c].live
    /\ \A d \in Dirs : RolledUp(d) <= MaxRolled
    /\ roll' = [IdleRoll EXCEPT !.pc = "next", !.todo = {c \in Convs : convs[c].live}]
    /\ UNCHANGED <<tallies, events, requests, rating, counted, inferred>>

\* HGETALL of the next key; on an error the key is skipped.
RollupRead(c) ==
    /\ roll.pc = "next"
    /\ c \in roll.todo
    /\ \/ roll' = [pc |-> "up", conv |-> c, read |-> convs[c], added |-> {}, todo |-> roll.todo \ {c}]
       \/ "redis" \in Faults /\ roll' = [roll EXCEPT !.todo = @ \ {c}]
    /\ UNCHANGED <<tallies, events, requests, rating, counted, inferred>>

\* HINCRBY of one direction, executed k times, into the variant's totals, or
\* into the session's when the rating named no variant.
HIncrBy(d, k) ==
    LET v == roll.read.variant
        n == roll.read.count[d]
    IN  IF v = None
          THEN /\ session' = Bump(session, {d}, k * n)
               /\ UNCHANGED totals
          ELSE /\ totals' = [totals EXCEPT ![v] = Bump(@, {d}, k * n)]
               /\ UNCHANGED session

\* The result of HINCRBY is not looked at.
RollupAdd(d) ==
    /\ roll.pc = d
    /\ \E k \in Executions :
         /\ HIncrBy(d, k)
         /\ roll' = [roll EXCEPT !.pc = IF d = "up" THEN "down" ELSE "del",
                                 !.added = IF k = 0 THEN @ ELSE @ \cup {d}]
         /\ repeated' = IF k = 0 THEN repeated ELSE Bump(repeated, {d}, (k - 1) * roll.read.count[d])
    /\ UNCHANGED <<convs, events, requests, rating, given, inferred>>

\* The pass is over with the key, which is still there: it will be added again.
KeepKey == repeated' = [d \in Dirs |-> repeated[d] + Added(d)]

\* Mutant of RollupDel: the key is left where it is.
RollupKeep ==
    /\ roll.pc = "del"
    /\ roll' = [IdleRoll EXCEPT !.pc = "next", !.todo = roll.todo]
    /\ UNCHANGED <<tallies, events, requests, rating, counted, inferred>>

\* DEL of the key, whatever was added to it since HGETALL; the result is not
\* looked at either.
RollupDel ==
    /\ roll.pc = "del"
    /\ roll' = [IdleRoll EXCEPT !.pc = "next", !.todo = roll.todo]
    /\ \/ convs' = [convs EXCEPT ![roll.conv] = NoKey] /\ UNCHANGED repeated
       \/ "redis" \in Faults /\ KeepKey /\ UNCHANGED convs
    /\ UNCHANGED <<session, totals, events, requests, rating, given, inferred>>

RollupEnd ==
    /\ roll.pc = "next"
    /\ roll.todo = {}
    /\ roll' = IdleRoll
    /\ UNCHANGED <<tallies, events, requests, rating, counted, inferred>>

OptimizerCrash ==
    /\ "crash" \in Faults
    /\ roll.pc # "idle"
    /\ roll' = IdleRoll
    /\ KeepKey
    /\ UNCHANGED <<tallies, events, requests, rating, given, inferred>>

Rollup ==
    \/ RollupScan
    \/ \E c \in Convs : RollupRead(c)
    \/ \E d \in Dirs : RollupAdd(d)
    \/ RollupDel
    \/ RollupEnd

Next ==
    \/ \E h \in Handlers, client \in Clients, c \in Convs, n \in {-1, 0, 1} : HandleFeedback(h, client, c, n)
    \/ \E h \in Handlers : RecordFeedback(h)
    \/ ProxyCrash
    \/ Rollup
    \/ OptimizerCrash

Spec == Init /\ [][Next]_vars

-----------------------------------------------------------------------------
(* Properties *)

Counts == [Dirs -> Nat]
Keys == [live : BOOLEAN, count : Counts, variant : Variants \cup {None}]
Ratings == [pc : {"idle", "key", "name", "pg"}, conv : Convs \cup {None},
            variant : Variants \cup {None}, dirs : SUBSET Dirs, sent : 0 .. MaxSends, known : BOOLEAN]
Passes == [pc : {"idle", "next", "up", "down", "del"}, conv : Convs \cup {None},
           read : Keys, added : SUBSET Dirs, todo : SUBSET Convs]

\* The state keeps its types.
TypeOK ==
    /\ convs \in [Convs -> Keys]
    /\ \A c \in Convs : ~convs[c].live => convs[c] = NoKey
    /\ session \in Counts
    /\ totals \in [Variants -> Counts]
    /\ events \subseteq Convs \X (Variants \cup {None})
    /\ requests \in 0 .. MaxRatings
    /\ rating \in [Handlers -> Ratings]
    /\ \A h \in Handlers : rating[h].pc # "idle" => rating[h].conv \in Convs
    /\ roll \in Passes
    /\ given \in [Convs -> Counts]
    /\ repeated \in Counts
    /\ inferred \in BOOLEAN

\* However the commands of ratings and of a pass interleave, and whatever else
\* fails, what is counted beyond the ratings given is accounted for, one for
\* one, by commands executed again after a lost reply and by keys that outlived
\* the pass that added them (DEL failed, or the optimizer died before it).
OvercountAccounted ==
    \A d \in Dirs : RolledUp(d) + Waiting(d) - Added(d) <= Given(d) + repeated[d]

\* However conversations, headers and passes mix, and whatever command fails, is
\* sent again or cut off, ratings that name their conversation are never
\* credited, in Postgres or in the totals of Redis, to a variant that did not
\* serve it.
ServedConvs(v) == {c \in Convs : ServedBy[c] = v}
NeverMisattributed ==
    ~inferred =>
        /\ \A e \in events : e[2] # None => ServedBy[e[1]] = e[2]
        /\ \A v \in Variants, d \in Dirs :
             totals[v][d] > 0 => \E c \in ServedConvs(v) : given[c][d] > 0

\* Between passes every rating is in some total or still waiting.
NoRatingLost ==
    roll.pc = "idle" => \A d \in Dirs : RolledUp(d) + Waiting(d) >= Given(d)

=============================================================================
