--------------------------- MODULE OptimizerDriver ---------------------------
(***************************************************************************)
(* Driver.RunOnce for one session, called again and again by the           *)
(* optimizer's main loop: which ratings a run reads, when it marks them as *)
(* used, and what it promotes from them, while ratings and conversation    *)
(* logs go on arriving, calls fail and the process dies and restarts.      *)
(*                                                                         *)
(* The optimizer runs either "layered" (Postgres first, Redis as the       *)
(* fallback for samples) or with "redis" alone.  What happens inside one   *)
(* roll-up is the subject of Feedback, inside SetVariants of VariantStore; *)
(* the prompt template, the best prompt and the history, which a run also  *)
(* writes and no run depends on, are left out.                             *)
(***************************************************************************)
EXTENDS Integers, Sequences, SequencesExt, FiniteSets

CONSTANTS
    NConvs,       \* conversations, numbered in the order of their ids
    VariantOf,    \* the variant_id of each conversation
    Inputs,       \* the ratings clients may give: conversation, rating, comment
    MaxRatings,   \* bound: ratings in one behaviour
    MinSamples,   \* PG_MIN_SAMPLES
    TopN,         \* PG_GEPA_TOP_N: samples per variant
    Buffer,       \* the 10 of ReadySessions: runs between two optimizations
    Modes,        \* the modes of this instance
    Faults        \* the faults this instance is exposed to

Convs == 1 .. NConvs

ASSUME DriverAssumption ==
    /\ NConvs \in Nat
    /\ DOMAIN VariantOf = Convs
    /\ \A in \in Inputs : in.conv \in Convs /\ in.rating \in {-1, 0, 1} /\ in.comment \in Nat
    /\ MaxRatings \in Nat /\ MinSamples \in Nat /\ TopN \in Nat
    /\ Buffer \in Nat \ {0}
    /\ Modes \subseteq {"layered", "redis"}
    /\ Faults \subseteq {"redis", "pg", "llm", "crash"}

VARIABLES
    mode,     \* the optimizer's mode, fixed when it is deployed
    usable,   \* conversation_logs rows with prompt and response
    events,   \* the ratings given, each with its row in feedback_events and
              \* whether a Redis conversation key still counts it
    rated,    \* totalRated of the session in Redis, up to Enough
    cool,     \* ticks (OptimizeEvery) until the session may be optimized again
    drv,      \* where RunOnce is, the conversations and the ratings it sampled
    learnt,   \* auxiliary: promotions made from each rating, counted to 2
    seen,     \* auxiliary: ratings some run has sampled
    missed    \* auxiliary: "yes" once a sample was read from the wrong tier or
              \* its consumption failed

vars == <<mode, usable, events, rated, cool, drv, learnt, seen, missed>>

\* The tier ReadySessions reads.
Tier == IF mode = "layered" THEN "pg" ELSE "redis"

Given == 1 .. Len(events)
Idle(pc) == [pc |-> pc, convs |-> {}, from |-> {}]

Init ==
    /\ mode \in Modes
    /\ usable = {}
    /\ events = <<>>
    /\ rated = 0
    /\ cool = 0
    /\ drv = Idle("ready")
    /\ learnt = <<>>
    /\ seen = {}
    /\ missed = "no"

-----------------------------------------------------------------------------
(* The rest of the system *)

\* The janitor's copyLogs stores a conversation with both its texts.
LogCopied(c) ==
    /\ c \notin usable
    /\ usable' = usable \cup {c}
    /\ UNCHANGED <<mode, events, rated, cool, drv, learnt, seen, missed>>

\* What a rating adds to totalRated: a pipeline that breaks may end before it, or
\* be sent again.  (That it is sent again after a later run has rolled the rating
\* up is left out: go-redis gives up after seconds.)
Counted == IF "redis" \in Faults THEN 0 .. 2 ELSE {1}

\* Bound: what more is rated than makes the session ready is not counted.
Enough == IF MinSamples = 0 THEN 1 ELSE MinSamples
UpTo(n) == IF n > Enough THEN Enough ELSE n

\* RecordFeedback: Redis, and the append to feedback_events; either may fail
\* alone.
RecordFeedback(in) ==
    /\ Len(events) < MaxRatings
    /\ \E redis, pg \in {"ok", "error"} :
         /\ redis = "error" => "redis" \in Faults
         /\ pg = "error" => "pg" \in Faults /\ mode = "layered"
         /\ events' = Append(events,
              [in |-> in,
               pg |-> IF pg = "ok" /\ mode = "layered" THEN "unused" ELSE "none",
               key |-> IF redis = "ok" THEN "live" ELSE "gone"])
         /\ rated' \in IF redis = "ok" THEN {UpTo(rated + n) : n \in Counted} ELSE {rated}
    /\ learnt' = Append(learnt, 0)
    /\ UNCHANGED <<mode, usable, cool, drv, seen, missed>>

\* Redis comes back empty.
RedisRestart ==
    /\ "redis" \in Faults
    /\ rated > 0
    /\ events' = [i \in Given |-> [events[i] EXCEPT !.key = "gone"]]
    /\ rated' = 0
    /\ cool' = IF Tier = "redis" THEN 0 ELSE cool
    /\ UNCHANGED <<mode, usable, drv, learnt, seen, missed>>

-----------------------------------------------------------------------------
(* What a run reads *)

\* Postgres counts the conversations that have an event, used or not, and both
\* texts; Redis counts ratings.
RatedConvs == {events[i].in.conv : i \in {j \in Given : events[j].pg # "none"}} \cap usable
PgReady == RatedConvs # {} /\ Cardinality(RatedConvs) >= MinSamples
RedisReady == rated > 0 /\ rated >= MinSamples
Ready == cool = 0 /\ IF Tier = "pg" THEN PgReady ELSE RedisReady

\* A row of the sample query: the unused events of a conversation with the same
\* comment (fe.comment is in the GROUP BY).
PgRow(conv, comment) ==
    {i \in Given : /\ events[i].pg = "unused"
                   /\ events[i].in.conv = conv
                   /\ events[i].in.comment = comment}
PgRows == {PgRow(events[i].in.conv, events[i].in.comment) :
             i \in {j \in Given : events[j].pg = "unused" /\ events[j].in.conv \in usable}}

\* A sample from Redis: all the ratings a conversation key still counts, if the
\* log list still has an entry of the conversation.
RedisRow(conv) == {i \in Given : events[i].key = "live" /\ events[i].in.conv = conv}
RedisRows(inLog) == {RedisRow(c) : c \in {d \in inLog : RedisRow(d) # {}}}

ConvOfRow(row) == events[CHOOSE i \in row : TRUE].in.conv
VariantOfRow(row) == VariantOf[ConvOfRow(row)]
Votes(row, r) == Cardinality({i \in row : events[i].in.rating = r})
Score(row) ==
    CASE Votes(row, 1) > Votes(row, -1) -> 1
      [] Votes(row, -1) > Votes(row, 1) -> -1
      [] OTHER -> 0

\* Where a row stands in its bucket: list has all rows in the order the store
\* returned them, and its rows of one variant and one score make a bucket.
Turn(list, i) ==
    Cardinality({j \in 1 .. i : /\ VariantOfRow(list[j]) = VariantOfRow(list[i])
                                /\ Score(list[j]) = Score(list[i])})

\* The order in which the buckets are served: positive, negative, neutral.
BucketOrder(row) == CASE Score(row) = 1 -> 1 [] Score(row) = -1 -> 2 [] OTHER -> 3

\* Mutant of TakenBefore: one bucket after the other.
BucketByBucket(list, j, i) ==
    \/ BucketOrder(list[j]) < BucketOrder(list[i])
    \/ BucketOrder(list[j]) = BucketOrder(list[i]) /\ j < i

\* selectBalanced, selectBalancedPG: one row of every bucket in each round.
TakenBefore(list, j, i) ==
    \/ Turn(list, j) < Turn(list, i)
    \/ Turn(list, j) = Turn(list, i) /\ BucketOrder(list[j]) < BucketOrder(list[i])

\* The rounds go on until TopN rows of a variant are taken or all of them are.
Selected(list) ==
    {list[i] : i \in {k \in 1 .. Len(list) :
        Cardinality({j \in 1 .. Len(list) : /\ VariantOfRow(list[j]) = VariantOfRow(list[k])
                                            /\ TakenBefore(list, j, k)}) < TopN}}

\* Postgres orders by conversation id (and leaves rows of one conversation in
\* any order); Redis's SCAN returns keys in any order.
PgLists ==
    {l \in SetToSeqs(PgRows) :
       \A i, j \in DOMAIN l : i < j => ConvOfRow(l[i]) <= ConvOfRow(l[j])}
RedisLists == UNION {SetToSeqs(RedisRows(inLog)) : inLog \in SUBSET Convs}

-----------------------------------------------------------------------------
(* RunOnce *)

Sleep ==
    /\ drv.pc = "sleep"
    /\ drv' = Idle("ready")
    /\ cool' = IF cool > 0 THEN cool - 1 ELSE 0
    /\ UNCHANGED <<mode, usable, events, rated, learnt, seen, missed>>

ReadySessions ==
    /\ drv.pc = "ready"
    /\ \/ drv' = Idle(IF Ready THEN "load" ELSE "sleep")
       \/ Tier \in Faults /\ drv' = Idle("sleep")
    /\ UNCHANGED <<mode, usable, events, rated, cool, learnt, seen, missed>>

\* Mutant of AfterLoad: the check for an empty sample is missing.
AfterLoadUnchecked(rows) ==
    [pc |-> IF \A row \in rows : Score(row) = 1 THEN "all_positive" ELSE "analyse",
     convs |-> {ConvOfRow(row) : row \in rows}, from |-> UNION rows]

\* No samples: on to the next session.  All of them positive: no generation.
AfterLoad(rows) ==
    IF rows = {} THEN Idle("sleep")
    ELSE [pc |-> IF \A row \in rows : Score(row) = 1 THEN "all_positive" ELSE "analyse",
          convs |-> {ConvOfRow(row) : row \in rows},
          from |-> UNION rows]

Load(lists) == \E l \in lists : drv' = AfterLoad(Selected(l))

LoadFromPg ==
    /\ drv.pc = "load"
    /\ mode = "layered"
    /\ Load(PgLists)
    /\ seen' = seen \cup drv'.from
    /\ UNCHANGED <<mode, usable, events, rated, cool, learnt, missed>>

\* Redis mode; or layered, after the Postgres query failed.
LoadFromRedis ==
    /\ drv.pc = "load"
    /\ mode = "layered" => "pg" \in Faults
    /\ \/ Load(RedisLists)
       \/ "redis" \in Faults /\ drv' = Idle("sleep")
    /\ seen' = seen \cup drv'.from
    /\ missed' = IF mode = "layered" THEN "yes" ELSE missed
    /\ UNCHANGED <<mode, usable, events, rated, cool, learnt>>

\* The two LLM calls.  An error, or an answer with no candidate in it, ends the
\* session's turn and nothing is consumed.
Complete(call, next) ==
    /\ drv.pc = call
    /\ drv' = [drv EXCEPT !.pc = next]
    /\ UNCHANGED <<mode, usable, events, rated, cool, learnt, seen, missed>>
Analyse == Complete("analyse", "generate")
Generate == Complete("generate", "consume")
LLMFails ==
    /\ "llm" \in Faults
    /\ drv.pc \in {"analyse", "generate"}
    /\ drv' = Idle("sleep")
    /\ UNCHANGED <<mode, usable, events, rated, cool, learnt, seen, missed>>

\* Mutant of MarkUsed: nothing is marked.
MarkNothing(convs) == events

\* UPDATE ... times_used + 1: every event of the conversations, not just the
\* sampled ones.
MarkUsed(convs) ==
    [i \in Given |-> IF events[i].in.conv \in convs /\ events[i].pg # "none"
                     THEN [events[i] EXCEPT !.pg = "used"] ELSE events[i]]

\* The error is dropped.  In Redis HDEL without a field removes nothing.
MarkFeedbackUsed ==
    /\ drv.pc = "consume"
    /\ drv' = [drv EXCEPT !.pc = "rollup"]
    /\ \/ events' = MarkUsed(drv.convs) /\ UNCHANGED missed
       \/ /\ "pg" \in Faults /\ mode = "layered"
          /\ missed' = "yes"
          /\ UNCHANGED events
    /\ UNCHANGED <<mode, usable, rated, cool, learnt, seen>>

\* RollupConversationFeedback deletes the conversation keys.  What it could not
\* delete stays, and the run goes on.
Rollup ==
    /\ drv.pc \in {"rollup", "all_positive"}
    /\ drv' = [drv EXCEPT !.pc = IF @ = "rollup" THEN "promote" ELSE "optimized"]
    /\ \E kept \in SUBSET Convs :
         /\ kept # {} => "redis" \in Faults
         /\ events' = [i \in Given |-> IF events[i].in.conv \in kept THEN events[i]
                                       ELSE [events[i] EXCEPT !.key = "gone"]]
         /\ missed' = IF mode = "redis" /\ kept # {} THEN "yes" ELSE missed
    /\ UNCHANGED <<mode, usable, rated, cool, learnt, seen>>

\* Promoter.Promote.  SetVariants may report an error although readers will get
\* the new variants.
Promote ==
    /\ drv.pc = "promote"
    /\ \E written \in BOOLEAN, reply \in {"ok", "error"} :
         /\ IF reply = "error" THEN "redis" \in Faults ELSE written
         /\ learnt' = IF written
                        THEN [i \in Given |-> IF i \in drv.from /\ learnt[i] < 2
                                              THEN learnt[i] + 1 ELSE learnt[i]]
                        ELSE learnt
         /\ drv' = IF reply = "ok" THEN [drv EXCEPT !.pc = "optimized"] ELSE Idle("sleep")
    /\ UNCHANGED <<mode, usable, events, rated, cool, seen, missed>>

\* MarkSessionOptimized, whose error is dropped (after a promotion it is called
\* twice).  Postgres then waits for Buffer windows, Redis for one.
MarkSessionOptimized ==
    /\ drv.pc = "optimized"
    /\ drv' = Idle("sleep")
    /\ \/ cool' = IF mode = "layered" THEN Buffer ELSE 1
       \/ Tier \in Faults /\ UNCHANGED cool
    /\ UNCHANGED <<mode, usable, events, rated, learnt, seen, missed>>

\* The optimizer dies and is started again; main calls RunOnce at once.
Crash ==
    /\ "crash" \in Faults
    /\ drv.pc # "ready"
    /\ drv' = Idle("ready")
    /\ UNCHANGED <<mode, usable, events, rated, cool, learnt, seen, missed>>

RunOnce ==
    \/ ReadySessions
    \/ LoadFromPg \/ LoadFromRedis
    \/ Analyse \/ Generate \/ LLMFails
    \/ MarkFeedbackUsed
    \/ Rollup
    \/ Promote
    \/ MarkSessionOptimized

Next ==
    \/ \E c \in Convs : LogCopied(c)
    \/ \E in \in Inputs : RecordFeedback(in)
    \/ RedisRestart
    \/ Sleep
    \/ RunOnce
    \/ Crash

Spec == Init /\ [][Next]_vars

\* The main loop goes on, and nothing that may fail fails for ever: a store, the
\* LLM and the process itself come back (strong fairness of the step that
\* succeeds).
Fairness ==
    /\ SF_vars(Sleep)
    /\ SF_vars(ReadySessions /\ drv'.pc = "load")
    /\ WF_vars(RunOnce)
    /\ SF_vars(LoadFromPg)
    /\ SF_vars(Analyse)
    /\ SF_vars(Generate)
    /\ SF_vars(MarkFeedbackUsed /\ events' = MarkUsed(drv.convs))

FairSpec == Spec /\ Fairness

-----------------------------------------------------------------------------
(* Properties *)

Waiting == {"sleep", "ready", "load"}

\* The state keeps its types, and a run past loading has samples.
TypeOK ==
    /\ mode \in Modes
    /\ usable \subseteq Convs
    /\ events \in Seq([in : Inputs, pg : {"none", "unused", "used"}, key : {"live", "gone"}])
    /\ rated \in 0 .. Enough
    /\ cool \in 0 .. Buffer
    /\ drv \in [pc : Waiting \cup {"analyse", "generate", "consume", "rollup", "all_positive",
                                   "promote", "optimized"},
                convs : SUBSET Convs, from : SUBSET Given]
    /\ drv.convs # {} <=> drv.pc \notin Waiting
    /\ learnt \in [Given -> 0 .. 2]
    /\ seen \subseteq Given
    /\ missed \in {"yes", "no"}

\* No rating is the reason of two promotions, wherever a run dies, whatever the
\* LLM or SetVariants answers and however ratings arrive in between, as long as
\* samples come from the tier where they are consumed and consuming them works.
NotLearntTwice == missed = "no" => \A i \in Given : learnt[i] <= 1

\* A rating not yet used, of a conversation whose unused ratings are negative.
Complaint(i) ==
    /\ i \in Given
    /\ events[i].pg = "unused"
    /\ events[i].in.conv \in usable
    /\ Score(PgRow(events[i].in.conv, events[i].in.comment)) = -1

\* Once enough conversations are rated, a complaint is used by some run: praise
\* for the same or for other variants never crowds it out of the samples, though
\* a run that sees praise only consumes nothing.
ComplaintsAreHeard ==
    \A i \in 1 .. MaxRatings :
        (Complaint(i) /\ Cardinality(RatedConvs) >= MinSamples) ~> ~Complaint(i)

\* Feedback that was used for optimization is feedback some run has read.
UsedWasSampled == \A i \in Given : events[i].pg = "used" => i \in seen

=============================================================================
