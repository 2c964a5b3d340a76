---------------------------- MODULE VariantStore ----------------------------
(***************************************************************************)
(* The variants of one session in the two tiers of the layered store: a    *)
(* Redis key with a TTL in front of Postgres rows.                         *)
(*                                                                         *)
(*   - readers are proxy requests in layered.GetVariant, which re-warm     *)
(*     Redis from Postgres after a miss;                                   *)
(*   - the optimizer is Promoter.Promote calling layered.SetVariants;      *)
(*   - the janitor is retireUnused, which finds unused sessions in         *)
(*     Postgres and evicts them from Redis.                                *)
(*                                                                         *)
(* Every statement that goes over the network is a step of its own.  Time  *)
(* is counted down: every deadline is the number of ticks left until it.   *)
(***************************************************************************)
EXTENDS Integers, FiniteSets, FiniteSetsExt

CONSTANTS
    Variants,        \* variant ids (hashes of candidate prompts)
    CandidateSets,   \* the sets of ids an optimizer run may promote
    Readers,         \* concurrent proxy requests of the session
    MaxAge,          \* MaxVariantAge, in ticks
    MinTTL,          \* the re-warm minimum of one minute, in ticks
    LookupTicks,     \* ticks a lookup can see before ForwardPassTimeout ends it
    UnusedTTL,       \* the janitor's feedback window, in ticks
    Modes,           \* the deployments of this instance: is there a Postgres?
    Faults           \* the faults this instance is exposed to

FaultKinds == {"redis", "pg", "restart", "crash"}

ASSUME SetsAssumption ==
    /\ CandidateSets \subseteq SUBSET Variants
    /\ {} \notin CandidateSets
ASSUME TimesAssumption ==
    /\ MaxAge \in Nat \ {0}
    /\ MinTTL \in 1 .. MaxAge
    /\ LookupTicks \in Nat
    /\ UnusedTTL \in Nat \ {0}
ASSUME ModeAssumption ==
    /\ Modes \subseteq {"layered", "redis"}
    /\ Faults \subseteq FaultKinds

Never == -1

VARIABLES
    mode,      \* whether there is a Postgres behind Redis, fixed by the deployment
    redis,     \* the key pg:variants:<key>:<session>: its set ({}: no key) and TTL
    status,    \* Postgres: "none" (no row), "active" or "retired", per id
    until,     \* Postgres: ticks until active_until, per id
    reader,    \* where each lookup is, what it read from Postgres, for how long
    answer,    \* what each reader last got ({}: the baseline prompt)
    opt,       \* where SetVariants is, the set it writes, what Redis replied
    janitor,   \* "delete": it has listed this session and not yet evicted it
    fresh,     \* ticks for which the last feedback event still counts as recent
    life,      \* auxiliary: ticks left to each set since it was last promoted
    acked      \* auxiliary: the set whose promotion returned no error last

tiers == <<redis, status, until>>
aux == <<life, acked>>
vars == <<mode, tiers, reader, answer, opt, janitor, fresh, aux>>

PgConfigured == mode = "layered"

-----------------------------------------------------------------------------
(* The two tiers *)

NoEntry == [set |-> {}, ttl |-> 0]
Entries == [set : CandidateSets \cup {{}}, ttl : 0 .. MaxAge]

IdleReader == [pc |-> "idle", held |-> {}, ttl |-> 0, age |-> 0]
IdleOpt == [pc |-> "idle", set |-> {}, reply |-> "none"]

\* GetActiveVariants: the rows with retired_at IS NULL, and nothing else (a row
\* whose active_until has passed is still returned).
ActiveRows == {v \in Variants : status[v] = "active"}

\* ActiveUntil of the set read from Postgres: the latest of its rows'.
ActiveUntil == Max({until[v] : v \in ActiveRows})

\* Mutants of RewarmTTL: no minimum; a full new life.
RewarmTTLNoMinimum == ActiveUntil
RewarmTTLFullAge == MaxAge

\* The TTL of a re-warm: what is left of the set, at least a minute.
RewarmTTL == IF ActiveUntil < MinTTL THEN MinTTL ELSE ActiveUntil

\* A countdown after one more tick.
Dec(n) == IF n > 0 THEN n - 1 ELSE n

\* Mutant of Expire: the key was written without a TTL.
ExpireNever(e) == [set |-> e.set, ttl |-> Dec(e.ttl)]

\* The Redis entry after one more tick: gone when its TTL, or the ActiveUntil
\* stored in it, has passed.
Expire(e) == IF e.ttl > 1 THEN [set |-> e.set, ttl |-> e.ttl - 1] ELSE NoEntry

Init ==
    /\ mode \in Modes
    /\ redis = NoEntry
    /\ status = [v \in Variants |-> "none"]
    /\ until = [v \in Variants |-> 0]
    /\ reader = [r \in Readers |-> IdleReader]
    /\ answer = [r \in Readers |-> {}]
    /\ opt = IdleOpt
    /\ janitor = "idle"
    /\ fresh = 0
    /\ life = [S \in CandidateSets |-> Never]
    /\ acked = {}

-----------------------------------------------------------------------------
(* layered.GetVariant *)

\* Redis answers with an entry: the lookup ends there.
RedisHit(r) ==
    /\ reader[r].pc = "idle"
    /\ redis.set # {}
    /\ answer' = [answer EXCEPT ![r] = redis.set]
    /\ UNCHANGED <<mode, tiers, reader, opt, janitor, fresh, aux>>

\* No key, a Redis error or the 8 ms timeout: on to Postgres, or the baseline
\* when there is none.
RedisMiss(r) ==
    /\ reader[r].pc = "idle"
    /\ redis.set = {} \/ "redis" \in Faults
    /\ IF PgConfigured
         THEN /\ reader' = [reader EXCEPT ![r].pc = "pg"]
              /\ UNCHANGED answer
         ELSE /\ answer' = [answer EXCEPT ![r] = {}]
              /\ UNCHANGED reader
    /\ UNCHANGED <<mode, tiers, opt, janitor, fresh, aux>>

\* The SELECT finds active rows; the re-warm TTL is computed from them at once.
PgFound(r) ==
    /\ reader[r].pc = "pg"
    /\ ActiveRows # {}
    /\ reader' = [reader EXCEPT ![r].pc = "rewarm",
                                ![r].held = ActiveRows,
                                ![r].ttl = RewarmTTL]
    /\ UNCHANGED <<mode, tiers, answer, opt, janitor, fresh, aux>>

\* The SELECT fails, or finds nothing: the baseline.
PgNone(r) ==
    /\ reader[r].pc = "pg"
    /\ ActiveRows = {} \/ "pg" \in Faults
    /\ reader' = [reader EXCEPT ![r] = IdleReader]
    /\ answer' = [answer EXCEPT ![r] = {}]
    /\ UNCHANGED <<mode, tiers, opt, janitor, fresh, aux>>

\* The re-warm; its failure is logged and the answer is the same.
Rewarm(r) ==
    /\ reader[r].pc = "rewarm"
    /\ \/ redis' = [set |-> reader[r].held, ttl |-> reader[r].ttl]
       \/ "redis" \in Faults /\ UNCHANGED redis
    /\ answer' = [answer EXCEPT ![r] = reader[r].held]
    /\ reader' = [reader EXCEPT ![r] = IdleReader]
    /\ UNCHANGED <<mode, status, until, opt, janitor, fresh, aux>>

-----------------------------------------------------------------------------
(* Promoter.Promote and layered.SetVariants *)

PromoteStart(S) ==
    /\ opt.pc = "idle"
    /\ opt' = [pc |-> "redis", set |-> S, reply |-> "none"]
    /\ acked' = {}
    /\ UNCHANGED <<mode, tiers, reader, answer, janitor, fresh, life>>

\* Mutant of Ack: the Redis error is swallowed as the Postgres one is.
AckAlways(S, reply) == acked' = S

\* What SetVariants tells its caller: the Redis error and nothing else.
Ack(S, reply) == acked' = IF reply = "ok" THEN S ELSE {}

\* SET with the TTL.  An error may come with the write done (the reply was
\* lost) or not done.  Without Postgres SetVariants ends here.
PromoteRedis ==
    /\ opt.pc = "redis"
    /\ \E done \in BOOLEAN, reply \in {"ok", "error"} :
         /\ IF reply = "error" THEN "redis" \in Faults ELSE done
         /\ IF done
              THEN /\ redis' = [set |-> opt.set, ttl |-> MaxAge]
                   /\ life' = [life EXCEPT ![opt.set] = MaxAge]
              ELSE UNCHANGED <<redis, life>>
         /\ IF PgConfigured
              THEN /\ opt' = [opt EXCEPT !.pc = "pg", !.reply = reply]
                   /\ UNCHANGED acked
              ELSE /\ opt' = IdleOpt
                   /\ Ack(opt.set, reply)
    /\ UNCHANGED <<mode, status, until, reader, answer, janitor, fresh>>

\* Mutant of RetireAndUpsert: the UPDATE that retires is missing.
UpsertOnly(S) ==
    /\ status' = [v \in Variants |-> IF v \in S THEN "active" ELSE status[v]]
    /\ until' = [v \in Variants |-> IF v \in S THEN MaxAge ELSE until[v]]

\* The transaction of pg.SetVariants: retire every active row, then insert or
\* revive one row per variant, all with the same active_until.
RetireAndUpsert(S) ==
    /\ status' = [v \in Variants |->
                    IF v \in S THEN "active"
                    ELSE IF status[v] = "active" THEN "retired" ELSE status[v]]
    /\ until' = [v \in Variants |-> IF v \in S THEN MaxAge ELSE until[v]]

\* An error of the transaction is logged and swallowed.
PromotePg ==
    /\ opt.pc = "pg"
    /\ \/ /\ RetireAndUpsert(opt.set)
          /\ life' = [life EXCEPT ![opt.set] = MaxAge]
       \/ /\ "pg" \in Faults
          /\ UNCHANGED <<status, until, life>>
    /\ Ack(opt.set, opt.reply)
    /\ opt' = IdleOpt
    /\ UNCHANGED <<mode, redis, reader, answer, janitor, fresh>>

\* The optimizer process, which also runs the janitor, dies.
OptimizerCrash ==
    /\ "crash" \in Faults
    /\ opt.pc # "idle" \/ janitor # "idle"
    /\ opt' = IdleOpt
    /\ janitor' = "idle"
    /\ UNCHANGED <<mode, tiers, reader, answer, fresh, aux>>

-----------------------------------------------------------------------------
(* Feedback events and the janitor's retireUnused *)

\* pg.RecordFeedback inserts an event with created_at = now().
RecordFeedback ==
    /\ PgConfigured
    /\ fresh' = UnusedTTL
    /\ UNCHANGED <<mode, tiers, reader, answer, opt, janitor, aux>>

\* FindUnusedVariantSessions: active rows, and no event inside the window.
FindUnused == ActiveRows # {} /\ fresh = 0

JanitorFind ==
    /\ PgConfigured
    /\ janitor = "idle"
    /\ FindUnused
    /\ janitor' = "delete"
    /\ UNCHANGED <<mode, tiers, reader, answer, opt, fresh, aux>>

\* DeleteVariants.  RetireVariants is commented out, so the rows stay active.
JanitorDelete ==
    /\ janitor = "delete"
    /\ janitor' = "idle"
    /\ \/ redis' = NoEntry
       \/ "redis" \in Faults /\ UNCHANGED redis
    /\ UNCHANGED <<mode, status, until, reader, answer, opt, fresh, aux>>

-----------------------------------------------------------------------------
(* The environment *)

\* Redis comes back empty.
RedisRestart ==
    /\ "restart" \in Faults
    /\ redis.set # {}
    /\ redis' = NoEntry
    /\ UNCHANGED <<mode, status, until, reader, answer, opt, janitor, fresh, aux>>

\* One tick.  ForwardPassTimeout cancels the context of a lookup, so no lookup
\* is still in progress after more than LookupTicks of them.
InFlight(r) == reader[r].pc # "idle"
Tick ==
    /\ \A r \in Readers : InFlight(r) => reader[r].age < LookupTicks
    /\ redis' = Expire(redis)
    /\ until' = [v \in Variants |-> Dec(until[v])]
    /\ reader' = [r \in Readers |->
                    IF InFlight(r) THEN [reader[r] EXCEPT !.age = @ + 1]
                    ELSE reader[r]]
    /\ fresh' = Dec(fresh)
    /\ life' = [S \in CandidateSets |-> Dec(life[S])]
    /\ UNCHANGED <<mode, status, answer, opt, janitor, acked>>

Lookup(r) == RedisHit(r) \/ RedisMiss(r) \/ PgFound(r) \/ PgNone(r) \/ Rewarm(r)
Promotion == (\E S \in CandidateSets : PromoteStart(S)) \/ PromoteRedis \/ PromotePg

Next ==
    \/ \E r \in Readers : Lookup(r)
    \/ Promotion
    \/ OptimizerCrash
    \/ RecordFeedback
    \/ JanitorFind \/ JanitorDelete
    \/ RedisRestart
    \/ Tick

Spec == Init /\ [][Next]_vars

\* Time passes, and a lookup that has left Redis runs to its end (its context
\* has a deadline).  Nothing makes the optimizer, the janitor or clients act.
Fairness ==
    /\ WF_vars(Tick)
    /\ \A r \in Readers : WF_vars(PgFound(r) \/ PgNone(r) \/ Rewarm(r))

FairSpec == Spec /\ Fairness

-----------------------------------------------------------------------------
(* Properties *)

Phases == {"idle", "pg", "rewarm"}

SetsOrNone == CandidateSets \cup {{}}

\* The state keeps its types; a key in Redis has a TTL, and a lookup about to
\* re-warm holds a set and a TTL for it.
TiersOK ==
    /\ redis \in Entries
    /\ redis.set = {} <=> redis.ttl = 0
    /\ status \in [Variants -> {"none", "active", "retired"}]
    /\ until \in [Variants -> 0 .. MaxAge]
ReadersOK ==
    /\ reader \in [Readers -> [pc : Phases, held : SetsOrNone,
                               ttl : 0 .. MaxAge, age : 0 .. LookupTicks]]
    /\ \A r \in Readers :
         reader[r].pc = "rewarm" => reader[r].held # {} /\ reader[r].ttl > 0
    /\ answer \in [Readers -> SetsOrNone]
OptimizerOK ==
    /\ opt \in [pc : {"idle", "redis", "pg"}, set : SetsOrNone, reply : {"none", "ok", "error"}]
    /\ opt.pc # "idle" => opt.set # {}
    /\ janitor \in {"idle", "delete"}
    /\ fresh \in 0 .. UnusedTTL
AuxOK ==
    /\ mode \in Modes
    /\ life \in [CandidateSets -> Never .. MaxAge]
    /\ acked \in SetsOrNone
TypeOK == TiersOK /\ ReadersOK /\ OptimizerOK /\ AuxOK

\* The sets that some promotion wrote to some tier.
Issued == {S \in CandidateSets : life[S] # Never}

\* The rows GetActiveVariants returns are exactly one promotion's, never a mix
\* of two, whatever ids consecutive promotions share and whichever writes
\* failed; and they expire together, so that one active_until describes them.
OnePromotionActive ==
    /\ ActiveRows \in Issued \cup {{}}
    /\ \A v, w \in ActiveRows : until[v] = until[w]

\* A re-warm never stretches a set's life: however old the rows a lookup read
\* are, Redis keeps the set at most until its last promotion's deadline, or the
\* minute GetVariant grants, or the time the lookup itself took.
Longest(S) == IF life[S] + LookupTicks < MinTTL THEN MinTTL ELSE life[S] + LookupTicks
LifeBound ==
    redis.set # {} => redis.ttl <= Longest(redis.set)

\* Every answer is one whole promoted set or the baseline: the two tiers, with
\* their races, evictions and failures, implement VariantService.
Service == INSTANCE VariantService WITH issued <- Issued
ImplementsService == Service!SSpec

\* Redis is self-healing: once the optimizer stops promoting, Redis ends up
\* with the set Postgres holds, or empty, for good, even if a late re-warm or a
\* swallowed Postgres error had left another set in it.
Converges ==
    <>[](opt.pc = "idle") => <>[](redis.set \in {{}, ActiveRows})

\* After a promotion that returned no error Redis holds the promoted set or
\* nothing, until the next promotion starts.
AckedIsCached == acked # {} => redis.set \in {{}, acked}

\* Without Postgres nothing is re-warmed: Redis holds only the set of the last
\* promotion that returned no error, whatever failed before.
AckedIsCachedAlone == mode = "redis" => AckedIsCached

=============================================================================
