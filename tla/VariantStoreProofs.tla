------------------------- MODULE VariantStoreProofs -------------------------
(***************************************************************************)
(* Proofs, for every value of the constants, that VariantStore keeps its   *)
(* types, never mixes two promotions, never stretches the life of a set    *)
(* through a re-warm, keeps what it acknowledged when Redis is alone, and  *)
(* implements VariantService.                                              *)
(***************************************************************************)
EXTENDS VariantStore, TLAPS

\* What every copy of a set shares, wherever it is: some promotion wrote it.
Promoted ==
    /\ redis.set \in Issued \cup {{}}
    /\ \A r \in Readers : reader[r].held \in Issued \cup {{}}
    /\ answer \in [Readers -> Issued \cup {{}}]

\* The rows do not outlive their last promotion, and neither does the TTL a
\* lookup computed from them, but for the time it has been in flight.
HeldLongest(S, age) == IF life[S] + age < MinTTL THEN MinTTL ELSE life[S] + age
WithinLife ==
    /\ \A v \in ActiveRows : until[v] <= life[ActiveRows]
    /\ \A r \in Readers :
         reader[r].pc = "rewarm" => reader[r].ttl <= HeldLongest(reader[r].held, reader[r].age)
    /\ LifeBound

\* The inductive invariant.  No part is inductive alone: the types of what a
\* lookup holds need OnePromotionActive, LifeBound needs what lookups hold.
IInv ==
    /\ TypeOK
    /\ OnePromotionActive
    /\ Promoted
    /\ WithinLife

USE SetsAssumption, TimesAssumption, ModeAssumption

-----------------------------------------------------------------------------
(* Lemmas about the operators of the store *)

\* A set that some promotion wrote is a candidate set with a life of 0 or more.
LEMMA IssuedFacts ==
    ASSUME TypeOK
    PROVE  /\ Issued \subseteq CandidateSets
           /\ {} \notin Issued
           /\ \A S \in Issued : life[S] \in 0 .. MaxAge
BY DEF TypeOK, AuxOK, Issued, Never

\* The latest active_until of rows that expire together is each row's own.
LEMMA ActiveUntilIsCommon ==
    ASSUME TypeOK, OnePromotionActive, NEW v \in ActiveRows
    PROVE  ActiveUntil = until[v]
<1> DEFINE U == {until[w] : w \in ActiveRows}
<1>1. until[v] \in U /\ \A y \in U : y = until[v]
  BY DEF OnePromotionActive
<1>2. until[v] \in Int
  BY DEF TypeOK, TiersOK, ActiveRows
<1>3. \A y \in U : until[v] >= y
  BY <1>1, <1>2
<1>4. Max(U) \in U
  BY <1>1, <1>3 DEF Max
<1> QED  BY <1>1, <1>4 DEF ActiveUntil

\* A re-warm from active rows has a positive TTL that the set's life, or the
\* minimum, allows.
LEMMA RewarmTTLBound ==
    ASSUME IInv, ActiveRows # {}
    PROVE  /\ ActiveRows \in Issued
           /\ RewarmTTL \in 1 .. MaxAge
           /\ \A age \in Nat : RewarmTTL <= HeldLongest(ActiveRows, age)
<1>1. ActiveRows \in Issued
  BY DEF IInv, OnePromotionActive
<1>2. PICK v \in ActiveRows : TRUE
  OBVIOUS
<1>3. ActiveUntil = until[v]
  BY ActiveUntilIsCommon, <1>2 DEF IInv
<1>4. until[v] \in 0 .. MaxAge /\ until[v] <= life[ActiveRows]
  BY <1>2 DEF IInv, TypeOK, TiersOK, WithinLife, ActiveRows
<1>5. life[ActiveRows] \in 0 .. MaxAge
  BY <1>1, IssuedFacts DEF IInv
<1> QED  BY <1>1, <1>3, <1>4, <1>5 DEF RewarmTTL, HeldLongest

\* After the transaction the active rows are the promoted set, no more and no
\* less, with one deadline.
LEMMA RetireAndUpsertExact ==
    ASSUME TypeOK, NEW S \in CandidateSets, RetireAndUpsert(S)
    PROVE  /\ status' \in [Variants -> {"none", "active", "retired"}]
           /\ until' \in [Variants -> 0 .. MaxAge]
           /\ ActiveRows' = S
           /\ \A v \in S : until'[v] = MaxAge
<1>1. S \subseteq Variants
  OBVIOUS
<1>2. \A v \in Variants : status'[v] = "active" <=> v \in S
  BY DEF RetireAndUpsert, TypeOK, TiersOK
<1>3. \A v \in S : until'[v] = MaxAge
  BY <1>1 DEF RetireAndUpsert
<1>4. status' \in [Variants -> {"none", "active", "retired"}]
  BY DEF RetireAndUpsert, TypeOK, TiersOK
<1>5. until' \in [Variants -> 0 .. MaxAge]
  BY DEF RetireAndUpsert, TypeOK, TiersOK
<1> QED  BY <1>1, <1>2, <1>3, <1>4, <1>5 DEF ActiveRows

\* Promoting a set again only prolongs lives and only adds to what was issued.
LEMMA PromoteLife ==
    ASSUME TypeOK, NEW S \in CandidateSets, life' = [life EXCEPT ![S] = MaxAge]
    PROVE  /\ life' \in [CandidateSets -> Never .. MaxAge]
           /\ Issued' = Issued \cup {S}
           /\ \A T \in CandidateSets : life[T] <= life'[T]
           /\ life'[S] = MaxAge
BY DEF TypeOK, AuxOK, Issued, Never

\* A tick forgets no promotion and takes at most one tick from a life.
LEMMA TickLife ==
    ASSUME TypeOK, life' = [S \in CandidateSets |-> Dec(life[S])]
    PROVE  /\ life' \in [CandidateSets -> Never .. MaxAge]
           /\ Issued' = Issued
           /\ \A S \in CandidateSets : life[S] - 1 <= life'[S]
           /\ \A S \in Issued : life'[S] = IF life[S] > 0 THEN life[S] - 1 ELSE 0
<1>1. \A S \in CandidateSets : life[S] \in Never .. MaxAge
  BY DEF TypeOK, AuxOK
<1>2. \A S \in CandidateSets : life'[S] = Dec(life[S])
  OBVIOUS
<1>3. \A n \in Never .. MaxAge : /\ Dec(n) \in Never .. MaxAge
                                 /\ Dec(n) = Never <=> n = Never
                                 /\ n - 1 <= Dec(n)
                                 /\ n # Never => Dec(n) = IF n > 0 THEN n - 1 ELSE 0
  BY DEF Dec, Never
<1>4. Issued' = Issued
  BY <1>1, <1>2, <1>3 DEF Issued
<1> QED  BY <1>1, <1>2, <1>3, <1>4 DEF Issued

-----------------------------------------------------------------------------
(* The invariant is inductive *)

\* The invariant holds when both tiers are empty.
LEMMA InitIInv == Init => IInv
<1> SUFFICES ASSUME Init PROVE IInv
  OBVIOUS
<1>1. ActiveRows = {}
  BY DEF Init, ActiveRows
<1>2. TypeOK
  <2>1. TiersOK
    BY DEF Init, TiersOK, Entries, NoEntry
  <2>2. ReadersOK
    BY DEF Init, ReadersOK, IdleReader, Phases, SetsOrNone
  <2>3. OptimizerOK
    BY DEF Init, OptimizerOK, IdleOpt, SetsOrNone
  <2>4. AuxOK
    BY DEF Init, AuxOK, SetsOrNone, Never
  <2> QED  BY <2>1, <2>2, <2>3, <2>4 DEF TypeOK
<1>3. OnePromotionActive
  BY <1>1 DEF OnePromotionActive
<1>4. Promoted
  BY DEF Init, Promoted, NoEntry, IdleReader
<1>5. WithinLife
  BY <1>1 DEF Init, WithinLife, LifeBound, NoEntry, IdleReader
<1> QED  BY <1>2, <1>3, <1>4, <1>5 DEF IInv

\* Steps that write no tier and no life can only disturb what lookups hold.
LEMMA TiersUnchanged ==
    ASSUME IInv, UNCHANGED tiers, UNCHANGED life
    PROVE  /\ TiersOK' /\ OnePromotionActive' /\ LifeBound'
           /\ Issued' = Issued /\ ActiveRows' = ActiveRows
           /\ \A v \in ActiveRows' : until'[v] <= life'[ActiveRows']
<1>1. TiersOK'
  BY DEF IInv, TypeOK, TiersOK, tiers
<1>2. Issued' = Issued /\ ActiveRows' = ActiveRows
  BY DEF tiers, Issued, ActiveRows
<1>3. OnePromotionActive'
  BY <1>2 DEF IInv, OnePromotionActive, tiers
<1>4. LifeBound'
  BY DEF IInv, WithinLife, LifeBound, Longest, tiers
<1>5. \A v \in ActiveRows' : until'[v] <= life'[ActiveRows']
  BY <1>2 DEF IInv, WithinLife, tiers
<1> QED  BY <1>1, <1>2, <1>3, <1>4, <1>5

\* Steps that change neither lookups nor answers keep what is known of them as
\* long as no life gets shorter and no promotion is forgotten.
LEMMA ReadersUnchanged ==
    ASSUME IInv, UNCHANGED <<reader, answer>>,
           Issued \subseteq Issued', AuxOK',
           \A S \in CandidateSets : life[S] <= life'[S]
    PROVE  /\ ReadersOK'
           /\ \A r \in Readers : reader'[r].held \in Issued' \cup {{}}
           /\ answer' \in [Readers -> Issued' \cup {{}}]
           /\ \A r \in Readers : reader'[r].pc = "rewarm" =>
                reader'[r].ttl <= HeldLongest(reader[r].held, reader[r].age)'
<1>1. ReadersOK'
  BY DEF IInv, TypeOK, ReadersOK
<1>2. \A r \in Readers : reader'[r].held \in Issued' \cup {{}}
  BY DEF IInv, Promoted
<1>3. answer' \in [Readers -> Issued' \cup {{}}]
  BY DEF IInv, Promoted
<1>4. ASSUME NEW r \in Readers, reader'[r].pc = "rewarm"
      PROVE  reader'[r].ttl <= HeldLongest(reader[r].held, reader[r].age)'
  <2> DEFINE H == reader[r].held  a == reader[r].age
  <2>1. H \in CandidateSets /\ a \in Nat /\ reader[r].ttl \in Nat
    BY <1>4 DEF IInv, TypeOK, ReadersOK, SetsOrNone
  <2>2. reader[r].ttl <= HeldLongest(H, a)
    BY <1>4 DEF IInv, WithinLife
  <2>3. life[H] \in Int /\ life'[H] \in Int /\ life[H] <= life'[H]
    BY <2>1 DEF IInv, TypeOK, AuxOK, Never
  <2>4. reader'[r].ttl = reader[r].ttl /\ reader'[r].held = H /\ reader'[r].age = a
    OBVIOUS
  <2> QED  BY <2>1, <2>2, <2>3, <2>4 DEF HeldLongest
<1> QED  BY <1>1, <1>2, <1>3, <1>4

\* Every step keeps the invariant: one step of the proof per action.
LEMMA NextIInv == IInv /\ [Next]_vars => IInv'
<1> SUFFICES ASSUME IInv, [Next]_vars PROVE IInv'
  OBVIOUS
<1> USE DEF IInv
<1>1. ASSUME NEW r \in Readers, RedisHit(r) PROVE IInv'
  <2>1. UNCHANGED tiers /\ UNCHANGED life
    BY <1>1 DEF RedisHit, aux
  <2>2. ReadersOK' /\ OptimizerOK' /\ AuxOK'
    <3>1. ReadersOK'
      BY <1>1 DEF RedisHit, TypeOK, TiersOK, ReadersOK, Entries, SetsOrNone
    <3>2. OptimizerOK'
      BY <1>1 DEF RedisHit, TypeOK, OptimizerOK
    <3>3. AuxOK'
      BY <1>1 DEF RedisHit, TypeOK, AuxOK, aux
    <3> QED  BY <3>1, <3>2, <3>3
  <2>3. Promoted'
    BY <1>1, <2>1, TiersUnchanged DEF RedisHit, Promoted, tiers
  <2>4. WithinLife'
    BY <1>1, <2>1, TiersUnchanged DEF RedisHit, WithinLife, HeldLongest, tiers
  <2> QED  BY <2>1, <2>2, <2>3, <2>4, TiersUnchanged DEF TypeOK
<1>2. ASSUME NEW r \in Readers, RedisMiss(r) PROVE IInv'
  <2>1. UNCHANGED tiers /\ UNCHANGED life
    BY <1>2 DEF RedisMiss, aux
  <2>2. ReadersOK'
    BY <1>2 DEF RedisMiss, TypeOK, ReadersOK, SetsOrNone, Phases
  <2>3. OptimizerOK' /\ AuxOK'
    BY <1>2 DEF RedisMiss, TypeOK, OptimizerOK, AuxOK, aux
  <2>4. Promoted'
    BY <1>2, <2>1, TiersUnchanged DEF RedisMiss, Promoted, tiers, TypeOK, ReadersOK
  <2>5. WithinLife'
    BY <1>2, <2>1, TiersUnchanged DEF RedisMiss, WithinLife, HeldLongest, tiers, TypeOK, ReadersOK
  <2> QED  BY <2>1, <2>2, <2>3, <2>4, <2>5, TiersUnchanged DEF TypeOK
<1>3. ASSUME NEW r \in Readers, PgFound(r) PROVE IInv'
  <2>1. UNCHANGED tiers /\ UNCHANGED life
    BY <1>3 DEF PgFound, aux
  <2>2. /\ ActiveRows \in Issued
        /\ RewarmTTL \in 1 .. MaxAge
        /\ \A age \in Nat : RewarmTTL <= HeldLongest(ActiveRows, age)
    BY <1>3, RewarmTTLBound DEF PgFound
  <2>3. ActiveRows \in CandidateSets
    BY <2>2, IssuedFacts
  <2>4. ReadersOK'
    <3>1. /\ reader'[r] = [reader[r] EXCEPT !.pc = "rewarm", !.held = ActiveRows, !.ttl = RewarmTTL]
          /\ \A q \in Readers \ {r} : reader'[q] = reader[q]
          /\ DOMAIN reader' = Readers /\ reader' = [q \in Readers |-> reader'[q]]
      BY <1>3 DEF PgFound, TypeOK, ReadersOK
    <3>2. /\ reader'[r] \in [pc : Phases, held : SetsOrNone, ttl : 0 .. MaxAge, age : 0 .. LookupTicks]
          /\ reader'[r].held # {} /\ reader'[r].ttl > 0
      BY <1>3, <2>2, <2>3, <3>1 DEF PgFound, TypeOK, ReadersOK, SetsOrNone, Phases
    <3>3. reader' \in [Readers -> [pc : Phases, held : SetsOrNone,
                                   ttl : 0 .. MaxAge, age : 0 .. LookupTicks]]
      BY <3>1, <3>2 DEF TypeOK, ReadersOK
    <3>4. answer' \in [Readers -> SetsOrNone]
      BY <1>3 DEF PgFound, TypeOK, ReadersOK
    <3> QED  BY <3>1, <3>2, <3>3, <3>4 DEF TypeOK, ReadersOK
  <2>5. OptimizerOK' /\ AuxOK'
    BY <1>3 DEF PgFound, TypeOK, OptimizerOK, AuxOK, aux
  <2>6. Promoted'
    BY <1>3, <2>1, <2>2, TiersUnchanged DEF PgFound, Promoted, tiers, TypeOK, ReadersOK
  <2>7. ASSUME NEW q \in Readers, reader'[q].pc = "rewarm"
        PROVE  reader'[q].ttl <= HeldLongest(reader[q].held, reader[q].age)'
    <3>1. CASE q = r
      BY <1>3, <2>1, <2>2, <3>1 DEF PgFound, HeldLongest, TypeOK, ReadersOK
    <3>2. CASE q # r
      BY <1>3, <2>1, <2>7, <3>2 DEF PgFound, HeldLongest, WithinLife, TypeOK, ReadersOK
    <3> QED  BY <3>1, <3>2
  <2>8. WithinLife'
    BY <2>1, <2>7, TiersUnchanged DEF WithinLife
  <2> QED  BY <2>1, <2>4, <2>5, <2>6, <2>8, TiersUnchanged DEF TypeOK
<1>4. ASSUME NEW r \in Readers, PgNone(r) PROVE IInv'
  <2>1. UNCHANGED tiers /\ UNCHANGED life
    BY <1>4 DEF PgNone, aux
  <2>2. ReadersOK'
    BY <1>4 DEF PgNone, TypeOK, ReadersOK, SetsOrNone, Phases, IdleReader
  <2>3. OptimizerOK' /\ AuxOK'
    BY <1>4 DEF PgNone, TypeOK, OptimizerOK, AuxOK, aux
  <2>4. Promoted'
    BY <1>4, <2>1, TiersUnchanged DEF PgNone, Promoted, tiers, TypeOK, ReadersOK, IdleReader
  <2>5. WithinLife'
    BY <1>4, <2>1, TiersUnchanged DEF PgNone, WithinLife, HeldLongest, tiers, TypeOK, ReadersOK, IdleReader
  <2> QED  BY <2>1, <2>2, <2>3, <2>4, <2>5, TiersUnchanged DEF TypeOK
<1>5. ASSUME NEW r \in Readers, Rewarm(r) PROVE IInv'
  <2> DEFINE H == reader[r].held  t == reader[r].ttl
  <2>1. UNCHANGED <<status, until, life>>
    BY <1>5 DEF Rewarm, aux
  <2>2. Issued' = Issued /\ ActiveRows' = ActiveRows
    BY <2>1 DEF Issued, ActiveRows
  <2>3. H \in Issued /\ t \in 1 .. MaxAge /\ t <= HeldLongest(H, reader[r].age)
    BY <1>5 DEF Rewarm, TypeOK, ReadersOK, Promoted, WithinLife
  <2>4. H \in CandidateSets /\ H # {} /\ life[H] \in 0 .. MaxAge
    BY <2>3, IssuedFacts
  <2>5. t <= Longest(H)
    <3>1. reader[r].age \in 0 .. LookupTicks
      BY DEF TypeOK, ReadersOK
    <3> QED  BY <2>3, <2>4, <3>1 DEF HeldLongest, Longest
  <2>6. redis' = [set |-> H, ttl |-> t] \/ redis' = redis
    BY <1>5 DEF Rewarm
  <2>7. TiersOK'
    BY <2>1, <2>3, <2>4, <2>6 DEF TypeOK, TiersOK, Entries
  <2>8. ReadersOK'
    BY <1>5, <2>4 DEF Rewarm, TypeOK, ReadersOK, SetsOrNone, Phases, IdleReader
  <2>9. OptimizerOK' /\ AuxOK'
    BY <1>5 DEF Rewarm, TypeOK, OptimizerOK, AuxOK, aux
  <2>10. OnePromotionActive'
    BY <2>1, <2>2 DEF OnePromotionActive
  <2>11. Promoted'
    BY <1>5, <2>2, <2>3, <2>6 DEF Rewarm, Promoted, TypeOK, ReadersOK, IdleReader
  <2>12. LifeBound'
    BY <2>1, <2>5, <2>6 DEF LifeBound, WithinLife, Longest
  <2>13. WithinLife'
    BY <1>5, <2>1, <2>2, <2>12 DEF Rewarm, WithinLife, HeldLongest, TypeOK, ReadersOK, IdleReader
  <2> QED  BY <2>7, <2>8, <2>9, <2>10, <2>11, <2>13 DEF TypeOK
<1>6. ASSUME NEW S \in CandidateSets, PromoteStart(S) PROVE IInv'
  <2>1. UNCHANGED tiers /\ UNCHANGED life /\ UNCHANGED <<reader, answer>>
    BY <1>6 DEF PromoteStart
  <2>2. OptimizerOK' /\ AuxOK'
    BY <1>6 DEF PromoteStart, TypeOK, OptimizerOK, AuxOK, SetsOrNone
  <2>3. \A T \in CandidateSets : life[T] <= life'[T]
    BY <2>1 DEF TypeOK, AuxOK, Never
  <2> QED  BY <2>1, <2>2, <2>3, TiersUnchanged, ReadersUnchanged
           DEF TypeOK, Promoted, WithinLife, tiers
<1>7. ASSUME PromoteRedis PROVE IInv'
  <2> DEFINE S == opt.set
  <2>1. S \in CandidateSets
    BY <1>7 DEF PromoteRedis, TypeOK, OptimizerOK, SetsOrNone
  <2>2. UNCHANGED <<status, until, reader, answer>> /\ ActiveRows' = ActiveRows
    BY <1>7 DEF PromoteRedis, ActiveRows
  <2>3. \/ /\ redis' = [set |-> S, ttl |-> MaxAge]
           /\ life' = [life EXCEPT ![S] = MaxAge]
        \/ UNCHANGED <<redis, life>>
    BY <1>7 DEF PromoteRedis
  <2>4. OptimizerOK'
    <3>1. \/ opt' = IdleOpt
          \/ \E reply \in {"ok", "error"} : opt' = [opt EXCEPT !.pc = "pg", !.reply = reply]
      BY <1>7 DEF PromoteRedis
    <3> DEFINE OptType == [pc : {"idle", "redis", "pg"}, set : SetsOrNone, reply : {"none", "ok", "error"}]
    <3>2. opt' \in OptType /\ (opt'.pc # "idle" => opt'.set # {})
      <4>1. CASE opt' = IdleOpt
        BY <4>1 DEF IdleOpt, SetsOrNone
      <4>2. ASSUME NEW reply \in {"ok", "error"}, opt' = [opt EXCEPT !.pc = "pg", !.reply = reply]
            PROVE  opt' \in OptType /\ (opt'.pc # "idle" => opt'.set # {})
        <5>1. opt \in OptType /\ opt.set # {}
          BY <1>7 DEF PromoteRedis, TypeOK, OptimizerOK
        <5> QED  BY <4>2, <5>1
      <4> QED  BY <3>1, <4>1, <4>2
    <3> QED  BY <1>7, <3>2 DEF PromoteRedis, TypeOK, OptimizerOK
  <2>5. acked' \in SetsOrNone /\ mode' = mode
    BY <1>7, <2>1 DEF PromoteRedis, TypeOK, AuxOK, SetsOrNone, Ack
  <2>6. CASE UNCHANGED <<redis, life>>
    <3>1. UNCHANGED tiers /\ UNCHANGED life /\ AuxOK'
      BY <2>2, <2>5, <2>6 DEF tiers, TypeOK, AuxOK
    <3>2. \A T \in CandidateSets : life[T] <= life'[T]
      BY <3>1 DEF TypeOK, AuxOK, Never
    <3> QED  BY <2>2, <2>4, <3>1, <3>2, TiersUnchanged, ReadersUnchanged
             DEF TypeOK, Promoted, WithinLife, tiers
  <2>7. CASE /\ redis' = [set |-> S, ttl |-> MaxAge]
             /\ life' = [life EXCEPT ![S] = MaxAge]
    <3>1. /\ life' \in [CandidateSets -> Never .. MaxAge]
          /\ Issued' = Issued \cup {S}
          /\ \A T \in CandidateSets : life[T] <= life'[T]
          /\ life'[S] = MaxAge
      BY <2>1, <2>7, PromoteLife
    <3>2. TiersOK'
      <4>1. redis'.set = S /\ redis'.ttl = MaxAge
        BY <2>7
      <4>2. MaxAge # 0 /\ MaxAge \in 0 .. MaxAge
        OBVIOUS
      <4>3. S # {}
        BY <1>7 DEF PromoteRedis, TypeOK, OptimizerOK
      <4>4. redis' \in Entries
        BY <2>1, <2>7, <4>2 DEF Entries
      <4> QED  BY <2>2, <4>1, <4>2, <4>3, <4>4 DEF TypeOK, TiersOK
    <3>3. AuxOK'
      BY <2>5, <2>7, <3>1 DEF TypeOK, AuxOK, SetsOrNone
    <3>4. OnePromotionActive'
      BY <2>2, <3>1 DEF OnePromotionActive
    <3>5. LifeBound'
      BY <2>7, <3>1 DEF LifeBound, Longest
    <3>6. ASSUME NEW v \in ActiveRows' PROVE until'[v] <= life'[ActiveRows']
      <4>1. ActiveRows \in CandidateSets
        BY <2>2, IssuedFacts DEF OnePromotionActive
      <4>2. until[v] \in Nat /\ until[v] <= life[ActiveRows]
        BY <2>2 DEF WithinLife, TypeOK, TiersOK, ActiveRows
      <4> QED  BY <2>2, <3>1, <4>1, <4>2 DEF TypeOK, AuxOK, Never
    <3> QED  BY <2>2, <2>4, <2>7, <3>1, <3>2, <3>3, <3>4, <3>5, <3>6, ReadersUnchanged
             DEF TypeOK, Promoted, WithinLife
  <2> QED  BY <2>3, <2>6, <2>7
<1>8. ASSUME PromotePg PROVE IInv'
  <2> DEFINE S == opt.set
  <2>1. S \in CandidateSets
    BY <1>8 DEF PromotePg, TypeOK, OptimizerOK, SetsOrNone
  <2>2. UNCHANGED <<redis, reader, answer>>
    BY <1>8 DEF PromotePg
  <2>3. \/ /\ RetireAndUpsert(S)
           /\ life' = [life EXCEPT ![S] = MaxAge]
        \/ UNCHANGED <<status, until, life>>
    BY <1>8 DEF PromotePg
  <2>4. OptimizerOK'
    BY <1>8 DEF PromotePg, TypeOK, OptimizerOK, SetsOrNone, IdleOpt
  <2>5. acked' \in SetsOrNone /\ mode' = mode
    BY <1>8, <2>1 DEF PromotePg, TypeOK, AuxOK, SetsOrNone, Ack
  <2>6. CASE UNCHANGED <<status, until, life>>
    <3>1. UNCHANGED tiers /\ UNCHANGED life /\ AuxOK'
      BY <2>2, <2>5, <2>6 DEF tiers, TypeOK, AuxOK
    <3>2. \A T \in CandidateSets : life[T] <= life'[T]
      BY <3>1 DEF TypeOK, AuxOK, Never
    <3> QED  BY <2>2, <2>4, <3>1, <3>2, TiersUnchanged, ReadersUnchanged
             DEF TypeOK, Promoted, WithinLife, tiers
  <2>7. CASE /\ RetireAndUpsert(S)
             /\ life' = [life EXCEPT ![S] = MaxAge]
    <3>1. /\ life' \in [CandidateSets -> Never .. MaxAge]
          /\ Issued' = Issued \cup {S}
          /\ \A T \in CandidateSets : life[T] <= life'[T]
          /\ life'[S] = MaxAge
      BY <2>1, <2>7, PromoteLife
    <3>2. /\ status' \in [Variants -> {"none", "active", "retired"}]
          /\ until' \in [Variants -> 0 .. MaxAge]
          /\ ActiveRows' = S
          /\ \A v \in S : until'[v] = MaxAge
      BY <2>1, <2>7, RetireAndUpsertExact
    <3>3. TiersOK'
      BY <2>2, <3>2 DEF TypeOK, TiersOK
    <3>4. AuxOK'
      BY <2>5, <2>7, <3>1 DEF TypeOK, AuxOK, SetsOrNone
    <3>5. OnePromotionActive'
      BY <3>1, <3>2 DEF OnePromotionActive
    <3>6. LifeBound'
      <4>1. SUFFICES ASSUME redis.set # {} PROVE redis.ttl <= Longest(redis.set)'
        BY <2>2 DEF LifeBound
      <4>2. redis.set \in CandidateSets /\ redis.ttl \in Nat
        BY <4>1 DEF TypeOK, TiersOK, Entries
      <4>3. /\ life[redis.set] \in Int /\ life'[redis.set] \in Int
            /\ life[redis.set] <= life'[redis.set]
        BY <3>1, <4>2 DEF TypeOK, AuxOK, Never
      <4>4. redis.ttl <= Longest(redis.set)
        BY <4>1 DEF WithinLife, LifeBound
      <4> QED  BY <2>2, <4>2, <4>3, <4>4 DEF Longest
    <3>7. \A v \in ActiveRows' : until'[v] <= life'[ActiveRows']
      BY <3>1, <3>2
    <3> QED  BY <2>2, <2>4, <3>1, <3>3, <3>4, <3>5, <3>6, <3>7, ReadersUnchanged
             DEF TypeOK, Promoted, WithinLife
  <2> QED  BY <2>3, <2>6, <2>7
<1>9. ASSUME OptimizerCrash \/ RecordFeedback \/ JanitorFind PROVE IInv'
  <2>1. UNCHANGED tiers /\ UNCHANGED life /\ UNCHANGED <<reader, answer, mode>> /\ UNCHANGED aux
    BY <1>9 DEF OptimizerCrash, RecordFeedback, JanitorFind, aux
  <2>2. AuxOK'
    BY <2>1 DEF TypeOK, AuxOK, aux
  <2>3. OptimizerOK'
    BY <1>9 DEF OptimizerCrash, RecordFeedback, JanitorFind, TypeOK, OptimizerOK,
                IdleOpt, SetsOrNone
  <2>4. \A T \in CandidateSets : life[T] <= life'[T]
    BY <2>1 DEF TypeOK, AuxOK, Never
  <2> QED  BY <2>1, <2>2, <2>3, <2>4, TiersUnchanged, ReadersUnchanged
           DEF TypeOK, Promoted, WithinLife, tiers
<1>10. ASSUME JanitorDelete \/ RedisRestart PROVE IInv'
  <2>1. UNCHANGED <<status, until, reader, answer, life>> /\ redis' \in {redis, NoEntry}
    BY <1>10 DEF JanitorDelete, RedisRestart, aux
  <2>2. Issued' = Issued /\ ActiveRows' = ActiveRows
    BY <2>1 DEF Issued, ActiveRows
  <2>3. ActiveRows \in SetsOrNone
    BY IssuedFacts DEF OnePromotionActive, SetsOrNone
  <2>4. AuxOK'
    BY <1>10, <2>3 DEF JanitorDelete, RedisRestart, TypeOK, AuxOK, aux
  <2>5. OptimizerOK'
    BY <1>10 DEF JanitorDelete, RedisRestart, TypeOK, OptimizerOK
  <2>6. TiersOK'
    BY <2>1 DEF TypeOK, TiersOK, Entries, NoEntry
  <2>7. OnePromotionActive'
    BY <2>1, <2>2 DEF OnePromotionActive
  <2>8. LifeBound'
    BY <2>1 DEF LifeBound, WithinLife, Longest, NoEntry
  <2>9. \A T \in CandidateSets : life[T] <= life'[T]
    BY <2>1 DEF TypeOK, AuxOK, Never
  <2> QED  BY <2>1, <2>2, <2>4, <2>5, <2>6, <2>7, <2>8, <2>9, ReadersUnchanged
           DEF TypeOK, Promoted, WithinLife, NoEntry
<1>11. ASSUME Tick PROVE IInv'
  <2>1. /\ life' \in [CandidateSets -> Never .. MaxAge]
        /\ Issued' = Issued
        /\ \A S \in CandidateSets : life[S] - 1 <= life'[S]
        /\ \A S \in Issued : life'[S] = IF life[S] > 0 THEN life[S] - 1 ELSE 0
    BY <1>11, TickLife DEF Tick
  <2>2. ActiveRows' = ActiveRows
    BY <1>11 DEF Tick, ActiveRows
  <2>3. \/ redis' = NoEntry
        \/ redis' = [set |-> redis.set, ttl |-> redis.ttl - 1] /\ redis.ttl > 1
    BY <1>11 DEF Tick, Expire
  <2>4. TiersOK'
    <3>1. redis' \in Entries /\ (redis'.set = {} <=> redis'.ttl = 0)
      BY <2>3 DEF TypeOK, TiersOK, Entries, NoEntry
    <3>2. status' \in [Variants -> {"none", "active", "retired"}]
      BY <1>11 DEF Tick, TypeOK, TiersOK
    <3>3. until' \in [Variants -> 0 .. MaxAge]
      BY <1>11 DEF Tick, TypeOK, TiersOK, Dec
    <3> QED  BY <3>1, <3>2, <3>3 DEF TiersOK
  <2>5. ASSUME NEW r \in Readers
        PROVE  /\ reader'[r] \in [pc : Phases, held : SetsOrNone, ttl : 0 .. MaxAge, age : 0 .. LookupTicks]
               /\ reader'[r].pc = reader[r].pc /\ reader'[r].held = reader[r].held
               /\ reader'[r].ttl = reader[r].ttl
               /\ reader[r].pc # "idle" => reader'[r].age = reader[r].age + 1
    BY <1>11 DEF Tick, TypeOK, ReadersOK, InFlight
  <2>6. ReadersOK'
    <3>1. reader' \in [Readers -> [pc : Phases, held : SetsOrNone,
                                   ttl : 0 .. MaxAge, age : 0 .. LookupTicks]]
      BY <1>11, <2>5 DEF Tick
    <3> QED  BY <1>11, <2>5, <3>1 DEF Tick, TypeOK, ReadersOK
  <2>7. OptimizerOK'
    BY <1>11 DEF Tick, TypeOK, OptimizerOK, Dec
  <2>8. AuxOK'
    BY <1>11, <2>1 DEF Tick, TypeOK, AuxOK
  <2>9. OnePromotionActive'
    <3>1. \A v \in ActiveRows : until'[v] = Dec(until[v])
      BY <1>11 DEF Tick, ActiveRows
    <3> QED  BY <2>1, <2>2, <3>1 DEF OnePromotionActive
  <2>10. Promoted'
    BY <1>11, <2>1, <2>3, <2>5 DEF Tick, Promoted, NoEntry
  <2>11. ASSUME NEW v \in ActiveRows' PROVE until'[v] <= life'[ActiveRows']
    <3>1. ActiveRows \in Issued
      BY <2>2 DEF OnePromotionActive
    <3>2. until[v] \in 0 .. MaxAge /\ until[v] <= life[ActiveRows] /\ until'[v] = Dec(until[v])
      BY <1>11, <2>2 DEF Tick, WithinLife, TypeOK, TiersOK, ActiveRows
    <3>3. life[ActiveRows] \in 0 .. MaxAge
      BY <3>1, IssuedFacts
    <3> QED  BY <2>1, <2>2, <3>1, <3>2, <3>3 DEF Dec
  <2>12. ASSUME NEW r \in Readers, reader'[r].pc = "rewarm"
         PROVE  reader'[r].ttl <= HeldLongest(reader[r].held, reader[r].age)'
    <3> DEFINE H == reader[r].held  a == reader[r].age
    <3>1. reader[r].pc = "rewarm" /\ reader'[r].age = a + 1 /\ reader'[r].held = H
      BY <2>5, <2>12
    <3>2. H \in CandidateSets /\ a \in Nat /\ reader[r].ttl \in Nat
      BY <3>1 DEF TypeOK, ReadersOK, SetsOrNone
    <3>3. reader[r].ttl <= HeldLongest(H, a)
      BY <3>1 DEF WithinLife
    <3>4. life[H] \in Int /\ life'[H] \in Int /\ life[H] - 1 <= life'[H]
      BY <2>1, <3>2 DEF TypeOK, AuxOK, Never
    <3>5. reader'[r].ttl = reader[r].ttl
      BY <2>5
    <3> QED  BY <3>1, <3>2, <3>3, <3>4, <3>5 DEF HeldLongest
  <2>13. LifeBound'
    <3>1. SUFFICES ASSUME redis'.set # {} PROVE redis'.ttl <= Longest(redis.set)'
      BY DEF LifeBound
    <3>2. redis' = [set |-> redis.set, ttl |-> redis.ttl - 1] /\ redis.set # {}
      BY <2>3, <3>1 DEF NoEntry
    <3>3. redis.set \in CandidateSets /\ redis.ttl \in Nat
      BY <3>2 DEF TypeOK, TiersOK, Entries
    <3>4. redis.ttl <= Longest(redis.set)
      BY <3>2 DEF WithinLife, LifeBound
    <3>5. /\ life[redis.set] \in Int /\ life'[redis.set] \in Int
          /\ life[redis.set] - 1 <= life'[redis.set]
      BY <2>1, <3>3 DEF TypeOK, AuxOK, Never
    <3> QED  BY <3>2, <3>3, <3>4, <3>5 DEF Longest
  <2> QED  BY <2>4, <2>6, <2>7, <2>8, <2>9, <2>10, <2>11, <2>12, <2>13 DEF TypeOK, WithinLife
<1>12. CASE UNCHANGED vars
  <2>1. /\ UNCHANGED tiers /\ UNCHANGED life /\ UNCHANGED <<reader, answer>>
        /\ UNCHANGED <<opt, janitor, fresh, acked, mode>>
    BY <1>12 DEF vars, aux
  <2>2. OptimizerOK' /\ AuxOK'
    BY <2>1 DEF TypeOK, OptimizerOK, AuxOK
  <2>3. \A T \in CandidateSets : life[T] <= life'[T]
    BY <2>1 DEF TypeOK, AuxOK, Never
  <2> QED  BY <2>1, <2>2, <2>3, TiersUnchanged, ReadersUnchanged
           DEF TypeOK, Promoted, WithinLife, tiers
<1> QED  BY <1>1, <1>2, <1>3, <1>4, <1>5, <1>6, <1>7, <1>8, <1>9, <1>10, <1>11, <1>12
         DEF Next, Lookup, Promotion

\* The inductive invariant holds in every reachable state.
THEOREM Invariance == Spec => []IInv
<1> QED  BY InitIInv, NextIInv, PTL DEF Spec

\* The state keeps its types.
THEOREM TypeCorrect == Spec => []TypeOK
<1>1. IInv => TypeOK
  BY DEF IInv
<1> QED  BY <1>1, Invariance, PTL

\* What GetActiveVariants returns is always exactly one promotion's set.
THEOREM NeverMixed == Spec => []OnePromotionActive
<1>1. IInv => OnePromotionActive
  BY DEF IInv
<1> QED  BY <1>1, Invariance, PTL

\* No re-warm keeps a set in Redis past its last promotion's deadline, but for
\* the minimum TTL and the time a lookup takes.
THEOREM RewarmNeverStretches == Spec => []LifeBound
<1>1. IInv => LifeBound
  BY DEF IInv, WithinLife
<1> QED  BY <1>1, Invariance, PTL

-----------------------------------------------------------------------------
(* Without Postgres *)

\* No lookup and no promotion gets as far as Postgres, so nothing re-warms Redis:
\* while a promotion stands acknowledged none is writing.
RedisAlone ==
    mode = "redis" =>
        /\ \A r \in Readers : reader[r].pc = "idle"
        /\ opt.pc # "pg"
        /\ opt.pc # "idle" => acked = {}
        /\ AckedIsCached

\* Every step keeps that too.
LEMMA NextAlone == IInv /\ RedisAlone /\ [Next]_vars => RedisAlone'
<1> SUFFICES ASSUME IInv, RedisAlone, [Next]_vars, mode' = "redis" PROVE RedisAlone'
  BY DEF RedisAlone
<1>0. /\ mode = "redis"
      /\ \A r \in Readers : reader[r].pc = "idle"
      /\ opt.pc # "pg"
      /\ opt.pc # "idle" => acked = {}
      /\ acked # {} => redis.set \in {{}, acked}
  <2>1. mode' = mode
    BY DEF Next, Lookup, Promotion, RedisHit, RedisMiss, PgFound, PgNone, Rewarm, PromoteStart, PromoteRedis,
           PromotePg, OptimizerCrash, RecordFeedback, JanitorFind, JanitorDelete, RedisRestart, Tick, vars
  <2> QED  BY <2>1 DEF RedisAlone, AckedIsCached
<1>1. ~PgConfigured
  BY <1>0 DEF PgConfigured
<1>2. ASSUME UNCHANGED redis, \A r \in Readers : reader'[r].pc = "idle",
             opt' \in {opt, IdleOpt}, acked' = acked
      PROVE  RedisAlone'
  BY <1>0, <1>2 DEF RedisAlone, AckedIsCached, IdleOpt
<1>3. CASE \E r \in Readers : Lookup(r)
  <2>1. UNCHANGED <<redis, reader, opt, acked>>
    BY <1>0, <1>1, <1>3 DEF Lookup, RedisHit, RedisMiss, PgFound, PgNone, Rewarm, tiers, aux
  <2> QED  BY <1>0, <1>2, <2>1
<1>4. CASE \E S \in CandidateSets : PromoteStart(S)
  <2>1. acked' = {} /\ opt'.pc = "redis" /\ UNCHANGED <<redis, reader>>
    BY <1>4 DEF PromoteStart, tiers
  <2> QED  BY <1>0, <2>1 DEF RedisAlone, AckedIsCached
<1>5. CASE PromoteRedis
  <2> DEFINE S == opt.set
  <2>1. S \in CandidateSets
    BY <1>5 DEF PromoteRedis, IInv, TypeOK, OptimizerOK, SetsOrNone
  <2>2. opt' = IdleOpt /\ UNCHANGED reader /\ opt.pc = "redis"
    BY <1>1, <1>5 DEF PromoteRedis
  <2>3. \/ /\ redis' = [set |-> S, ttl |-> MaxAge]
           /\ acked' \in {S, {}}
        \/ UNCHANGED redis /\ acked' = {}
    BY <1>1, <1>5 DEF PromoteRedis, Ack
  <2>4. opt'.pc = "idle"
    BY <2>2 DEF IdleOpt
  <2>5. CASE UNCHANGED redis /\ acked' = {}
    BY <1>0, <2>2, <2>4, <2>5 DEF RedisAlone, AckedIsCached
  <2>6. CASE redis' = [set |-> S, ttl |-> MaxAge] /\ acked' \in {S, {}}
    <3>1. redis'.set = S
      BY <2>6
    <3> QED  BY <1>0, <2>2, <2>4, <2>6, <3>1 DEF RedisAlone, AckedIsCached
  <2> QED  BY <2>3, <2>5, <2>6
<1>6. CASE OptimizerCrash
  BY <1>0, <1>2, <1>6 DEF OptimizerCrash, tiers, aux
<1>7. CASE JanitorDelete \/ RedisRestart
  <2>1. UNCHANGED <<reader, opt, acked>> /\ redis' \in {redis, NoEntry}
    BY <1>7 DEF JanitorDelete, RedisRestart, aux
  <2>2. CASE redis' = redis
    BY <1>0, <1>2, <2>1, <2>2
  <2>3. CASE redis' = NoEntry
    <3>1. redis'.set = {}
      BY <2>3 DEF NoEntry
    <3> QED  BY <1>0, <2>1, <3>1 DEF RedisAlone, AckedIsCached
  <2> QED  BY <2>1, <2>2, <2>3
<1>8. CASE Tick
  <2>1. /\ redis' = Expire(redis) /\ UNCHANGED <<opt, acked>>
        /\ \A r \in Readers : reader'[r].pc = "idle"
    BY <1>0, <1>8 DEF Tick, InFlight
  <2>2. CASE redis.ttl > 1
    <3>1. redis'.set = redis.set
      BY <2>1, <2>2 DEF Expire
    <3> QED  BY <1>0, <2>1, <3>1 DEF RedisAlone, AckedIsCached
  <2>3. CASE ~(redis.ttl > 1)
    <3>1. redis'.set = {}
      BY <2>1, <2>3 DEF Expire, NoEntry
    <3> QED  BY <1>0, <2>1, <3>1 DEF RedisAlone, AckedIsCached
  <2> QED  BY <2>2, <2>3
<1>9. CASE PromotePg \/ RecordFeedback \/ JanitorFind
  BY <1>0, <1>1, <1>9 DEF PromotePg, RecordFeedback, JanitorFind
<1>10. CASE UNCHANGED vars
  BY <1>0, <1>2, <1>10 DEF vars, tiers, aux
<1> QED  BY <1>3, <1>4, <1>5, <1>6, <1>7, <1>8, <1>9, <1>10 DEF Next, Promotion

\* It holds in every state.
THEOREM AloneInvariance == Spec => []RedisAlone
<1>1. Init => RedisAlone
  BY DEF Init, RedisAlone, AckedIsCached, NoEntry, IdleReader, IdleOpt
<1> QED  BY <1>1, NextAlone, Invariance, PTL DEF Spec

\* Without Postgres Redis holds the set of the promotion that was acknowledged
\* last, or nothing, until the next promotion starts.
THEOREM AloneKeepsItsWord == Spec => []AckedIsCachedAlone
<1>1. RedisAlone => AckedIsCachedAlone
  BY DEF RedisAlone, AckedIsCachedAlone
<1> QED  BY <1>1, AloneInvariance, PTL

-----------------------------------------------------------------------------
(* The store implements VariantService *)

\* Empty tiers map to a service that has issued nothing.
LEMMA InitRefines == Init => Service!SInit
BY DEF Init, Service!SInit, Service!Baseline, Issued

\* Each step of the store either issues the promoted set, answers one reader
\* with a set some promotion wrote, or is invisible.
LEMMA StepRefines == IInv /\ [Next]_vars => [Service!SNext]_(Service!svars)
<1> SUFFICES ASSUME IInv, [Next]_vars PROVE Service!SNext \/ UNCHANGED Service!svars
  OBVIOUS
<1> USE DEF Service!svars
<1>1. ASSUME UNCHANGED life, UNCHANGED answer PROVE UNCHANGED Service!svars
  BY <1>1 DEF Issued
<1>2. ASSUME NEW r \in Readers, NEW S \in Issued \cup {{}}, UNCHANGED life,
             answer' = [answer EXCEPT ![r] = S]
      PROVE  Service!SNext
  <2>1. Issued' = Issued
    BY <1>2 DEF Issued
  <2>2. Service!Answer(r)
    BY <1>2, <2>1 DEF Service!Answer, Service!Baseline
  <2> QED  BY <2>2 DEF Service!SNext
<1>3. ASSUME NEW S \in CandidateSets, life' = [life EXCEPT ![S] = MaxAge], UNCHANGED answer
      PROVE  Service!SNext
  <2>1. Issued' = Issued \cup {S}
    BY <1>3, PromoteLife DEF IInv
  <2>2. Service!Issue(S)
    BY <1>3, <2>1 DEF Service!Issue
  <2> QED  BY <2>2 DEF Service!SNext
<1>4. CASE \E r \in Readers : Lookup(r)
  <2>1. PICK r \in Readers : Lookup(r)
    BY <1>4
  <2>2. UNCHANGED life
    BY <2>1 DEF Lookup, RedisHit, RedisMiss, PgFound, PgNone, Rewarm, aux
  <2>3. \/ UNCHANGED answer
        \/ \E S \in {redis.set, {}, reader[r].held} : answer' = [answer EXCEPT ![r] = S]
    BY <2>1 DEF Lookup, RedisHit, RedisMiss, PgFound, PgNone, Rewarm
  <2>4. {redis.set, {}, reader[r].held} \subseteq Issued \cup {{}}
    BY DEF IInv, Promoted
  <2> QED  BY <1>1, <1>2, <2>2, <2>3, <2>4
<1>5. CASE \E S \in CandidateSets : PromoteStart(S)
  BY <1>1, <1>5 DEF PromoteStart
<1>6. CASE PromoteRedis \/ PromotePg
  <2>1. opt.set \in CandidateSets
    BY <1>6 DEF PromoteRedis, PromotePg, IInv, TypeOK, OptimizerOK, SetsOrNone
  <2>2. UNCHANGED answer /\ (UNCHANGED life \/ life' = [life EXCEPT ![opt.set] = MaxAge])
    BY <1>6 DEF PromoteRedis, PromotePg
  <2> QED  BY <1>1, <1>3, <2>1, <2>2
<1>7. CASE OptimizerCrash \/ RecordFeedback \/ JanitorFind \/ JanitorDelete \/ RedisRestart
  BY <1>1, <1>7 DEF OptimizerCrash, RecordFeedback, JanitorFind, JanitorDelete, RedisRestart, aux
<1>8. CASE Tick
  BY <1>8, TickLife DEF Tick, IInv
<1>9. CASE UNCHANGED vars
  BY <1>1, <1>9 DEF vars, aux
<1> QED  BY <1>4, <1>5, <1>6, <1>7, <1>8, <1>9 DEF Next, Promotion

\* The two tiers with their faults implement the promise the proxy relies on:
\* an answer is one whole promoted set or the baseline.
THEOREM Refinement == Spec => ImplementsService
<1> QED  BY InitRefines, StepRefines, Invariance, PTL DEF Spec, ImplementsService, Service!SSpec

=============================================================================
