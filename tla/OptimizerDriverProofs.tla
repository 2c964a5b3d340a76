----------------------- MODULE OptimizerDriverProofs -----------------------
(***************************************************************************)
(* Proofs, for every number of conversations and ratings, every setting    *)
(* and every set of faults, that the optimizer's runs keep their types and *)
(* never promote twice because of one rating.                              *)
(***************************************************************************)
EXTENDS OptimizerDriver, FiniteSetTheorems, SequenceTheorems, TLAPS

\* A rating that no later run can sample from the tier runs sample from.
Consumed(i) == IF mode = "layered" THEN events[i].pg # "unused" ELSE events[i].key = "gone"

\* From its sampling to its promotion a run holds ratings that taught nothing
\* yet, of the conversations it is going to consume.
Holding == {"analyse", "generate", "consume", "rollup", "promote"}
HeldAreNew ==
    drv.pc \in Holding =>
        \A i \in drv.from : learnt[i] = 0 /\ events[i].in.conv \in drv.convs

\* They are consumed before they are promoted: in Postgres by MarkFeedbackUsed,
\* in Redis by the roll-up after it.
HeldAreConsumed ==
    /\ drv.pc = "rollup" /\ mode = "layered" => \A i \in drv.from : Consumed(i)
    /\ drv.pc = "promote" => \A i \in drv.from : Consumed(i)

\* What a promotion learnt from cannot be sampled again.
LearntAreConsumed == \A i \in Given : learnt[i] # 0 => Consumed(i)

\* The inductive invariant.  NotLearntTwice alone is not inductive: it needs
\* that what a run holds was not learnt from and that it is consumed first.
IInv ==
    /\ TypeOK
    /\ missed = "no" => /\ HeldAreNew
                        /\ HeldAreConsumed
                        /\ LearntAreConsumed
                        /\ \A i \in Given : learnt[i] <= 1

USE DriverAssumption

Event == [in : Inputs, pg : {"none", "unused", "used"}, key : {"live", "gone"}]

-----------------------------------------------------------------------------
(* What a run loads *)

\* The ratings given and the conversations are finitely many.
LEMMA Finite == ASSUME TypeOK PROVE IsFiniteSet(Given) /\ IsFiniteSet(Convs) /\ Len(events) \in Nat
BY FS_Interval DEF TypeOK, Given, Convs

\* What makes a session ready is a number.
LEMMA EnoughIsNat == Enough \in Nat
BY DEF Enough

\* Counting stops at what makes a session ready.
LEMMA CountedUpTo ==
    ASSUME TypeOK, NEW in, RecordFeedback(in) PROVE rated' \in 0 .. Enough
<1>1. rated \in 0 .. Enough
  BY DEF TypeOK
<1>2. CASE rated' = rated
  BY <1>1, <1>2
<1>3. CASE \E n \in 0 .. 2 : rated' = UpTo(rated + n)
  BY <1>1, <1>3, EnoughIsNat DEF UpTo
<1> QED  BY <1>2, <1>3 DEF RecordFeedback, Counted

\* The fields of a rating's record.
LEMMA EventFacts ==
    ASSUME TypeOK, NEW i \in Given
    PROVE  events[i] \in Event /\ events[i].in.conv \in Convs
<1>1. events \in Seq(Event)
  BY DEF TypeOK, Event
<1>2. events[i] \in Event
  BY <1>1 DEF Given
<1> QED  BY <1>2 DEF Event

\* Whatever the order of the list and the number of samples per variant, what
\* selectBalanced picks are rows of the list.
LEMMA SelectedAreRows ==
    ASSUME NEW S, IsFiniteSet(S), NEW l \in SetToSeqs(S) PROVE Selected(l) \subseteq S
<1>1. Cardinality(S) \in Nat
  BY FS_CardinalityType
<1>2. l \in [1 .. Cardinality(S) -> S]
  BY DEF SetToSeqs
<1>3. Len(l) = Cardinality(S)
  BY <1>1, <1>2
<1> QED  BY <1>1, <1>2, <1>3 DEF Selected

\* A row of one conversation with at least one rating.
Homogeneous(row) ==
    row \in SUBSET Given /\ \E i \in row : \A j \in row : events[j].in.conv = events[i].in.conv

\* The rows of the Postgres query: unused ratings of one conversation.
LEMMA PgRowFacts ==
    ASSUME TypeOK, NEW row \in PgRows
    PROVE  Homogeneous(row) /\ \A i \in row : events[i].pg = "unused"
<1>1. PICK i \in Given : /\ events[i].pg = "unused"
                         /\ row = PgRow(events[i].in.conv, events[i].in.comment)
  BY DEF PgRows
<1>2. i \in row
  BY <1>1 DEF PgRow
<1> QED  BY <1>1, <1>2 DEF PgRow, Homogeneous

\* The samples from Redis: ratings of one conversation that its key counts.
LEMMA RedisRowFacts ==
    ASSUME TypeOK, NEW inLog \in SUBSET Convs, NEW row \in RedisRows(inLog)
    PROVE  Homogeneous(row) /\ \A i \in row : events[i].key = "live"
<1>1. PICK c \in inLog : row = RedisRow(c) /\ row # {}
  BY DEF RedisRows
<1> QED  BY <1>1 DEF RedisRow, Homogeneous

\* All the lists either store may return are made of such rows.
LEMMA LoadedFromPg ==
    ASSUME TypeOK, NEW l \in PgLists
    PROVE  \A row \in Selected(l) : Homogeneous(row) /\ \A i \in row : events[i].pg = "unused"
<1> DEFINE D == {j \in Given : events[j].pg = "unused" /\ events[j].in.conv \in usable}
           f == [i \in D |-> PgRow(events[i].in.conv, events[i].in.comment)]
<1>1. IsFiniteSet(D)
  BY Finite, FS_Subset
<1>2. PgRows = {f[i] : i \in D}
  BY DEF PgRows
<1>3. IsFiniteSet({f[i] : i \in D})
  <2>1. f \in Surjection(D, {f[i] : i \in D})
    BY DEF Surjection
  <2> HIDE DEF D, f
  <2> QED  BY <1>1, <2>1, FS_Surjection
<1>4. Selected(l) \subseteq PgRows
  BY <1>2, <1>3, SelectedAreRows DEF PgLists
<1> QED  BY <1>4, PgRowFacts

\* The same for Redis.
LEMMA LoadedFromRedis ==
    ASSUME TypeOK, NEW l \in RedisLists
    PROVE  \A row \in Selected(l) : Homogeneous(row) /\ \A i \in row : events[i].key = "live"
<1>1. PICK inLog \in SUBSET Convs : l \in SetToSeqs(RedisRows(inLog))
  BY DEF RedisLists
<1> DEFINE D == {d \in inLog : RedisRow(d) # {}}
           f == [c \in D |-> RedisRow(c)]
<1>2. IsFiniteSet(D)
  BY Finite, FS_Subset
<1>3. RedisRows(inLog) = {f[c] : c \in D}
  BY DEF RedisRows
<1>4. IsFiniteSet({f[c] : c \in D})
  <2>1. f \in Surjection(D, {f[c] : c \in D})
    BY DEF Surjection
  <2> HIDE DEF D, f
  <2> QED  BY <1>2, <2>1, FS_Surjection
<1>5. Selected(l) \subseteq RedisRows(inLog)
  BY <1>1, <1>3, <1>4, SelectedAreRows
<1> QED  BY <1>5, RedisRowFacts

\* What the run goes on with: it stops with nothing, or has conversations, and
\* every rating it holds is of one of them.
LEMMA AfterLoadFacts ==
    ASSUME TypeOK, NEW rows, \A row \in rows : Homogeneous(row)
    PROVE  LET d == AfterLoad(rows)
           IN  /\ d \in [pc : {"sleep", "all_positive", "analyse"},
                         convs : SUBSET Convs, from : SUBSET Given]
               /\ d.convs # {} <=> d.pc # "sleep"
               /\ d.from = UNION rows
               /\ \A i \in d.from : events[i].in.conv \in d.convs
<1>1. ASSUME NEW row \in rows
      PROVE  /\ row \in SUBSET Given
             /\ ConvOfRow(row) \in Convs
             /\ \A i \in row : events[i].in.conv = ConvOfRow(row)
  <2>1. PICK i \in row : \A j \in row : events[j].in.conv = events[i].in.conv
    BY DEF Homogeneous
  <2>2. row \in SUBSET Given
    BY DEF Homogeneous
  <2>3. (CHOOSE k \in row : TRUE) \in row
    BY <2>1
  <2>4. ConvOfRow(row) = events[i].in.conv
    BY <2>1, <2>3 DEF ConvOfRow
  <2>5. events[i].in.conv \in Convs
    BY <2>1, <2>2, EventFacts
  <2> QED  BY <2>1, <2>2, <2>4, <2>5
<1>2. CASE rows = {}
  BY <1>2 DEF AfterLoad, Idle
<1>3. CASE rows # {}
  <2> DEFINE d == AfterLoad(rows)
             pc == IF \A row \in rows : Score(row) = 1 THEN "all_positive" ELSE "analyse"
  <2>1. pc \in {"all_positive", "analyse"}
    OBVIOUS
  <2> HIDE DEF pc
  <2>2. d = [pc |-> pc, convs |-> {ConvOfRow(row) : row \in rows}, from |-> UNION rows]
    BY <1>3 DEF AfterLoad, pc
  <2> HIDE DEF d
  <2>3. d.convs \in SUBSET Convs /\ d.convs # {} /\ d.from \in SUBSET Given
    BY <1>1, <1>3, <2>2
  <2>4. \A i \in d.from : events[i].in.conv \in d.convs
    BY <1>1, <2>2
  <2> QED  BY <2>1, <2>2, <2>3, <2>4 DEF d
<1> QED  BY <1>2, <1>3

-----------------------------------------------------------------------------
(* Steps *)

\* The step leaves the ratings and what was learnt alone, and the run holds
\* nothing after it: it ended, or has not begun.
LEMMA RunEnds ==
    ASSUME IInv, NEW pc \in Waiting, drv' = Idle(pc), cool' \in 0 .. Buffer,
           UNCHANGED <<mode, usable, events, rated, learnt, seen, missed>>
    PROVE  IInv'
<1>1. TypeOK'
  BY DEF IInv, TypeOK, Idle, Given, Waiting
<1>2. HeldAreNew' /\ HeldAreConsumed'
  BY DEF Idle, Waiting, HeldAreNew, HeldAreConsumed, Holding
<1>3. missed' = "no" => LearntAreConsumed' /\ \A i \in Given' : learnt'[i] <= 1
  BY DEF IInv, LearntAreConsumed, Consumed, Given
<1> QED  BY <1>1, <1>2, <1>3 DEF IInv

\* An LLM call succeeded: the run holds what it held.
LEMMA LLMCallStep ==
    ASSUME IInv, Analyse \/ Generate PROVE IInv'
<1>1. PICK call \in {"analyse", "generate"}, next \in {"generate", "consume"} : Complete(call, next)
  BY DEF Analyse, Generate
<1>2. TypeOK'
  BY <1>1 DEF IInv, TypeOK, Complete, Given, Waiting
<1>3. missed' = "no" => HeldAreNew'
  BY <1>1 DEF IInv, TypeOK, HeldAreNew, Complete, Holding
<1>4. HeldAreConsumed'
  BY <1>1 DEF IInv, TypeOK, HeldAreConsumed, Complete
<1>5. missed' = "no" => LearntAreConsumed' /\ \A i \in Given' : learnt'[i] <= 1
  BY <1>1 DEF IInv, LearntAreConsumed, Consumed, Given, Complete
<1> QED  BY <1>2, <1>3, <1>4, <1>5 DEF IInv

\* A run loads ratings of the tier it consumes them in, or a miss is recorded:
\* what it holds was not consumed, hence not learnt from.
LEMMA LoadStep ==
    ASSUME IInv, NEW rows, \A row \in rows : Homogeneous(row),
           missed' = "no" => missed = "no" /\ \A row \in rows : \A i \in row : ~Consumed(i),
           missed' \in {"yes", "no"},
           drv' = AfterLoad(rows), seen' = seen \cup drv'.from,
           UNCHANGED <<mode, usable, events, rated, cool, learnt>>
    PROVE  IInv'
<1> DEFINE d == AfterLoad(rows)
<1>1. /\ d \in [pc : {"sleep", "all_positive", "analyse"}, convs : SUBSET Convs, from : SUBSET Given]
      /\ d.convs # {} <=> d.pc # "sleep"
      /\ d.from = UNION rows
      /\ \A i \in d.from : events[i].in.conv \in d.convs
  BY AfterLoadFacts DEF IInv
<1> HIDE DEF d
<1>2. drv' = d
  BY DEF d
<1>3. TypeOK'
  BY <1>1, <1>2 DEF IInv, TypeOK, Given, Waiting
<1>4. ASSUME missed' = "no" PROVE HeldAreNew'
  <2>1. \A i \in d.from : i \in Given /\ ~Consumed(i)
    BY <1>1, <1>4
  <2>2. \A i \in d.from : learnt[i] = 0
    BY <1>4, <2>1 DEF IInv, LearntAreConsumed
  <2> QED  BY <1>1, <1>2, <2>2 DEF HeldAreNew
<1>5. HeldAreConsumed'
  BY <1>1, <1>2 DEF HeldAreConsumed
<1>6. missed' = "no" => LearntAreConsumed' /\ \A i \in Given' : learnt'[i] <= 1
  BY DEF IInv, LearntAreConsumed, Consumed, Given
<1> QED  BY <1>3, <1>4, <1>5, <1>6 DEF IInv

\* Samples from Postgres are unused events.
LEMMA LoadFromPgStep == ASSUME IInv, LoadFromPg PROVE IInv'
<1>1. PICK l \in PgLists : drv' = AfterLoad(Selected(l))
  BY DEF LoadFromPg, Load
<1>2. \A row \in Selected(l) : Homogeneous(row) /\ \A i \in row : events[i].pg = "unused"
  BY LoadedFromPg DEF IInv
<1>3. \A row \in Selected(l) : \A i \in row : ~Consumed(i)
  BY <1>2 DEF Consumed, LoadFromPg
<1> DEFINE rows == Selected(l)
<1> HIDE DEF rows
<1>4. missed' = missed /\ missed \in {"yes", "no"}
  BY DEF LoadFromPg, IInv, TypeOK
<1>5. seen' = seen \cup drv'.from /\ UNCHANGED <<mode, usable, events, rated, cool, learnt>>
  BY DEF LoadFromPg
<1> QED  BY <1>1, <1>2, <1>3, <1>4, <1>5, LoadStep DEF rows

\* Samples from Redis are counted by a live key; in layered mode that is a miss.
LEMMA LoadFromRedisStep == ASSUME IInv, LoadFromRedis PROVE IInv'
<1>1. seen' = seen \cup drv'.from /\ UNCHANGED <<mode, usable, events, rated, cool, learnt>>
  BY DEF LoadFromRedis
<1>2. missed' \in {"yes", "no"} /\ (missed' = "no" => missed = "no" /\ mode # "layered")
  BY DEF LoadFromRedis, IInv, TypeOK
<1>3. CASE Load(RedisLists)
  <2>1. PICK l \in RedisLists : drv' = AfterLoad(Selected(l))
    BY <1>3 DEF Load
  <2>2. \A row \in Selected(l) : Homogeneous(row) /\ \A i \in row : events[i].key = "live"
    BY LoadedFromRedis DEF IInv
  <2>3. mode # "layered" => \A row \in Selected(l) : \A i \in row : ~Consumed(i)
    BY <2>2 DEF Consumed
  <2> DEFINE rows == Selected(l)
  <2> HIDE DEF rows
  <2> QED  BY <1>1, <1>2, <2>1, <2>2, <2>3, LoadStep DEF rows
<1>4. CASE drv' = Idle("sleep")
  <2>1. drv' = AfterLoad({})
    BY <1>4 DEF AfterLoad
  <2> DEFINE rows == {}
  <2>2. \A row \in rows : Homogeneous(row) /\ \A i \in row : ~Consumed(i)
    OBVIOUS
  <2>3. drv' = AfterLoad(rows)
    BY <2>1
  <2> HIDE DEF rows
  <2> QED  BY <1>1, <1>2, <2>2, <2>3, LoadStep
<1> QED  BY <1>3, <1>4 DEF LoadFromRedis

\* An update of the ratings' records keeps their number.
LEMMA Updated ==
    ASSUME TypeOK, NEW f \in [Given -> Event]
    PROVE  f \in Seq(Event) /\ Len(f) = Len(events)
<1>1. Len(events) \in Nat
  BY Finite
<1> QED  BY <1>1 DEF Given

\* The step only takes ratings out of reach, and the run goes on as it was.
LEMMA ConsumeStep ==
    ASSUME IInv,
           NEW next \in {"rollup", "promote", "optimized"}, drv' = [drv EXCEPT !.pc = next],
           drv.pc \in {"consume", "rollup", "all_positive"},
           next \in Holding => drv.pc \in Holding,
           events' \in [Given -> Event],
           \A i \in Given : events'[i].in = events[i].in /\ (Consumed(i) => Consumed(i)'),
           missed' \in {"yes", "no"}, missed' = "no" => missed = "no",
           missed' = "no" => HeldAreConsumed',
           UNCHANGED <<mode, usable, rated, cool, learnt, seen>>
    PROVE  IInv'
<1>1. events' \in Seq(Event) /\ Len(events') = Len(events)
  BY Updated DEF IInv
<1>2. Given' = Given
  BY <1>1 DEF Given
<1>3. TypeOK'
  BY <1>1, <1>2 DEF IInv, TypeOK, Waiting, Event
<1>4. ASSUME missed' = "no" PROVE HeldAreNew'
  <2>1. drv.from \subseteq Given /\ drv'.from = drv.from /\ drv'.convs = drv.convs /\ drv'.pc = next
    BY DEF IInv, TypeOK
  <2> QED  BY <1>4, <2>1 DEF IInv, HeldAreNew
<1>5. ASSUME missed' = "no" PROVE LearntAreConsumed' /\ \A i \in Given' : learnt'[i] <= 1
  BY <1>2, <1>5 DEF IInv, LearntAreConsumed
<1> QED  BY <1>3, <1>4, <1>5 DEF IInv

\* MarkFeedbackUsed marks all ratings of the sampled conversations, hence all
\* the run holds; when it fails a miss is recorded.
LEMMA MarkFeedbackUsedStep == ASSUME IInv, MarkFeedbackUsed PROVE IInv'
<1>0. TypeOK
  BY DEF IInv
<1>1. drv.pc = "consume" /\ drv' = [drv EXCEPT !.pc = "rollup"] /\ drv'.pc = "rollup" /\ drv'.from = drv.from
  BY <1>0 DEF MarkFeedbackUsed, TypeOK
<1>2. UNCHANGED <<mode, usable, rated, cool, learnt, seen>>
  BY DEF MarkFeedbackUsed
<1>3. CASE events' = MarkUsed(drv.convs) /\ UNCHANGED missed
  <2>1. ASSUME NEW i \in Given
        PROVE  /\ events'[i] \in Event
               /\ events'[i].in = events[i].in
               /\ events'[i].key = events[i].key
               /\ events[i].pg # "unused" => events'[i].pg # "unused"
               /\ events[i].in.conv \in drv.convs => events'[i].pg # "unused"
    <3>1. events[i] \in Event
      BY <1>0, EventFacts
    <3>2. events'[i] = IF events[i].in.conv \in drv.convs /\ events[i].pg # "none"
                       THEN [events[i] EXCEPT !.pg = "used"] ELSE events[i]
      BY <1>3 DEF MarkUsed
    <3> QED  BY <3>1, <3>2 DEF Event
  <2>2. events' \in [Given -> Event]
    <3>1. events' = [i \in Given |-> events'[i]]
      BY <1>3 DEF MarkUsed
    <3> QED  BY <2>1, <3>1
  <2>3. \A i \in Given : Consumed(i) => Consumed(i)'
    BY <1>2, <2>1 DEF Consumed
  <2>4. ASSUME missed' = "no" PROVE HeldAreConsumed'
    <3>1. \A i \in drv.from : i \in Given /\ events[i].in.conv \in drv.convs
      BY <1>0, <1>1, <1>3, <2>4 DEF IInv, HeldAreNew, Holding, TypeOK
    <3>2. \A i \in drv.from : events'[i].pg # "unused"
      BY <2>1, <3>1
    <3> QED  BY <1>1, <3>2 DEF HeldAreConsumed, Consumed
  <2>5. missed' \in {"yes", "no"}
    BY <1>0, <1>3 DEF TypeOK
  <2> QED  BY <1>1, <1>2, <1>3, <2>1, <2>2, <2>3, <2>4, <2>5, ConsumeStep DEF Holding
<1>4. CASE missed' = "yes" /\ UNCHANGED events
  <2>1. events' \in [Given -> Event]
    <3>1. events \in Seq(Event)
      BY <1>0 DEF TypeOK, Event
    <3> QED  BY <1>4, <3>1 DEF Given
  <2>2. \A i \in Given : events'[i].in = events[i].in /\ (Consumed(i) => Consumed(i)')
    BY <1>2, <1>4 DEF Consumed
  <2> QED  BY <1>1, <1>2, <1>4, <2>1, <2>2, ConsumeStep DEF Holding
<1> QED  BY <1>3, <1>4 DEF MarkFeedbackUsed

\* The roll-up deletes all conversation keys; when it keeps one, which matters
\* in Redis mode only, a miss is recorded.
LEMMA RollupStep == ASSUME IInv, Rollup PROVE IInv'
<1>0. TypeOK
  BY DEF IInv
<1> DEFINE next == IF drv.pc = "rollup" THEN "promote" ELSE "optimized"
<1>1. /\ drv.pc \in {"rollup", "all_positive"} /\ drv' = [drv EXCEPT !.pc = next]
      /\ drv'.from = drv.from /\ drv'.pc = next
  BY <1>0 DEF Rollup, TypeOK
<1>2. UNCHANGED <<mode, usable, rated, cool, learnt, seen>>
  BY DEF Rollup
<1>3. PICK kept \in SUBSET Convs :
         /\ events' = [i \in Given |-> IF events[i].in.conv \in kept THEN events[i]
                                       ELSE [events[i] EXCEPT !.key = "gone"]]
         /\ missed' = IF mode = "redis" /\ kept # {} THEN "yes" ELSE missed
  BY DEF Rollup
<1>4. ASSUME NEW i \in Given
      PROVE  /\ events'[i] \in Event
             /\ events'[i].in = events[i].in
             /\ events'[i].pg = events[i].pg
             /\ events[i].key = "gone" => events'[i].key = "gone"
             /\ events[i].in.conv \notin kept => events'[i].key = "gone"
  <2>1. events[i] \in Event
    BY <1>0, EventFacts
  <2>2. events'[i] = IF events[i].in.conv \in kept THEN events[i] ELSE [events[i] EXCEPT !.key = "gone"]
    BY <1>3
  <2> QED  BY <2>1, <2>2 DEF Event
<1>5. events' \in [Given -> Event]
  <2>1. events' = [i \in Given |-> events'[i]]
    BY <1>3
  <2> QED  BY <1>4, <2>1
<1>6. \A i \in Given : Consumed(i) => Consumed(i)'
  BY <1>2, <1>4 DEF Consumed
<1>7. missed' \in {"yes", "no"} /\ (missed' = "no" => missed = "no" /\ (mode = "redis" => kept = {}))
  BY <1>0, <1>3 DEF TypeOK
<1>8. ASSUME missed' = "no" PROVE HeldAreConsumed'
  <2>1. CASE drv.pc = "all_positive"
    BY <1>1, <2>1 DEF HeldAreConsumed
  <2>2. CASE drv.pc = "rollup" /\ mode = "layered"
    <3>1. \A i \in drv.from : i \in Given /\ Consumed(i)
      BY <1>0, <1>7, <1>8, <2>2 DEF IInv, HeldAreConsumed, TypeOK
    <3>2. \A i \in drv.from : Consumed(i)'
      BY <1>6, <3>1
    <3> QED  BY <1>1, <3>2 DEF HeldAreConsumed
  <2>3. CASE drv.pc = "rollup" /\ mode # "layered"
    <3>1. mode = "redis"
      BY <1>0, <2>3 DEF TypeOK
    <3>2. \A i \in drv.from : i \in Given /\ events'[i].key = "gone"
      BY <1>0, <1>4, <1>7, <1>8, <3>1 DEF TypeOK
    <3>3. \A i \in drv.from : Consumed(i)'
      BY <1>2, <2>3, <3>2 DEF Consumed
    <3> QED  BY <1>1, <3>3 DEF HeldAreConsumed
  <2> QED  BY <1>1, <2>1, <2>2, <2>3
<1>9. next \in {"rollup", "promote", "optimized"} /\ (next \in Holding => drv.pc \in Holding)
  BY <1>1 DEF Holding
<1> HIDE DEF next
<1> QED  BY <1>1, <1>2, <1>4, <1>5, <1>6, <1>7, <1>8, <1>9, ConsumeStep

\* A promotion from ratings that taught nothing and are consumed: they teach
\* once.
LEMMA PromoteStep == ASSUME IInv, Promote PROVE IInv'
<1>0. TypeOK
  BY DEF IInv
<1>1. drv.pc = "promote" /\ UNCHANGED <<mode, usable, events, rated, cool, seen, missed>>
  BY DEF Promote
<1>2. /\ \/ drv' = [drv EXCEPT !.pc = "optimized"]
         \/ drv' = Idle("sleep")
      /\ \/ learnt' = [i \in Given |-> IF i \in drv.from /\ learnt[i] < 2
                                       THEN learnt[i] + 1 ELSE learnt[i]]
         \/ learnt' = learnt
  BY DEF Promote
<1>3. /\ learnt' \in [Given -> 0 .. 2]
      /\ \A i \in Given : i \notin drv.from => learnt'[i] = learnt[i]
      /\ \A i \in Given : learnt[i] = 0 => learnt'[i] <= 1
  <2>1. learnt \in [Given -> 0 .. 2]
    BY <1>0 DEF TypeOK
  <2> QED  BY <1>2, <2>1
<1>4. /\ drv' \in [pc : {"optimized", "sleep"}, convs : SUBSET Convs, from : SUBSET Given]
      /\ drv'.convs # {} <=> drv'.pc # "sleep"
  BY <1>0, <1>1, <1>2 DEF TypeOK, Idle, Waiting
<1>5. TypeOK'
  BY <1>0, <1>1, <1>3, <1>4 DEF TypeOK, Given, Waiting
<1>6. HeldAreNew' /\ HeldAreConsumed'
  BY <1>4 DEF HeldAreNew, HeldAreConsumed, Holding
<1>7. ASSUME missed' = "no" PROVE LearntAreConsumed' /\ \A i \in Given' : learnt'[i] <= 1
  <2>1. missed = "no" /\ Given' = Given
    BY <1>1, <1>7 DEF Given
  <2>2. \A i \in drv.from : i \in Given /\ learnt[i] = 0 /\ Consumed(i)
    BY <1>0, <1>1, <2>1 DEF IInv, HeldAreNew, HeldAreConsumed, Holding, TypeOK
  <2>3. \A i \in Given : Consumed(i)' <=> Consumed(i)
    BY <1>1 DEF Consumed
  <2>4. \A i \in Given : learnt'[i] # 0 => Consumed(i)'
    BY <1>3, <2>1, <2>2, <2>3 DEF IInv, LearntAreConsumed
  <2>5. \A i \in Given : learnt'[i] <= 1
    BY <1>3, <2>1, <2>2 DEF IInv
  <2> QED  BY <2>1, <2>4, <2>5 DEF LearntAreConsumed
<1> QED  BY <1>5, <1>6, <1>7 DEF IInv

\* A new rating has taught nothing and is held by no run.
LEMMA RecordFeedbackStep ==
    ASSUME IInv, NEW in \in Inputs, RecordFeedback(in) PROVE IInv'
<1>0. TypeOK
  BY DEF IInv
<1>1. PICK e \in Event : events' = Append(events, e)
  BY DEF RecordFeedback, Event
<1>2. /\ learnt' = Append(learnt, 0) /\ rated' \in 0 .. Enough
      /\ UNCHANGED <<mode, usable, cool, drv, seen, missed>>
  BY <1>0, CountedUpTo DEF RecordFeedback
<1> DEFINE n == Len(events)
<1>3. events \in Seq(Event) /\ n \in Nat
  BY <1>0 DEF TypeOK, Event
<1>4. /\ events' \in Seq(Event) /\ Len(events') = n + 1
      /\ \A i \in 1 .. n : events'[i] = events[i]
  BY <1>1, <1>3
<1>5. learnt \in Seq(0 .. 2) /\ Len(learnt) = n
  BY <1>0, <1>3 DEF TypeOK, Given
<1>6. /\ learnt' \in [1 .. n + 1 -> 0 .. 2]
      /\ \A i \in 1 .. n : learnt'[i] = learnt[i]
      /\ learnt'[n + 1] = 0
  <2>1. 0 \in 0 .. 2
    OBVIOUS
  <2>2. /\ learnt' \in Seq(0 .. 2) /\ Len(learnt') = n + 1
        /\ \A i \in 1 .. n : learnt'[i] = learnt[i]
        /\ learnt'[n + 1] = 0
    BY <1>2, <1>5, <2>1, AppendProperties
  <2> QED  BY <2>2
<1>7. Given = 1 .. n /\ Given' = 1 .. n + 1
  BY <1>4 DEF Given
<1> HIDE DEF n
<1>8. rated' \in 0 .. Enough
  BY <1>2
<1>9. TypeOK'
  BY <1>0, <1>2, <1>3, <1>4, <1>6, <1>7, <1>8 DEF TypeOK, Event
<1>10. drv.from \subseteq 1 .. n
  BY <1>0, <1>7 DEF TypeOK
<1>11. \A i \in 1 .. n : Consumed(i)' <=> Consumed(i)
  BY <1>2, <1>4 DEF Consumed
<1>12. ASSUME missed' = "no" PROVE HeldAreNew' /\ HeldAreConsumed'
  <2>1. HeldAreNew'
    BY <1>2, <1>4, <1>6, <1>10, <1>12 DEF IInv, HeldAreNew
  <2>2. HeldAreConsumed'
    BY <1>2, <1>10, <1>11, <1>12 DEF IInv, HeldAreConsumed
  <2> QED  BY <2>1, <2>2
<1>13. ASSUME missed' = "no" PROVE LearntAreConsumed' /\ \A i \in Given' : learnt'[i] <= 1
  <2>1. \A i \in Given' : i \in 1 .. n \/ i = n + 1
    BY <1>3, <1>7
  <2>2. \A i \in 1 .. n : learnt[i] <= 1 /\ (learnt[i] # 0 => Consumed(i))
    BY <1>2, <1>7, <1>13 DEF IInv, LearntAreConsumed
  <2>3. \A i \in Given' : learnt'[i] <= 1
    BY <1>6, <2>1, <2>2
  <2>4. \A i \in Given' : learnt'[i] # 0 => Consumed(i)'
    BY <1>6, <1>11, <2>1, <2>2
  <2> QED  BY <2>3, <2>4 DEF LearntAreConsumed
<1> QED  BY <1>8, <1>9, <1>12, <1>13 DEF IInv

\* A restart of Redis takes ratings out of reach, never back into it.
LEMMA RedisRestartStep == ASSUME IInv, RedisRestart PROVE IInv'
<1>0. TypeOK
  BY DEF IInv
<1>1. /\ events' = [i \in Given |-> [events[i] EXCEPT !.key = "gone"]]
      /\ rated' = 0 /\ cool' \in {0, cool}
      /\ UNCHANGED <<mode, usable, drv, learnt, seen, missed>>
  BY DEF RedisRestart
<1>2. ASSUME NEW i \in Given
      PROVE  /\ events'[i] \in Event
             /\ events'[i].in = events[i].in /\ events'[i].pg = events[i].pg
             /\ events'[i].key = "gone"
  <2>1. events[i] \in Event
    BY <1>0, EventFacts
  <2>2. events'[i] = [events[i] EXCEPT !.key = "gone"]
    BY <1>1
  <2> QED  BY <2>1, <2>2 DEF Event
<1>3. events' \in Seq(Event) /\ Len(events') = Len(events)
  <2>1. events' = [i \in Given |-> events'[i]]
    BY <1>1
  <2>2. events' \in [Given -> Event]
    BY <1>2, <2>1
  <2> QED  BY <1>0, <2>2, Updated
<1>4. Given' = Given
  BY <1>3 DEF Given
<1>5. TypeOK'
  <2>1. rated' \in 0 .. Enough /\ cool' \in 0 .. Buffer
    BY <1>0, <1>1, EnoughIsNat DEF TypeOK
  <2>2. learnt' \in [Given' -> 0 .. 2] /\ seen' \subseteq Given'
    BY <1>0, <1>1, <1>4 DEF TypeOK
  <2> QED  BY <1>0, <1>1, <1>3, <1>4, <2>1, <2>2 DEF TypeOK, Event
<1>6. \A i \in Given : Consumed(i) => Consumed(i)'
  BY <1>1, <1>2 DEF Consumed
<1>7. drv.from \subseteq Given
  BY <1>0 DEF TypeOK
<1>8. missed' = "no" => HeldAreNew'
  BY <1>1, <1>2, <1>7 DEF IInv, HeldAreNew
<1>9. missed' = "no" => HeldAreConsumed'
  BY <1>1, <1>6, <1>7 DEF IInv, HeldAreConsumed
<1>10. missed' = "no" => LearntAreConsumed' /\ \A i \in Given' : learnt'[i] <= 1
  BY <1>1, <1>4, <1>6 DEF IInv, LearntAreConsumed
<1> QED  BY <1>5, <1>8, <1>9, <1>10 DEF IInv

\* Neither a copied log nor a step that changes nothing touches the ratings.
LEMMA LogCopiedStep ==
    ASSUME IInv, \/ UNCHANGED vars
                 \/ \E c \in Convs : LogCopied(c)
    PROVE  IInv'
<1>1. usable' \subseteq Convs /\ UNCHANGED <<mode, events, rated, cool, drv, learnt, seen, missed>>
  BY DEF IInv, TypeOK, LogCopied, vars
<1>2. TypeOK'
  BY <1>1 DEF IInv, TypeOK, Given
<1>3. missed' = "no" => HeldAreNew' /\ HeldAreConsumed'
  BY <1>1 DEF IInv, HeldAreNew, HeldAreConsumed, Consumed
<1>4. missed' = "no" => LearntAreConsumed' /\ \A i \in Given' : learnt'[i] <= 1
  BY <1>1 DEF IInv, LearntAreConsumed, Consumed, Given
<1> QED  BY <1>2, <1>3, <1>4 DEF IInv

-----------------------------------------------------------------------------
(* Theorems *)

\* The invariant is inductive, so every reachable state satisfies it.
THEOREM Inductive == Spec => []IInv
<1>1. Init => IInv
  <2> SUFFICES ASSUME Init PROVE IInv
    OBVIOUS
  <2>1. Given = {} /\ learnt = <<>>
    BY DEF Init, Given
  <2>2. TypeOK
    <3>1. events \in Seq(Event) /\ learnt \in [Given -> 0 .. 2]
      BY <2>1 DEF Init
    <3> QED  BY <2>1, <3>1, EnoughIsNat DEF Init, TypeOK, Idle, Waiting, Event
  <2>3. HeldAreNew /\ HeldAreConsumed
    BY DEF Init, Idle, HeldAreNew, HeldAreConsumed, Holding
  <2> QED  BY <2>1, <2>2, <2>3 DEF IInv, LearntAreConsumed
<1>2. IInv /\ [Next]_vars => IInv'
  <2> SUFFICES ASSUME IInv, [Next]_vars PROVE IInv'
    OBVIOUS
  <2>1. CASE \/ UNCHANGED vars
             \/ \E c \in Convs : LogCopied(c)
    BY <2>1, LogCopiedStep
  <2>2. CASE \E in \in Inputs : RecordFeedback(in)
    BY <2>2, RecordFeedbackStep
  <2>3. CASE RedisRestart
    BY <2>3, RedisRestartStep
  <2>4. CASE Sleep \/ ReadySessions \/ LLMFails \/ MarkSessionOptimized \/ Crash
    <3>1. cool' \in 0 .. Buffer /\ UNCHANGED <<mode, usable, events, rated, learnt, seen, missed>>
      BY <2>4 DEF IInv, TypeOK, Sleep, ReadySessions, LLMFails, MarkSessionOptimized, Crash
    <3>2. \E pc \in Waiting : drv' = Idle(pc)
      BY <2>4 DEF Sleep, ReadySessions, LLMFails, MarkSessionOptimized, Crash, Waiting
    <3> QED  BY <3>1, <3>2, RunEnds
  <2>5. CASE LoadFromPg
    BY <2>5, LoadFromPgStep
  <2>6. CASE LoadFromRedis
    BY <2>6, LoadFromRedisStep
  <2>7. CASE Analyse \/ Generate
    BY <2>7, LLMCallStep
  <2>8. CASE MarkFeedbackUsed
    BY <2>8, MarkFeedbackUsedStep
  <2>9. CASE Rollup
    BY <2>9, RollupStep
  <2>10. CASE Promote
    BY <2>10, PromoteStep
  <2> QED  BY <2>1, <2>2, <2>3, <2>4, <2>5, <2>6, <2>7, <2>8, <2>9, <2>10 DEF Next, RunOnce
<1> QED  BY <1>1, <1>2, PTL DEF Spec

\* The types hold in every reachable state, for any number of conversations,
\* ratings and samples per variant, whatever fails.
THEOREM TypeCorrect == Spec => []TypeOK
<1>1. IInv => TypeOK
  BY DEF IInv
<1> QED  BY <1>1, Inductive, PTL

\* No rating is the reason of two promotions, as long as samples come from the
\* tier where they are consumed and consuming them works: for any number of
\* ratings, wherever the optimizer dies and whatever the calls answer.
THEOREM RatingsTeachOnce == Spec => []NotLearntTwice
<1>1. IInv => NotLearntTwice
  BY DEF IInv, NotLearntTwice
<1> QED  BY <1>1, Inductive, PTL

=============================================================================
