--------------------------- MODULE FeedbackProofs ---------------------------
(***************************************************************************)
(* Proofs, for every set of conversations, variants and handlers, every    *)
(* number of retries, every bound and every set of faults, that ratings    *)
(* keep their types, that all over-counting is accounted for by repeated   *)
(* commands and kept keys, and that no rating is credited to a variant     *)
(* that did not serve its conversation.                                    *)
(***************************************************************************)
EXTENDS Feedback, InductionLemmas

\* The pass holds a copy of a key.
Holding == {"up", "down", "del"}

\* The key it holds a copy of has only grown since HGETALL: ratings add to it,
\* and nothing but this pass deletes it.
ReadIsBehind ==
    roll.pc \in Holding =>
        /\ roll.conv \in Convs
        /\ \A d \in Dirs : roll.read.count[d] <= convs[roll.conv].count[d]

\* What the pass has added so far: "up" before "down".
AddedInOrder ==
    /\ roll.pc \in {"idle", "next", "up"} => roll.added = {}
    /\ roll.pc = "down" => roll.added \subseteq {"up"}

\* A rating that is sent again was given before.
KnownWasGiven ==
    \A h \in Handlers : rating[h].pc # "idle" /\ rating[h].known =>
        \A d \in rating[h].dirs : given[rating[h].conv][d] > 0

\* A key of conversation c that names no variant but the one that served c, and
\* counts nothing that was not given to c.
Honest(key, c) ==
    /\ key.variant \in {None, ServedBy[c]}
    /\ \A d \in Dirs : key.count[d] > 0 => given[c][d] > 0

\* While no rating was recorded under inferred ids, the ratings in flight name
\* the serving variant, if any.
RatingsAreHonest ==
    ~inferred => \A h \in Handlers : rating[h].pc # "idle" =>
        rating[h].variant \in {None, ServedBy[rating[h].conv]}

\* Then all keys are honest, and so is the copy of one that the pass holds.
KeysAreHonest ==
    ~inferred =>
        /\ \A c \in Convs : Honest(convs[c], c)
        /\ roll.pc \in Holding => Honest(roll.read, roll.conv)

\* The inductive invariant.
IInv ==
    /\ TypeOK
    /\ ReadIsBehind
    /\ AddedInOrder
    /\ KnownWasGiven
    /\ RatingsAreHonest
    /\ KeysAreHonest
    /\ NeverMisattributed
    /\ OvercountAccounted

USE FeedbackAssumption

-----------------------------------------------------------------------------
(* Lemmas about the operators of the counters *)

\* A rating counts in at most one direction.
LEMMA DirectionType == ASSUME NEW n \in {-1, 0, 1} PROVE Direction(n) \subseteq Dirs
BY DEF Direction, Dirs

\* What an increment does to counters.
LEMMA BumpFacts ==
    ASSUME NEW count \in Counts, NEW ds, NEW n \in Nat
    PROVE  /\ Bump(count, ds, n) \in Counts
           /\ \A d \in Dirs : /\ d \in ds => Bump(count, ds, n)[d] = count[d] + n
                              /\ d \notin ds => Bump(count, ds, n)[d] = count[d]
BY DEF Bump, Counts

\* An absent key counts nothing.
LEMMA NoKeyFacts == NoKey \in Keys /\ Zero \in Counts /\ \A d \in Dirs : NoKey.count[d] = 0
<1>1. Zero \in Counts /\ \A d \in Dirs : Zero[d] = 0
  BY DEF Zero, Counts
<1> QED  BY <1>1 DEF NoKey, Keys

\* The sums of the counters are natural numbers.
LEMMA SumsAreNat ==
    ASSUME TypeOK, NEW d \in Dirs
    PROVE  /\ Given(d) \in Nat /\ Waiting(d) \in Nat
           /\ SumFunction([v \in Variants |-> totals[v][d]]) \in Nat
           /\ session[d] \in Nat
<1>1. Given(d) \in Nat
  <2> DEFINE f == [c \in Convs |-> given[c][d]]
  <2>1. f \in [Convs -> Nat]
    BY DEF TypeOK, Counts
  <2> HIDE DEF f
  <2>2. SumFunction(f) \in Nat
    BY <2>1, SumNat
  <2> QED  BY <2>2 DEF Given, f
<1>2. Waiting(d) \in Nat
  <2> DEFINE f == [c \in Convs |-> convs[c].count[d]]
  <2>1. f \in [Convs -> Nat]
    BY DEF TypeOK, Counts, Keys
  <2> HIDE DEF f
  <2>2. SumFunction(f) \in Nat
    BY <2>1, SumNat
  <2> QED  BY <2>2 DEF Waiting, f
<1>3. SumFunction([v \in Variants |-> totals[v][d]]) \in Nat
  <2> DEFINE f == [v \in Variants |-> totals[v][d]]
  <2>1. f \in [Variants -> Nat]
    BY DEF TypeOK, Counts
  <2> HIDE DEF f
  <2>2. SumFunction(f) \in Nat
    BY <2>1, SumNat
  <2> QED  BY <2>2 DEF f
<1>4. session[d] \in Nat
  BY DEF TypeOK, Counts
<1> QED  BY <1>1, <1>2, <1>3, <1>4

\* A handler that serves no request.
LEMMA IdleRatingFacts == IdleRating \in Ratings /\ IdleRating.pc = "idle"
<1>1. 0 \in 0 .. MaxSends
  OBVIOUS
<1> QED  BY <1>1 DEF IdleRating, Ratings

\* A pass that does not run, or looks for its next key, holds nothing.
LEMMA IdleRollFacts ==
    ASSUME NEW todo \in SUBSET Convs
    PROVE  /\ IdleRoll \in Passes /\ IdleRoll.pc = "idle" /\ IdleRoll.added = {}
           /\ LET p == [IdleRoll EXCEPT !.pc = "next", !.todo = todo]
              IN  p \in Passes /\ p.pc = "next" /\ p.added = {}
BY NoKeyFacts DEF IdleRoll, Passes
-----------------------------------------------------------------------------
(* What the commands change *)

\* The ids the handler records, a conversation id or none.
LEMMA TargetType ==
    ASSUME NEW client \in Clients, NEW c \in Convs, NEW info \in SessionInfo
    PROVE  Target(client, c, info) \in [conv : Convs \cup {None}, variant : Variants \cup {None}]
<1>1. client \in {"documented", "source", "variant", "bare"}
  BY DEF ClientKinds
<1>2. ServedBy[c] \in Variants \cup {None}
  OBVIOUS
<1> QED  BY <1>1, <1>2 DEF Target, SessionInfo

\* A request puts a rating in flight, and names the serving variant if it does
\* not infer its ids.
LEMMA HandleFacts ==
    ASSUME TypeOK, NEW h \in Handlers, NEW client \in Clients, NEW c \in Convs,
           NEW n \in {-1, 0, 1}, HandleFeedback(h, client, c, n)
    PROVE  /\ requests' \in 0 .. MaxRatings
           /\ rating' \in [Handlers -> Ratings]
           /\ \A x \in Handlers \ {h} : rating'[x] = rating[x]
           /\ rating'[h].conv \in Convs /\ ~rating'[h].known
           /\ inferred' \in BOOLEAN /\ (inferred => inferred')
           /\ ~inferred' => rating'[h].variant \in {None, ServedBy[rating'[h].conv]}
           /\ UNCHANGED <<convs, session, totals, events, roll, given, repeated>>
<1>1. PICK info \in SessionInfo :
        /\ Target(client, c, info).conv # None
        /\ rating' = [rating EXCEPT ![h] = Asked(Target(client, c, info), n)]
        /\ inferred' = (inferred \/ client \in {"variant", "bare"})
  BY DEF HandleFeedback
<1> DEFINE t == Target(client, c, info)
           r == Asked(t, n)
<1>2. t \in [conv : Convs \cup {None}, variant : Variants \cup {None}] /\ t.conv # None
  BY <1>1, TargetType
<1>3. ~inferred' => t.conv = c /\ t.variant \in {None, ServedBy[c]}
  BY <1>1 DEF Target, ClientKinds
<1> HIDE DEF t
<1>4. 1 \in 0 .. MaxSends
  OBVIOUS
<1>5. /\ r \in Ratings
      /\ r.conv = t.conv /\ r.variant = t.variant /\ ~r.known
  BY <1>2, <1>4, DirectionType DEF Asked, Ratings
<1>6. rating' = [rating EXCEPT ![h] = r]
  BY <1>1 DEF t
<1> HIDE DEF r
<1>7. rating' \in [Handlers -> Ratings] /\ rating'[h] = r /\ \A x \in Handlers \ {h} : rating'[x] = rating[x]
  BY <1>5, <1>6 DEF TypeOK
<1>8. requests' \in 0 .. MaxRatings
  BY DEF HandleFeedback, Handled, TypeOK
<1> QED  BY <1>1, <1>2, <1>3, <1>5, <1>7, <1>8 DEF HandleFeedback, TypeOK, tallies, counted

\* HINCRBY of RecordFeedback adds the same to the conversation's key and to
\* what was given or repeated, and touches no other key.
LEMMA CountFacts ==
    ASSUME TypeOK, KnownWasGiven, NEW h \in Handlers, CountInKey(h)
    PROVE  LET c == rating[h].conv
           IN  /\ c \in Convs
               /\ convs' \in [Convs -> Keys]
               /\ \A x \in Convs : ~convs'[x].live => convs'[x] = NoKey
               /\ given' \in [Convs -> Counts] /\ repeated' \in Counts
               /\ \A x \in Convs \ {c} : convs'[x] = convs[x] /\ given'[x] = given[x]
               /\ convs'[c].variant = convs[c].variant
               /\ \A d \in rating[h].dirs : given'[c][d] > 0
               /\ \A d \in Dirs :
                    \/ /\ convs'[c].count[d] = convs[c].count[d]
                       /\ given'[c][d] = given[c][d] /\ repeated'[d] = repeated[d]
                    \/ /\ convs'[c].count[d] = convs[c].count[d] + 1 /\ given'[c][d] > 0
                       /\ \/ given'[c][d] = given[c][d] + 1 /\ repeated'[d] = repeated[d]
                          \/ given'[c][d] = given[c][d] /\ repeated'[d] = repeated[d] + 1
<1> DEFINE c == rating[h].conv
           ds == rating[h].dirs
           key == [convs[c] EXCEPT !.live = TRUE, !.count = Bump(convs[c].count, ds, 1)]
           gv == Bump(given[c], ds, 1)
           rp == Bump(repeated, ds, 1)
<1>1. c \in Convs /\ ds \subseteq Dirs /\ rating[h].pc = "key" /\ rating[h] \in Ratings
  BY DEF CountInKey, TypeOK, Ratings
<1>2. /\ convs \in [Convs -> Keys] /\ given \in [Convs -> Counts]
      /\ convs[c] \in Keys /\ convs[c].count \in Counts /\ given[c] \in Counts /\ repeated \in Counts
  BY <1>1 DEF TypeOK, Keys
<1>3. \A d \in Dirs : convs[c].count[d] \in Nat /\ given[c][d] \in Nat /\ repeated[d] \in Nat
  BY <1>2 DEF Counts
<1>4. /\ Bump(convs[c].count, ds, 1) \in Counts
      /\ \A d \in Dirs : /\ d \in ds => Bump(convs[c].count, ds, 1)[d] = convs[c].count[d] + 1
                         /\ d \notin ds => Bump(convs[c].count, ds, 1)[d] = convs[c].count[d]
  BY <1>2, BumpFacts
<1>5. /\ gv \in Counts
      /\ \A d \in Dirs : /\ d \in ds => gv[d] = given[c][d] + 1
                         /\ d \notin ds => gv[d] = given[c][d]
  BY <1>2, BumpFacts
<1>6. /\ rp \in Counts
      /\ \A d \in Dirs : /\ d \in ds => rp[d] = repeated[d] + 1
                         /\ d \notin ds => rp[d] = repeated[d]
  BY <1>2, BumpFacts
<1>7. /\ key \in Keys /\ key.live /\ key.variant = convs[c].variant
      /\ key.count = Bump(convs[c].count, ds, 1)
  BY <1>2, <1>4 DEF Keys
<1>8. IF ds = {} THEN convs' = convs ELSE convs' = [convs EXCEPT ![c] = key]
  BY <1>1, <1>2 DEF CountInKey
<1>9. IF rating[h].known THEN repeated' = rp /\ given' = given
                         ELSE given' = [given EXCEPT ![c] = gv] /\ repeated' = repeated
  BY DEF CountInKey
<1>10. rating[h].known => \A d \in ds : given[c][d] > 0
  BY <1>1 DEF KnownWasGiven
<1> HIDE DEF key, gv, rp, c, ds
<1>11. /\ convs' \in [Convs -> Keys] /\ \A x \in Convs \ {c} : convs'[x] = convs[x]
       /\ IF ds = {} THEN convs'[c] = convs[c] ELSE convs'[c] = key
  BY <1>1, <1>2, <1>7, <1>8
<1>12. /\ given' \in [Convs -> Counts] /\ repeated' \in Counts
       /\ \A x \in Convs \ {c} : given'[x] = given[x]
       /\ IF rating[h].known THEN given'[c] = given[c] ELSE given'[c] = gv
  BY <1>1, <1>2, <1>5, <1>6, <1>9
<1>13. \A x \in Convs : ~convs'[x].live => convs'[x] = NoKey
  BY <1>1, <1>7, <1>11 DEF TypeOK
<1>14. convs'[c].variant = convs[c].variant
  BY <1>7, <1>11
<1>15. \A d \in ds : given'[c][d] > 0
  BY <1>1, <1>3, <1>5, <1>10, <1>12
<1>16. ASSUME NEW d \in Dirs
       PROVE  \/ /\ convs'[c].count[d] = convs[c].count[d]
                 /\ given'[c][d] = given[c][d] /\ repeated'[d] = repeated[d]
              \/ /\ convs'[c].count[d] = convs[c].count[d] + 1 /\ given'[c][d] > 0
                 /\ \/ given'[c][d] = given[c][d] + 1 /\ repeated'[d] = repeated[d]
                    \/ given'[c][d] = given[c][d] /\ repeated'[d] = repeated[d] + 1
  <2>1. CASE d \in ds
    <3>1. convs'[c].count[d] = convs[c].count[d] + 1
      BY <1>4, <1>7, <1>11, <2>1
    <3>2. \/ given'[c][d] = given[c][d] + 1 /\ repeated'[d] = repeated[d]
          \/ given'[c][d] = given[c][d] /\ repeated'[d] = repeated[d] + 1
      BY <1>5, <1>6, <1>9, <1>12, <2>1
    <3> QED  BY <1>15, <2>1, <3>1, <3>2
  <2>2. CASE d \notin ds
    <3>1. convs'[c].count[d] = convs[c].count[d]
      BY <1>4, <1>7, <1>11, <2>2
    <3>2. given'[c][d] = given[c][d] /\ repeated'[d] = repeated[d]
      BY <1>5, <1>6, <1>9, <1>12, <2>2
    <3> QED  BY <3>1, <3>2
  <2> QED  BY <2>1, <2>2
<1> QED  BY <1>1, <1>11, <1>12, <1>13, <1>14, <1>15, <1>16 DEF c, ds

\* Then the rating has its name left to write, and is known.
LEMMA CountedRating ==
    ASSUME TypeOK, NEW h \in Handlers, CountInKey(h)
    PROVE  /\ rating' \in [Handlers -> Ratings]
           /\ \A x \in Handlers \ {h} : rating'[x] = rating[x]
           /\ rating[h].pc = "key" /\ rating'[h].pc = "name" /\ rating'[h].known
           /\ rating'[h].conv = rating[h].conv /\ rating'[h].variant = rating[h].variant
           /\ rating'[h].dirs = rating[h].dirs
<1> DEFINE q == [rating[h] EXCEPT !.pc = "name", !.known = TRUE]
<1>1. rating \in [Handlers -> Ratings] /\ rating[h] \in Ratings /\ rating[h].pc = "key"
  BY DEF TypeOK, CountInKey
<1>2. rating' = [rating EXCEPT ![h] = q]
  BY <1>1 DEF CountInKey
<1>3. /\ q \in Ratings /\ q.pc = "name" /\ q.known
      /\ q.conv = rating[h].conv /\ q.variant = rating[h].variant /\ q.dirs = rating[h].dirs
  BY <1>1 DEF Ratings
<1> HIDE DEF q
<1> QED  BY <1>1, <1>2, <1>3

\* The other steps of RecordFeedback change no counter: one names the variant
\* in the key, one stores the event, and the rating keeps its ids while it is
\* in flight.
LEMMA RecordFacts ==
    ASSUME TypeOK, NEW h \in Handlers, NameInKey(h) \/ SendAgain(h) \/ GiveUp(h) \/ RecordPg(h)
    PROVE  LET r == rating[h]
           IN  /\ r.pc # "idle" /\ r.conv \in Convs /\ r.variant \in Variants \cup {None}
               /\ rating' \in [Handlers -> Ratings]
               /\ \A x \in Handlers \ {h} : rating'[x] = rating[x]
               /\ \/ rating'[h].pc = "idle"
                  \/ /\ rating'[h].conv = r.conv /\ rating'[h].variant = r.variant
                     /\ rating'[h].dirs = r.dirs /\ rating'[h].known = r.known
               /\ convs' \in [Convs -> Keys]
               /\ \A x \in Convs : ~convs'[x].live => convs'[x] = NoKey
               /\ \A x \in Convs : convs'[x].count = convs[x].count
               /\ \A x \in Convs \ {r.conv} : convs'[x] = convs[x]
               /\ convs'[r.conv].variant \in {convs[r.conv].variant, r.variant}
               /\ events' \in {events, events \cup {<<r.conv, r.variant>>}}
               /\ UNCHANGED <<session, totals, roll, requests, given, repeated, inferred>>
<1> DEFINE r == rating[h]
<1>0. r \in Ratings /\ rating \in [Handlers -> Ratings] /\ convs \in [Convs -> Keys]
  BY DEF TypeOK
<1>1. r.pc # "idle" /\ r.conv \in Convs /\ r.variant \in Variants \cup {None}
  BY <1>0 DEF NameInKey, SendAgain, GiveUp, RecordPg, TypeOK, Ratings
<1>2. UNCHANGED <<session, totals, roll, requests, given, repeated, inferred>>
  BY DEF NameInKey, SendAgain, GiveUp, RecordPg, tallies, counted
<1>3. CASE NameInKey(h)
  <2> DEFINE q == [r EXCEPT !.pc = "pg"]
             key == [convs[r.conv] EXCEPT !.live = TRUE, !.variant = r.variant]
  <2>1. rating' = [rating EXCEPT ![h] = q] /\ events' = events
    BY <1>0, <1>3 DEF NameInKey
  <2>2. q \in Ratings /\ q.conv = r.conv /\ q.variant = r.variant /\ q.dirs = r.dirs /\ q.known = r.known
    BY <1>0 DEF Ratings
  <2>3. convs' = [convs EXCEPT ![r.conv] = key]
    BY <1>0, <1>1, <1>3 DEF NameInKey
  <2>4. key \in Keys /\ key.live /\ key.count = convs[r.conv].count /\ key.variant = r.variant
    BY <1>0, <1>1 DEF Keys
  <2> HIDE DEF q, key
  <2>5. /\ rating' \in [Handlers -> Ratings] /\ rating'[h] = q
        /\ \A x \in Handlers \ {h} : rating'[x] = rating[x]
    BY <1>0, <2>1, <2>2
  <2>6. /\ convs' \in [Convs -> Keys] /\ convs'[r.conv] = key
        /\ \A x \in Convs \ {r.conv} : convs'[x] = convs[x]
    BY <1>0, <1>1, <2>3, <2>4
  <2>7. \A x \in Convs : (~convs'[x].live => convs'[x] = NoKey) /\ convs'[x].count = convs[x].count
    BY <1>1, <2>4, <2>6 DEF TypeOK
  <2> QED  BY <1>1, <1>2, <2>1, <2>2, <2>4, <2>5, <2>6, <2>7
<1>4. CASE SendAgain(h) \/ GiveUp(h) \/ RecordPg(h)
  <2>1. convs' = convs
    BY <1>4 DEF SendAgain, GiveUp, RecordPg, tallies
  <2>2. events' \in {events, events \cup {<<r.conv, r.variant>>}}
    BY <1>4 DEF SendAgain, GiveUp, RecordPg
  <2>3. PICK q \in Ratings :
          /\ rating' = [rating EXCEPT ![h] = q]
          /\ \/ q.pc = "idle"
             \/ q.conv = r.conv /\ q.variant = r.variant /\ q.dirs = r.dirs /\ q.known = r.known
    <3>1. CASE SendAgain(h)
      <4> DEFINE q == [r EXCEPT !.pc = "key", !.sent = r.sent + 1]
      <4>1. r.sent < Sends /\ rating' = [rating EXCEPT ![h] = q]
        BY <1>0, <3>1 DEF SendAgain
      <4>2. r.sent \in 0 .. MaxSends /\ Sends \in {1, MaxSends}
        BY <1>0 DEF Ratings, Sends
      <4>3. r.sent + 1 \in 0 .. MaxSends
        BY <4>1, <4>2
      <4>4. q \in Ratings /\ q.conv = r.conv /\ q.variant = r.variant /\ q.dirs = r.dirs /\ q.known = r.known
        BY <1>0, <4>3 DEF Ratings
      <4> QED  BY <4>1, <4>4
    <3>2. CASE GiveUp(h)
      <4> DEFINE q == [r EXCEPT !.pc = "pg", !.sent = MaxSends]
      <4>1. rating' = [rating EXCEPT ![h] = q]
        BY <1>0, <3>2 DEF GiveUp
      <4>2. MaxSends \in 0 .. MaxSends
        OBVIOUS
      <4>3. q \in Ratings /\ q.conv = r.conv /\ q.variant = r.variant /\ q.dirs = r.dirs /\ q.known = r.known
        BY <1>0, <4>2 DEF Ratings
      <4> QED  BY <4>1, <4>3
    <3>3. CASE RecordPg(h)
      <4>1. IdleRating \in Ratings /\ IdleRating.pc = "idle"
        BY IdleRatingFacts
      <4> QED  BY <3>3, <4>1 DEF RecordPg
    <3> QED  BY <1>4, <3>1, <3>2, <3>3
  <2>4. /\ rating' \in [Handlers -> Ratings] /\ rating'[h] = q
        /\ \A x \in Handlers \ {h} : rating'[x] = rating[x]
    BY <1>0, <2>3
  <2> QED  BY <1>0, <1>1, <1>2, <2>1, <2>2, <2>3, <2>4 DEF TypeOK
<1> QED  BY <1>3, <1>4

\* What HINCRBY adds, it adds to one counter: of the variant the copy names, or
\* of the session.
LEMMA HIncrByFacts ==
    ASSUME TypeOK, NEW d \in Dirs, NEW k \in Nat, HIncrBy(d, k)
    PROVE  /\ session' \in Counts
           /\ totals' \in [Variants -> Counts]
           /\ k * roll.read.count[d] \in Nat
           /\ LET v == roll.read.variant
                  m == k * roll.read.count[d]
              IN  \/ /\ v = None /\ totals' = totals
                     /\ session'[d] = session[d] + m
                     /\ \A e \in Dirs \ {d} : session'[e] = session[e]
                  \/ /\ v \in Variants /\ session' = session
                     /\ totals'[v][d] = totals[v][d] + m
                     /\ \A w \in Variants, e \in Dirs :
                          w # v \/ e # d => totals'[w][e] = totals[w][e]
<1> DEFINE v == roll.read.variant
           m == k * roll.read.count[d]
<1>0. v \in Variants \cup {None} /\ roll.read.count[d] \in Nat
  BY DEF TypeOK, Passes, Keys, Counts
<1>1. m \in Nat
  BY <1>0
<1>2. CASE v = None
  <2>1. totals' = totals /\ session' = Bump(session, {d}, m) /\ session \in Counts
    BY <1>2 DEF HIncrBy, TypeOK
  <2> HIDE DEF v, m
  <2>2. /\ session' \in Counts /\ session'[d] = session[d] + m
        /\ \A e \in Dirs \ {d} : session'[e] = session[e]
    BY <1>1, <2>1, BumpFacts
  <2> QED  BY <1>1, <1>2, <2>1, <2>2 DEF TypeOK, v, m
<1>3. CASE v # None
  <2> DEFINE b == Bump(totals[v], {d}, m)
  <2>1. session' = session /\ totals' = [totals EXCEPT ![v] = b]
    BY <1>3 DEF HIncrBy
  <2>2. v \in Variants /\ totals[v] \in Counts
    BY <1>0, <1>3 DEF TypeOK
  <2> HIDE DEF v, m
  <2>3. b \in Counts /\ b[d] = totals[v][d] + m /\ \A e \in Dirs \ {d} : b[e] = totals[v][e]
    BY <1>1, <2>2, BumpFacts
  <2> HIDE DEF b
  <2>4. totals' \in [Variants -> Counts] /\ \A w \in Variants : totals'[w] = IF w = v THEN b ELSE totals[w]
    BY <2>1, <2>2, <2>3 DEF TypeOK
  <2>5. \A w \in Variants, e \in Dirs : w # v \/ e # d => totals'[w][e] = totals[w][e]
    BY <2>2, <2>3, <2>4
  <2> QED  BY <1>1, <2>1, <2>2, <2>3, <2>4, <2>5 DEF TypeOK, v, m
<1> QED  BY <1>2, <1>3

\* One HINCRBY of a pass, executed k times: the pass holds its copy and has
\* added its direction if k > 0, and what it added more than once is repeated.
LEMMA AddFacts ==
    ASSUME TypeOK, NEW d \in Dirs, RollupAdd(d)
    PROVE  \E k \in Nat :
             /\ HIncrBy(d, k)
             /\ roll.pc = d /\ roll' \in Passes
             /\ roll'.pc = IF d = "up" THEN "down" ELSE "del"
             /\ roll'.conv = roll.conv /\ roll'.read = roll.read
             /\ roll'.added = IF k = 0 THEN roll.added ELSE roll.added \cup {d}
             /\ repeated' \in Counts
             /\ \A e \in Dirs \ {d} : repeated'[e] = repeated[e]
             /\ IF k = 0 THEN repeated'[d] = repeated[d]
                         ELSE repeated'[d] + roll.read.count[d] = repeated[d] + k * roll.read.count[d]
             /\ UNCHANGED <<convs, events, requests, rating, given, inferred>>
<1>1. Executions \subseteq Nat
  BY DEF Executions, Sends
<1>2. PICK k \in Nat :
        /\ HIncrBy(d, k)
        /\ roll' = [roll EXCEPT !.pc = IF d = "up" THEN "down" ELSE "del",
                                !.added = IF k = 0 THEN roll.added ELSE roll.added \cup {d}]
        /\ repeated' = IF k = 0 THEN repeated ELSE Bump(repeated, {d}, (k - 1) * roll.read.count[d])
  BY <1>1 DEF RollupAdd
<1> DEFINE a == IF k = 0 THEN roll.added ELSE roll.added \cup {d}
           q == IF d = "up" THEN "down" ELSE "del"
<1>3. roll \in Passes /\ roll.added \subseteq Dirs /\ repeated \in Counts /\ roll.read.count[d] \in Nat
  BY DEF TypeOK, Passes, Keys, Counts
<1>4. a \subseteq Dirs /\ q \in {"down", "del"}
  BY <1>3
<1>5. roll' = [roll EXCEPT !.pc = q, !.added = a]
  BY <1>2
<1> HIDE DEF a, q
<1>6. /\ roll' \in Passes /\ roll'.pc = q /\ roll'.added = a
      /\ roll'.conv = roll.conv /\ roll'.read = roll.read
  BY <1>3, <1>4, <1>5 DEF Passes
<1>7. CASE k = 0
  <2>1. repeated' = repeated
    BY <1>2, <1>7
  <2> QED  BY <1>2, <1>3, <1>6, <1>7, <2>1 DEF a, q, RollupAdd
<1>8. CASE k # 0
  <2> DEFINE n == roll.read.count[d]
             m == (k - 1) * n
  <2>1. m \in Nat /\ m + n = k * n
    <3>1. k - 1 \in Nat /\ n \in Nat
      BY <1>3, <1>8
    <3> QED  BY <3>1
  <2>2. repeated' = Bump(repeated, {d}, m)
    BY <1>2, <1>8
  <2> HIDE DEF m, n
  <2>3. /\ repeated' \in Counts /\ repeated'[d] = repeated[d] + m
        /\ \A e \in Dirs \ {d} : repeated'[e] = repeated[e]
    BY <1>3, <2>1, <2>2, BumpFacts
  <2>4. repeated[d] \in Nat /\ n \in Nat
    BY <1>3 DEF Counts, n
  <2>5. repeated'[d] + n = repeated[d] + k * n
    BY <2>1, <2>3, <2>4
  <2> QED  BY <1>2, <1>6, <1>8, <2>3, <2>5 DEF a, q, n, RollupAdd
<1> QED  BY <1>7, <1>8

\* What a key that outlives its pass will repeat.
LEMMA KeepFacts ==
    ASSUME TypeOK, KeepKey
    PROVE  repeated' \in Counts /\ \A d \in Dirs : Added(d) \in Nat /\ repeated'[d] = repeated[d] + Added(d)
<1>1. \A d \in Dirs : Added(d) \in Nat /\ repeated[d] \in Nat
  BY DEF TypeOK, Passes, Keys, Counts, Added
<1> QED  BY <1>1 DEF KeepKey, Counts

-----------------------------------------------------------------------------
(* Types, and the copy the pass holds *)

\* Every step keeps the types and keeps the copy behind its key.
LEMMA TypeStep ==
    ASSUME TypeOK, ReadIsBehind, AddedInOrder, KnownWasGiven, [Next]_vars
    PROVE  TypeOK' /\ ReadIsBehind' /\ AddedInOrder'
<1>1. CASE \E h \in Handlers, client \in Clients, c \in Convs, n \in {-1, 0, 1} : HandleFeedback(h, client, c, n)
  <2>1. PICK h \in Handlers, client \in Clients, c \in Convs, n \in {-1, 0, 1} : HandleFeedback(h, client, c, n)
    BY <1>1
  <2>2. /\ requests' \in 0 .. MaxRatings
        /\ rating' \in [Handlers -> Ratings]
        /\ \A x \in Handlers \ {h} : rating'[x] = rating[x]
        /\ rating'[h].conv \in Convs
        /\ inferred' \in BOOLEAN
        /\ UNCHANGED <<convs, session, totals, events, roll, given, repeated>>
    BY <2>1, HandleFacts
  <2> QED  BY <2>2 DEF TypeOK, ReadIsBehind, AddedInOrder
<1>2. CASE \E h \in Handlers : CountInKey(h)
  <2>1. PICK h \in Handlers : CountInKey(h)
    BY <1>2
  <2> DEFINE c == rating[h].conv
  <2>2. /\ c \in Convs
        /\ convs' \in [Convs -> Keys]
        /\ \A x \in Convs : ~convs'[x].live => convs'[x] = NoKey
        /\ given' \in [Convs -> Counts] /\ repeated' \in Counts
        /\ \A x \in Convs \ {c} : convs'[x] = convs[x]
        /\ \A d \in Dirs : \/ convs'[c].count[d] = convs[c].count[d]
                           \/ convs'[c].count[d] = convs[c].count[d] + 1
    BY <2>1, CountFacts
  <2>3. UNCHANGED <<session, totals, events, requests, roll, inferred>>
    BY <2>1 DEF CountInKey
  <2>4. /\ rating' \in [Handlers -> Ratings] /\ rating'[h].conv = c
        /\ \A x \in Handlers \ {h} : rating'[x] = rating[x]
    BY <2>1, CountedRating
  <2>5. \A x \in Handlers : rating'[x].pc # "idle" => rating'[x].conv \in Convs
    BY <2>2, <2>4 DEF TypeOK
  <2>6. \A x \in Convs, d \in Dirs : convs[x].count[d] \in Nat /\ convs'[x].count[d] \in Nat
    BY <2>2 DEF TypeOK, Keys, Counts
  <2>7. \A x \in Convs, d \in Dirs : convs[x].count[d] <= convs'[x].count[d]
    BY <2>2, <2>6
  <2>8. ASSUME roll.pc \in Holding, NEW d \in Dirs PROVE roll.read.count[d] <= convs'[roll.conv].count[d]
    <3>1. roll.conv \in Convs /\ roll.read.count[d] <= convs[roll.conv].count[d]
      BY <2>8 DEF ReadIsBehind
    <3>2. roll.read.count[d] \in Nat
      BY DEF TypeOK, Passes, Keys, Counts
    <3> QED  BY <2>6, <2>7, <3>1, <3>2
  <2> HIDE DEF c
  <2> QED  BY <2>2, <2>3, <2>4, <2>5, <2>8 DEF TypeOK, ReadIsBehind, AddedInOrder
<1>3. CASE \E h \in Handlers : NameInKey(h) \/ SendAgain(h) \/ GiveUp(h) \/ RecordPg(h)
  <2>1. PICK h \in Handlers : NameInKey(h) \/ SendAgain(h) \/ GiveUp(h) \/ RecordPg(h)
    BY <1>3
  <2> DEFINE r == rating[h]
  <2>2. /\ r.pc # "idle" /\ r.conv \in Convs /\ r.variant \in Variants \cup {None}
        /\ rating' \in [Handlers -> Ratings]
        /\ \A x \in Handlers \ {h} : rating'[x] = rating[x]
        /\ rating'[h].pc = "idle" \/ rating'[h].conv = r.conv
        /\ convs' \in [Convs -> Keys]
        /\ \A x \in Convs : ~convs'[x].live => convs'[x] = NoKey
        /\ \A x \in Convs : convs'[x].count = convs[x].count
        /\ events' \in {events, events \cup {<<r.conv, r.variant>>}}
        /\ UNCHANGED <<session, totals, roll, requests, given, repeated, inferred>>
    BY <2>1, RecordFacts
  <2> HIDE DEF r
  <2>3. \A x \in Handlers : rating'[x].pc # "idle" => rating'[x].conv \in Convs
    BY <2>2 DEF TypeOK
  <2>4. events' \subseteq Convs \X (Variants \cup {None})
    BY <2>2 DEF TypeOK
  <2> QED  BY <2>2, <2>3, <2>4 DEF TypeOK, ReadIsBehind, AddedInOrder
<1>4. CASE ProxyCrash
  <2>1. UNCHANGED <<tallies, events, requests, roll, counted, inferred>> /\ rating' = [h \in Handlers |-> IdleRating]
    BY <1>4 DEF ProxyCrash
  <2>2. rating' \in [Handlers -> Ratings] /\ \A h \in Handlers : rating'[h].pc = "idle"
    BY <2>1, IdleRatingFacts
  <2> QED  BY <2>1, <2>2 DEF TypeOK, ReadIsBehind, AddedInOrder, tallies, counted
<1>5. CASE RollupScan
  <2>1. UNCHANGED <<tallies, events, requests, rating, counted, inferred>>
    BY <1>5 DEF RollupScan
  <2> DEFINE todo == {c \in Convs : convs[c].live}
             q == [IdleRoll EXCEPT !.pc = "next", !.todo = todo]
  <2>2. roll' = q /\ todo \in SUBSET Convs
    BY <1>5 DEF RollupScan
  <2> HIDE DEF todo
  <2>3. q \in Passes /\ q.pc = "next" /\ q.added = {}
    BY <2>2, IdleRollFacts
  <2> HIDE DEF q
  <2> QED  BY <2>1, <2>2, <2>3 DEF TypeOK, ReadIsBehind, AddedInOrder, Holding, tallies, counted
<1>6. CASE \E c \in Convs : RollupRead(c)
  <2>1. PICK c \in Convs : RollupRead(c)
    BY <1>6
  <2>2. UNCHANGED <<tallies, events, requests, rating, counted, inferred>>
    BY <2>1 DEF RollupRead
  <2>3. convs[c] \in Keys /\ \A d \in Dirs : convs[c].count[d] <= convs[c].count[d]
    BY DEF TypeOK, Keys, Counts
  <2>4. CASE roll' = [pc |-> "up", conv |-> c, read |-> convs[c], added |-> {}, todo |-> roll.todo \ {c}]
    <3>1. roll' \in Passes
      BY <2>3, <2>4 DEF TypeOK, Passes
    <3>2. roll'.pc = "up" /\ roll'.conv = c /\ roll'.read = convs[c] /\ roll'.added = {}
      BY <2>4
    <3> QED  BY <2>2, <2>3, <3>1, <3>2 DEF TypeOK, ReadIsBehind, AddedInOrder, tallies, counted
  <2>5. CASE roll' = [roll EXCEPT !.todo = @ \ {c}] /\ roll.pc = "next"
    <3>1. roll' \in Passes /\ roll'.pc = "next" /\ roll'.added = roll.added
      BY <2>5 DEF TypeOK, Passes
    <3> QED  BY <2>2, <2>5, <3>1 DEF TypeOK, ReadIsBehind, AddedInOrder, Holding, tallies, counted
  <2> QED  BY <2>1, <2>4, <2>5 DEF RollupRead
<1>7. CASE \E d \in Dirs : RollupAdd(d)
  <2>1. PICK d \in Dirs : RollupAdd(d)
    BY <1>7
  <2>2. PICK k \in Nat :
             /\ HIncrBy(d, k)
             /\ roll.pc = d /\ roll' \in Passes
             /\ roll'.pc = IF d = "up" THEN "down" ELSE "del"
             /\ roll'.conv = roll.conv /\ roll'.read = roll.read
             /\ roll'.added = IF k = 0 THEN roll.added ELSE roll.added \cup {d}
             /\ repeated' \in Counts
             /\ UNCHANGED <<convs, events, requests, rating, given, inferred>>
    BY <2>1, AddFacts
  <2>3. session' \in Counts /\ totals' \in [Variants -> Counts]
    BY <2>2, HIncrByFacts
  <2>4. roll.pc \in Holding
    BY <2>2 DEF Holding, Dirs
  <2>5. AddedInOrder'
    BY <2>2 DEF AddedInOrder, Dirs
  <2> QED  BY <2>2, <2>3, <2>4, <2>5 DEF TypeOK, ReadIsBehind
<1>8. CASE RollupDel
  <2>1. UNCHANGED <<session, totals, events, requests, rating, given, inferred>>
    BY <1>8 DEF RollupDel
  <2> DEFINE q == [IdleRoll EXCEPT !.pc = "next", !.todo = roll.todo]
  <2>2. roll' = q /\ roll.todo \in SUBSET Convs
    BY <1>8 DEF RollupDel, TypeOK, Passes
  <2>3. q \in Passes /\ q.pc = "next" /\ q.added = {}
    BY <2>2, IdleRollFacts
  <2> HIDE DEF q
  <2>4. convs' \in [Convs -> Keys] /\ \A c \in Convs : ~convs'[c].live => convs'[c] = NoKey
    BY <1>8, NoKeyFacts DEF RollupDel, TypeOK
  <2>5. repeated' \in Counts
    BY <1>8, KeepFacts DEF RollupDel, TypeOK
  <2> QED  BY <2>1, <2>2, <2>3, <2>4, <2>5 DEF TypeOK, ReadIsBehind, AddedInOrder, Holding
<1>9. CASE RollupEnd \/ OptimizerCrash
  <2>1. UNCHANGED <<tallies, events, requests, rating, given, inferred>> /\ roll' = IdleRoll
    BY <1>9 DEF RollupEnd, OptimizerCrash, counted
  <2>2. repeated' \in Counts
    BY <1>9, KeepFacts DEF RollupEnd, OptimizerCrash, TypeOK, counted
  <2>3. IdleRoll \in Passes /\ IdleRoll.pc = "idle" /\ IdleRoll.added = {}
    BY IdleRollFacts
  <2> QED  BY <2>1, <2>2, <2>3 DEF TypeOK, ReadIsBehind, AddedInOrder, Holding, tallies
<1>10. CASE UNCHANGED vars
  BY <1>10 DEF TypeOK, ReadIsBehind, AddedInOrder, vars, tallies, counted
<1> QED  BY <1>1, <1>2, <1>3, <1>4, <1>5, <1>6, <1>7, <1>8, <1>9, <1>10 DEF Next, Rollup, RecordFeedback

-----------------------------------------------------------------------------
(* Attribution *)

\* What a variant's totals count was given to a conversation it served.
TotalsAreHonest ==
    \A v \in Variants, d \in Dirs : totals[v][d] > 0 => \E c \in ServedConvs(v) : given[c][d] > 0

\* Steps that change no counter and hold no new copy keep what is honest.
LEMMA NothingCounted ==
    ASSUME TypeOK, KeysAreHonest, NeverMisattributed,
           UNCHANGED <<convs, totals, events, given>>, inferred => inferred',
           \/ roll'.pc \notin Holding
           \/ roll'.read = roll.read /\ roll'.conv = roll.conv /\ roll.pc \in Holding
    PROVE  KeysAreHonest' /\ NeverMisattributed'
BY DEF KeysAreHonest, NeverMisattributed, Honest, ServedConvs

\* Ratings in flight that do not change stay known and honest.
LEMMA SameRatings ==
    ASSUME KnownWasGiven, RatingsAreHonest, UNCHANGED <<rating, given, inferred>>
    PROVE  KnownWasGiven' /\ RatingsAreHonest'
BY DEF KnownWasGiven, RatingsAreHonest

\* The steps of a rating keep keys, copy and totals honest, and the ratings in
\* flight.
LEMMA RatingHonest ==
    ASSUME TypeOK, ReadIsBehind, KnownWasGiven, RatingsAreHonest, KeysAreHonest, NeverMisattributed,
           NEW h \in Handlers,
           \/ \E client \in Clients, c \in Convs, n \in {-1, 0, 1} : HandleFeedback(h, client, c, n)
           \/ RecordFeedback(h)
    PROVE  KnownWasGiven' /\ RatingsAreHonest' /\ KeysAreHonest' /\ NeverMisattributed'
<1>0. \A x \in Convs, d \in Dirs : convs[x].count[d] \in Nat /\ given[x][d] \in Nat
  BY DEF TypeOK, Keys, Counts
<1>1. CASE \E client \in Clients, c \in Convs, n \in {-1, 0, 1} : HandleFeedback(h, client, c, n)
  <2>1. PICK client \in Clients, c \in Convs, n \in {-1, 0, 1} : HandleFeedback(h, client, c, n)
    BY <1>1
  <2>2. /\ \A x \in Handlers \ {h} : rating'[x] = rating[x]
        /\ ~rating'[h].known
        /\ inferred => inferred'
        /\ ~inferred' => rating'[h].variant \in {None, ServedBy[rating'[h].conv]}
        /\ UNCHANGED <<convs, session, totals, events, roll, given, repeated>>
    BY <2>1, HandleFacts
  <2>3. KnownWasGiven' /\ RatingsAreHonest'
    BY <2>2 DEF KnownWasGiven, RatingsAreHonest
  <2>4. KeysAreHonest' /\ NeverMisattributed'
    BY <2>2 DEF KeysAreHonest, NeverMisattributed, Honest, ServedConvs
  <2> QED  BY <2>3, <2>4
<1>2. CASE CountInKey(h)
  <2> DEFINE c == rating[h].conv
  <2>1. /\ c \in Convs
        /\ \A x \in Convs \ {c} : convs'[x] = convs[x] /\ given'[x] = given[x]
        /\ convs'[c].variant = convs[c].variant
        /\ \A d \in rating[h].dirs : given'[c][d] > 0
        /\ \A d \in Dirs :
             \/ convs'[c].count[d] = convs[c].count[d] /\ given'[c][d] = given[c][d]
             \/ given'[c][d] > 0
    BY <1>2, CountFacts
  <2>2. UNCHANGED <<session, totals, events, requests, roll, inferred>>
    BY <1>2 DEF CountInKey
  <2>3. /\ \A x \in Handlers \ {h} : rating'[x] = rating[x]
        /\ rating[h].pc = "key" /\ rating'[h].conv = c /\ rating'[h].variant = rating[h].variant
        /\ rating'[h].dirs = rating[h].dirs
    BY <1>2, CountedRating
  <2> HIDE DEF c
  <2>4. \A x \in Convs, d \in Dirs : given[x][d] > 0 => given'[x][d] > 0
    BY <2>1
  <2>5. KnownWasGiven'
    <3> SUFFICES ASSUME NEW x \in Handlers, rating'[x].pc # "idle", rating'[x].known, NEW d \in rating'[x].dirs
                 PROVE  given'[rating'[x].conv][d] > 0
      BY DEF KnownWasGiven
    <3>1. CASE x = h
      BY <2>1, <2>3, <3>1
    <3>2. CASE x # h
      <4>1. rating'[x] = rating[x]
        BY <2>3, <3>2
      <4>2. given[rating[x].conv][d] > 0
        BY <4>1 DEF KnownWasGiven
      <4>3. rating[x].conv \in Convs /\ d \in Dirs
        BY <4>1 DEF TypeOK, Ratings
      <4> QED  BY <2>4, <4>1, <4>2, <4>3
    <3> QED  BY <3>1, <3>2
  <2>6. RatingsAreHonest'
    BY <2>2, <2>3 DEF RatingsAreHonest, c
  <2>7. ASSUME ~inferred, NEW x \in Convs PROVE Honest(convs[x], x)'
    <3>1. Honest(convs[x], x)
      BY <2>7 DEF KeysAreHonest
    <3> QED  BY <2>1, <3>1 DEF Honest
  <2>8. ASSUME ~inferred, roll.pc \in Holding PROVE Honest(roll.read, roll.conv)'
    <3>1. Honest(roll.read, roll.conv) /\ roll.conv \in Convs
      BY <2>8 DEF KeysAreHonest, ReadIsBehind
    <3> QED  BY <2>2, <2>4, <3>1 DEF Honest
  <2>9. KeysAreHonest'
    BY <2>2, <2>7, <2>8 DEF KeysAreHonest, Honest
  <2>10. NeverMisattributed'
    BY <2>2, <2>4 DEF NeverMisattributed, ServedConvs
  <2> QED  BY <2>5, <2>6, <2>9, <2>10
<1>3. CASE NameInKey(h) \/ SendAgain(h) \/ GiveUp(h) \/ RecordPg(h)
  <2> DEFINE r == rating[h]
  <2>1. /\ r.pc # "idle" /\ r.conv \in Convs
        /\ \A x \in Handlers \ {h} : rating'[x] = rating[x]
        /\ \/ rating'[h].pc = "idle"
           \/ /\ rating'[h].conv = r.conv /\ rating'[h].variant = r.variant
              /\ rating'[h].dirs = r.dirs /\ rating'[h].known = r.known
        /\ \A x \in Convs : convs'[x].count = convs[x].count
        /\ \A x \in Convs \ {r.conv} : convs'[x] = convs[x]
        /\ convs'[r.conv].variant \in {convs[r.conv].variant, r.variant}
        /\ events' \in {events, events \cup {<<r.conv, r.variant>>}}
        /\ UNCHANGED <<session, totals, roll, requests, given, repeated, inferred>>
    BY <1>3, RecordFacts
  <2>2. ~inferred => r.variant \in {None, ServedBy[r.conv]}
    BY <2>1 DEF RatingsAreHonest
  <2>3. KnownWasGiven' /\ RatingsAreHonest'
    BY <2>1 DEF KnownWasGiven, RatingsAreHonest
  <2> HIDE DEF r
  <2>4. ASSUME ~inferred, NEW x \in Convs PROVE Honest(convs[x], x)'
    <3>1. Honest(convs[x], x)
      BY <2>4 DEF KeysAreHonest
    <3> QED  BY <2>1, <2>2, <2>4, <3>1 DEF Honest
  <2>5. KeysAreHonest'
    BY <2>1, <2>4 DEF KeysAreHonest, Honest
  <2>6. ~inferred => \A e \in events' : e[2] # None => ServedBy[e[1]] = e[2]
    BY <2>1, <2>2 DEF NeverMisattributed
  <2>7. NeverMisattributed'
    BY <2>1, <2>6 DEF NeverMisattributed, ServedConvs
  <2> QED  BY <2>3, <2>5, <2>7
<1> QED  BY <1>1, <1>2, <1>3 DEF RecordFeedback

\* Every step keeps the ratings in flight, the keys and the copy honest, and
\* with them the totals.
LEMMA HonestStep ==
    ASSUME TypeOK, ReadIsBehind, KnownWasGiven, RatingsAreHonest, KeysAreHonest, NeverMisattributed,
           [Next]_vars
    PROVE  KnownWasGiven' /\ RatingsAreHonest' /\ KeysAreHonest' /\ NeverMisattributed'
<1>1. CASE \E h \in Handlers :
             \/ \E client \in Clients, c \in Convs, n \in {-1, 0, 1} : HandleFeedback(h, client, c, n)
             \/ RecordFeedback(h)
  BY <1>1, RatingHonest
<1>2. CASE ProxyCrash
  <2>1. UNCHANGED <<convs, totals, events, roll, given, inferred>> /\ \A h \in Handlers : rating'[h].pc = "idle"
    BY <1>2, IdleRatingFacts DEF ProxyCrash, tallies, counted
  <2>2. KnownWasGiven' /\ RatingsAreHonest'
    BY <2>1 DEF KnownWasGiven, RatingsAreHonest
  <2>3. KeysAreHonest' /\ NeverMisattributed'
    BY <2>1 DEF KeysAreHonest, NeverMisattributed, Honest, ServedConvs
  <2> QED  BY <2>2, <2>3
<1>3. CASE Rollup \/ OptimizerCrash \/ UNCHANGED vars
  <2>1. UNCHANGED <<rating, given, inferred, events>>
    BY <1>3 DEF Rollup, RollupScan, RollupRead, RollupAdd, RollupDel, RollupEnd, OptimizerCrash, vars, counted
  <2>2. KnownWasGiven' /\ RatingsAreHonest'
    BY <2>1, SameRatings
  <2>3. CASE \E c \in Convs : RollupRead(c)
    <3>1. PICK c \in Convs : RollupRead(c)
      BY <2>3
    <3>2. UNCHANGED <<convs, totals>>
      BY <3>1 DEF RollupRead, tallies
    <3>3. CASE roll' = [pc |-> "up", conv |-> c, read |-> convs[c], added |-> {}, todo |-> roll.todo \ {c}]
      <4>1. roll'.read = convs[c] /\ roll'.conv = c
        BY <3>3
      <4> QED  BY <2>1, <2>2, <3>2, <4>1 DEF KeysAreHonest, NeverMisattributed, Honest, ServedConvs
    <3>4. CASE roll' = [roll EXCEPT !.todo = @ \ {c}] /\ roll.pc = "next"
      <4>1. roll'.pc \notin Holding
        BY <3>4 DEF Holding, TypeOK, Passes
      <4> QED  BY <2>1, <2>2, <3>2, <4>1, NothingCounted
    <3> QED  BY <3>1, <3>3, <3>4 DEF RollupRead
  <2>4. CASE \E d \in Dirs : RollupAdd(d)
    <3>1. PICK d \in Dirs : RollupAdd(d)
      BY <2>4
    <3>2. PICK k \in Nat :
            /\ HIncrBy(d, k) /\ roll.pc = d
            /\ roll'.conv = roll.conv /\ roll'.read = roll.read
            /\ UNCHANGED <<convs, events, requests, rating, given, inferred>>
      BY <3>1, AddFacts
    <3>3. roll.pc \in Holding /\ roll.conv \in Convs
      BY <3>2 DEF Holding, Dirs, ReadIsBehind
    <3> DEFINE v == roll.read.variant
               n == roll.read.count[d]
               m == k * n
    <3>4. m \in Nat /\ n \in Nat /\ (n = 0 => m = 0)
      BY HIncrByFacts, <3>2 DEF TypeOK, Passes, Keys, Counts
    <3> HIDE DEF m
    <3>5. \/ totals' = totals
          \/ /\ v \in Variants /\ totals'[v][d] = totals[v][d] + m
             /\ \A w \in Variants, e \in Dirs : w # v \/ e # d => totals'[w][e] = totals[w][e]
      BY <3>2, HIncrByFacts DEF m
    <3>6. CASE totals' = totals
      BY <2>1, <2>2, <3>2, <3>3, <3>6, NothingCounted
    <3>7. CASE /\ v \in Variants /\ totals'[v][d] = totals[v][d] + m
               /\ \A w \in Variants, e \in Dirs : w # v \/ e # d => totals'[w][e] = totals[w][e]
      <4>1. ASSUME ~inferred, NEW w \in Variants, NEW e \in Dirs, totals'[w][e] > 0
            PROVE  \E c \in ServedConvs(w) : given[c][e] > 0
        <5>1. totals[w][e] \in Nat
          BY DEF TypeOK, Counts
        <5>2. CASE totals[w][e] > 0
          BY <4>1, <5>2 DEF NeverMisattributed
        <5>3. CASE ~(totals[w][e] > 0)
          <6>1. w = v /\ e = d
            BY <3>7, <4>1, <5>3
          <6>2. m > 0
            BY <3>4, <3>7, <4>1, <5>1, <5>3, <6>1
          <6>3. n > 0
            BY <3>4, <6>2
          <6>4. Honest(roll.read, roll.conv)
            BY <3>3, <4>1 DEF KeysAreHonest
          <6>5. given[roll.conv][d] > 0 /\ v = ServedBy[roll.conv]
            BY <3>7, <6>3, <6>4 DEF Honest
          <6> QED  BY <3>3, <6>1, <6>5 DEF ServedConvs
        <5> QED  BY <5>2, <5>3
      <4>2. NeverMisattributed'
        BY <3>2, <4>1 DEF NeverMisattributed, ServedConvs
      <4>3. KeysAreHonest'
        BY <3>2, <3>3 DEF KeysAreHonest, Honest
      <4> QED  BY <2>2, <4>2, <4>3
    <3> QED  BY <3>5, <3>6, <3>7
  <2>5. CASE RollupDel
    <3>1. UNCHANGED totals /\ roll'.pc \notin Holding
      BY <2>5 DEF RollupDel, IdleRoll, Holding
    <3>2. \A c \in Convs : convs'[c] \in {convs[c], NoKey}
      BY <2>5 DEF RollupDel, TypeOK
    <3>3. \A c \in Convs : Honest(NoKey, c)
      BY NoKeyFacts DEF Honest, NoKey
    <3>4. KeysAreHonest'
      BY <2>1, <3>1, <3>2, <3>3 DEF KeysAreHonest, Honest
    <3>5. NeverMisattributed'
      BY <2>1, <3>1 DEF NeverMisattributed, ServedConvs
    <3> QED  BY <2>2, <3>4, <3>5
  <2>6. CASE UNCHANGED vars
    BY <2>1, <2>2, <2>6 DEF vars, tallies, KeysAreHonest, NeverMisattributed, Honest, ServedConvs
  <2>7. CASE RollupScan \/ RollupEnd \/ OptimizerCrash
    <3>1. UNCHANGED <<convs, totals>>
      BY <2>7 DEF RollupScan, RollupEnd, OptimizerCrash, tallies
    <3>2. roll'.pc \notin Holding
      <4>1. IdleRoll = [pc |-> "idle", conv |-> None, read |-> NoKey, added |-> {}, todo |-> {}]
        BY DEF IdleRoll
      <4>2. CASE RollupScan
        <5>1. roll'.pc = "next"
          BY <4>1, <4>2 DEF RollupScan
        <5> QED  BY <5>1 DEF Holding
      <4>3. CASE RollupEnd \/ OptimizerCrash
        <5>1. roll'.pc = "idle"
          BY <4>1, <4>3 DEF RollupEnd, OptimizerCrash
        <5> QED  BY <5>1 DEF Holding
      <4> QED  BY <2>7, <4>2, <4>3
    <3> QED  BY <2>1, <2>2, <3>1, <3>2, NothingCounted
  <2> QED  BY <1>3, <2>3, <2>4, <2>5, <2>6, <2>7 DEF Rollup
<1> QED  BY <1>1, <1>2, <1>3 DEF Next

-----------------------------------------------------------------------------
(* Counting *)

Totals(d) == SumFunction([v \in Variants |-> totals[v][d]])

\* When one conversation's counter changes, the sums change as much.
LEMMA GivenChange ==
    ASSUME TypeOK, TypeOK', NEW d \in Dirs, NEW c \in Convs,
           \A x \in Convs \ {c} : given'[x][d] = given[x][d]
    PROVE  Given(d)' = Given(d) - given[c][d] + given'[c][d]
<1> DEFINE f == [x \in Convs |-> given[x][d]]
           h == [x \in Convs |-> given'[x][d]]
<1>1. f \in [Convs -> Int] /\ h \in [Convs -> Int]
  BY DEF TypeOK, Counts
<1>2. f[c] = given[c][d] /\ h[c] = given'[c][d] /\ \A x \in Convs \ {c} : f[x] = h[x]
  OBVIOUS
<1>3. Given(d) = SumFunction(f) /\ Given(d)' = SumFunction(h)
  BY DEF Given
<1> HIDE DEF f, h
<1>4. SumFunction(h) = SumFunction(f) - f[c] + h[c]
  BY <1>1, <1>2, SumChange
<1> QED  BY <1>2, <1>3, <1>4

\* The same for the keys.
LEMMA WaitingChange ==
    ASSUME TypeOK, TypeOK', NEW d \in Dirs, NEW c \in Convs,
           \A x \in Convs \ {c} : convs'[x].count[d] = convs[x].count[d]
    PROVE  Waiting(d)' = Waiting(d) - convs[c].count[d] + convs'[c].count[d]
<1> DEFINE f == [x \in Convs |-> convs[x].count[d]]
           h == [x \in Convs |-> convs'[x].count[d]]
<1>1. f \in [Convs -> Int] /\ h \in [Convs -> Int]
  BY DEF TypeOK, Counts, Keys
<1>2. f[c] = convs[c].count[d] /\ h[c] = convs'[c].count[d] /\ \A x \in Convs \ {c} : f[x] = h[x]
  OBVIOUS
<1>3. Waiting(d) = SumFunction(f) /\ Waiting(d)' = SumFunction(h)
  BY DEF Waiting
<1> HIDE DEF f, h
<1>4. SumFunction(h) = SumFunction(f) - f[c] + h[c]
  BY <1>1, <1>2, SumChange
<1> QED  BY <1>2, <1>3, <1>4

\* The same for the variants' totals.
LEMMA TotalsChange ==
    ASSUME TypeOK, TypeOK', NEW d \in Dirs, NEW v \in Variants,
           \A w \in Variants \ {v} : totals'[w][d] = totals[w][d]
    PROVE  Totals(d)' = Totals(d) - totals[v][d] + totals'[v][d]
<1> DEFINE f == [w \in Variants |-> totals[w][d]]
           h == [w \in Variants |-> totals'[w][d]]
<1>1. f \in [Variants -> Int] /\ h \in [Variants -> Int]
  BY DEF TypeOK, Counts
<1>2. f[v] = totals[v][d] /\ h[v] = totals'[v][d] /\ \A w \in Variants \ {v} : f[w] = h[w]
  OBVIOUS
<1>3. Totals(d) = SumFunction(f) /\ Totals(d)' = SumFunction(h)
  BY DEF Totals
<1> HIDE DEF f, h
<1>4. SumFunction(h) = SumFunction(f) - f[v] + h[v]
  BY <1>1, <1>2, SumChange
<1> QED  BY <1>2, <1>3, <1>4

\* OvercountAccounted, of one direction.
Balanced(d) == RolledUp(d) + Waiting(d) - Added(d) <= Given(d) + repeated[d]

\* All that is counted is a natural number.
LEMMA CountTypes ==
    ASSUME TypeOK, NEW d \in Dirs
    PROVE  /\ Totals(d) \in Nat /\ session[d] \in Nat /\ Given(d) \in Nat /\ repeated[d] \in Nat
           /\ Waiting(d) \in Nat /\ Added(d) \in Nat /\ roll.read.count[d] \in Nat
           /\ RolledUp(d) = Totals(d) + session[d]
<1>1. roll.read.count[d] \in Nat /\ repeated[d] \in Nat
  BY DEF TypeOK, Passes, Keys, Counts
<1>2. Added(d) \in Nat
  BY <1>1 DEF Added
<1> QED  BY <1>1, <1>2, SumsAreNat DEF Totals, RolledUp

\* Sums of counters that did not change did not change.
LEMMA SameCounts ==
    ASSUME UNCHANGED <<convs, totals, given, session>>, NEW d \in Dirs
    PROVE  /\ Waiting(d)' = Waiting(d) /\ RolledUp(d)' = RolledUp(d) /\ Given(d)' = Given(d)
           /\ Totals(d)' = Totals(d)
BY DEF Waiting, RolledUp, Given, Totals

\* A rating that Redis counts waits, and is given or repeated.
LEMMA CountBalance ==
    ASSUME TypeOK, TypeOK', KnownWasGiven, NEW h \in Handlers, CountInKey(h),
           NEW d \in Dirs, Balanced(d)
    PROVE  Balanced(d)'
<1> DEFINE c == rating[h].conv
<1>1. /\ c \in Convs
      /\ \A x \in Convs \ {c} : convs'[x] = convs[x] /\ given'[x] = given[x]
      /\ \/ /\ convs'[c].count[d] = convs[c].count[d]
            /\ given'[c][d] = given[c][d] /\ repeated'[d] = repeated[d]
         \/ /\ convs'[c].count[d] = convs[c].count[d] + 1
            /\ \/ given'[c][d] = given[c][d] + 1 /\ repeated'[d] = repeated[d]
               \/ given'[c][d] = given[c][d] /\ repeated'[d] = repeated[d] + 1
  BY CountFacts
<1> HIDE DEF c
<1>2. convs[c].count[d] \in Nat /\ given[c][d] \in Nat
  BY <1>1 DEF TypeOK, Keys, Counts
<1>3. Given(d)' = Given(d) - given[c][d] + given'[c][d]
  <2>1. \A x \in Convs \ {c} : given'[x][d] = given[x][d]
    BY <1>1
  <2> QED  BY <1>1, <2>1, GivenChange
<1>4. Waiting(d)' = Waiting(d) - convs[c].count[d] + convs'[c].count[d]
  <2>1. \A x \in Convs \ {c} : convs'[x].count[d] = convs[x].count[d]
    BY <1>1
  <2> QED  BY <1>1, <2>1, WaitingChange
<1>5. Added(d)' = Added(d) /\ RolledUp(d)' = RolledUp(d)
  BY DEF CountInKey, Added, RolledUp
<1>6. /\ Totals(d) \in Nat /\ session[d] \in Nat /\ Given(d) \in Nat /\ repeated[d] \in Nat
      /\ Waiting(d) \in Nat /\ Added(d) \in Nat /\ RolledUp(d) = Totals(d) + session[d]
  BY CountTypes
<1> QED  BY <1>1, <1>2, <1>3, <1>4, <1>5, <1>6 DEF Balanced

\* HINCRBY rolls up what the pass then has added once, and repeats the rest.
LEMMA AddBalance ==
    ASSUME TypeOK, TypeOK', AddedInOrder, NEW e \in Dirs, RollupAdd(e), NEW d \in Dirs, Balanced(d)
    PROVE  Balanced(d)'
<1>0. /\ Totals(d) \in Nat /\ session[d] \in Nat /\ Given(d) \in Nat /\ repeated[d] \in Nat
      /\ Waiting(d) \in Nat /\ Added(d) \in Nat /\ roll.read.count[d] \in Nat
      /\ RolledUp(d) = Totals(d) + session[d]
  BY CountTypes
<1>1. PICK k \in Nat :
        /\ HIncrBy(e, k)
        /\ roll.pc = e
        /\ roll'.read = roll.read
        /\ roll'.added = IF k = 0 THEN roll.added ELSE roll.added \cup {e}
        /\ \A x \in Dirs \ {e} : repeated'[x] = repeated[x]
        /\ IF k = 0 THEN repeated'[e] = repeated[e]
                    ELSE repeated'[e] + roll.read.count[e] = repeated[e] + k * roll.read.count[e]
        /\ UNCHANGED <<convs, events, requests, rating, given, inferred>>
  BY AddFacts
<1> DEFINE m == k * roll.read.count[e]
           v == roll.read.variant
<1>2. Waiting(d)' = Waiting(d) /\ Given(d)' = Given(d)
  BY <1>1 DEF Waiting, Given
<1>3. e \notin roll.added
  BY <1>1 DEF AddedInOrder, Dirs
<1>4. RolledUp(d)' = Totals(d)' + session'[d]
  BY DEF RolledUp, Totals
<1>5. /\ m \in Nat
      /\ \/ /\ v = None /\ totals' = totals
            /\ session'[e] = session[e] + m
            /\ \A x \in Dirs \ {e} : session'[x] = session[x]
         \/ /\ v \in Variants /\ session' = session
            /\ totals'[v][e] = totals[v][e] + m
            /\ \A w \in Variants, x \in Dirs : w # v \/ x # e => totals'[w][x] = totals[w][x]
  BY <1>1, HIncrByFacts
<1>6. k = 0 => m = 0
  <2>1. roll.read.count[e] \in Nat
    BY DEF TypeOK, Passes, Keys, Counts
  <2> QED  BY <2>1
<1>7. IF k = 0 THEN repeated'[e] = repeated[e] ELSE repeated'[e] + roll.read.count[e] = repeated[e] + m
  BY <1>1
<1> HIDE DEF m, v
<1>8. Totals(d)' + session'[d] = IF d = e THEN Totals(d) + session[d] + m ELSE Totals(d) + session[d]
  <2>1. CASE v = None /\ totals' = totals
    <3>1. Totals(d)' = Totals(d)
      BY <2>1 DEF Totals
    <3>2. session'[d] = IF d = e THEN session[d] + m ELSE session[d]
      BY <1>5, <2>1
    <3> QED  BY <1>0, <1>5, <3>1, <3>2
  <2>2. CASE v \in Variants /\ v # None
    <3>1. totals[v][d] \in Nat
      BY <2>2 DEF TypeOK, Counts
    <3>2. \A w \in Variants \ {v} : totals'[w][d] = totals[w][d]
      BY <1>5, <2>2
    <3>3. totals'[v][d] = IF d = e THEN totals[v][d] + m ELSE totals[v][d]
      BY <1>5, <2>2
    <3>4. Totals(d)' = Totals(d) - totals[v][d] + totals'[v][d]
      BY <2>2, <3>2, TotalsChange
    <3>5. session'[d] = session[d]
      BY <1>5, <2>2
    <3> QED  BY <1>0, <1>5, <3>1, <3>3, <3>4, <3>5
  <2> QED  BY <1>5, <2>1, <2>2
<1>9. CASE d # e
  <2>1. Added(d)' = Added(d) /\ repeated'[d] = repeated[d]
    BY <1>1, <1>9 DEF Added
  <2>2. Totals(d)' + session'[d] = Totals(d) + session[d]
    BY <1>8, <1>9
  <2> QED  BY <1>0, <1>2, <1>4, <2>1, <2>2 DEF Balanced
<1>10. CASE d = e
  <2>1. Added(d) = 0
    BY <1>3, <1>10 DEF Added
  <2>2. Totals(d)' + session'[d] = Totals(d) + session[d] + m
    BY <1>8, <1>10
  <2>3. CASE k = 0
    <3>1. Added(d)' = 0 /\ repeated'[d] = repeated[d]
      BY <1>1, <1>3, <1>10, <2>3 DEF Added
    <3> QED  BY <1>0, <1>2, <1>4, <1>6, <2>1, <2>2, <2>3, <3>1 DEF Balanced
  <2>4. CASE k # 0
    <3>1. Added(d)' = roll.read.count[d]
      BY <1>1, <1>10, <2>4 DEF Added
    <3>2. repeated'[d] + roll.read.count[d] = repeated[d] + m /\ repeated'[d] \in Nat
      BY <1>7, <1>10, <2>4 DEF TypeOK, Counts
    <3> QED  BY <1>0, <1>2, <1>4, <1>5, <2>1, <2>2, <3>1, <3>2 DEF Balanced
  <2> QED  BY <2>3, <2>4
<1> QED  BY <1>9, <1>10

\* DEL takes away at least what the pass has added from the key.
LEMMA DelBalance ==
    ASSUME TypeOK, TypeOK', ReadIsBehind, roll.pc = "del", roll'.added = {},
           convs' = [convs EXCEPT ![roll.conv] = NoKey],
           UNCHANGED <<session, totals, given, repeated>>, NEW d \in Dirs, Balanced(d)
    PROVE  Balanced(d)'
<1>0. /\ Totals(d) \in Nat /\ session[d] \in Nat /\ Given(d) \in Nat /\ repeated[d] \in Nat
      /\ Waiting(d) \in Nat /\ Added(d) \in Nat /\ roll.read.count[d] \in Nat
      /\ RolledUp(d) = Totals(d) + session[d]
  BY CountTypes
<1>1. roll.conv \in Convs /\ roll.read.count[d] <= convs[roll.conv].count[d]
  BY DEF ReadIsBehind, Holding
<1>2. convs[roll.conv].count[d] \in Nat
  BY <1>1 DEF TypeOK, Keys, Counts
<1>3. convs'[roll.conv].count[d] = 0 /\ \A x \in Convs \ {roll.conv} : convs'[x].count[d] = convs[x].count[d]
  BY <1>1, NoKeyFacts DEF TypeOK
<1>4. Waiting(d)' = Waiting(d) - convs[roll.conv].count[d] + convs'[roll.conv].count[d]
  BY <1>1, <1>3, WaitingChange
<1>5. RolledUp(d)' = RolledUp(d) /\ Given(d)' = Given(d)
  BY DEF RolledUp, Given
<1>6. Added(d) <= roll.read.count[d] /\ Added(d)' = 0
  BY <1>0 DEF Added
<1>7. Waiting(d)' = Waiting(d) - convs[roll.conv].count[d]
  BY <1>0, <1>2, <1>3, <1>4
<1> QED  BY <1>0, <1>1, <1>2, <1>5, <1>6, <1>7 DEF Balanced

\* A key that outlives its pass is accounted for as a repetition.
LEMMA KeepBalance ==
    ASSUME TypeOK, KeepKey, roll'.added = {}, UNCHANGED <<convs, session, totals, given>>,
           NEW d \in Dirs, Balanced(d)
    PROVE  Balanced(d)'
<1>1. repeated'[d] = repeated[d] + Added(d) /\ Added(d) \in Nat
  BY KeepFacts
<1>2. Added(d)' = 0
  BY DEF Added
<1>3. Waiting(d)' = Waiting(d) /\ RolledUp(d)' = RolledUp(d) /\ Given(d)' = Given(d)
  BY SameCounts
<1>4. /\ Totals(d) \in Nat /\ session[d] \in Nat /\ Given(d) \in Nat /\ repeated[d] \in Nat
      /\ Waiting(d) \in Nat /\ RolledUp(d) = Totals(d) + session[d]
  BY CountTypes
<1> QED  BY <1>1, <1>2, <1>3, <1>4 DEF Balanced

\* Every step keeps over-counting accounted for.
LEMMA CountStep ==
    ASSUME TypeOK, TypeOK', ReadIsBehind, AddedInOrder, KnownWasGiven, OvercountAccounted, [Next]_vars
    PROVE  OvercountAccounted'
<1> SUFFICES ASSUME NEW d \in Dirs PROVE Balanced(d)'
  BY DEF OvercountAccounted, Balanced
<1>1. Balanced(d)
  BY DEF OvercountAccounted, Balanced
<1>2. ASSUME UNCHANGED <<convs, totals, given, session, repeated>>, Added(d)' = Added(d) PROVE Balanced(d)'
  <2>1. Waiting(d)' = Waiting(d) /\ RolledUp(d)' = RolledUp(d) /\ Given(d)' = Given(d)
    BY <1>2, SameCounts
  <2> QED  BY <1>1, <1>2, <2>1 DEF Balanced
<1>3. CASE \/ \E h \in Handlers, client \in Clients, c \in Convs, n \in {-1, 0, 1} : HandleFeedback(h, client, c, n)
           \/ ProxyCrash
           \/ UNCHANGED vars
  <2>1. UNCHANGED <<convs, totals, given, session, repeated, roll>>
    BY <1>3 DEF HandleFeedback, ProxyCrash, vars, tallies, counted
  <2> QED  BY <1>2, <2>1 DEF Added
<1>4. CASE \E h \in Handlers : RecordFeedback(h)
  <2>1. PICK h \in Handlers : RecordFeedback(h)
    BY <1>4
  <2>2. CASE CountInKey(h)
    BY <1>1, <2>2, CountBalance
  <2>3. CASE NameInKey(h) \/ SendAgain(h) \/ GiveUp(h) \/ RecordPg(h)
    <3>1. /\ \A x \in Convs : convs'[x].count = convs[x].count
          /\ UNCHANGED <<session, totals, roll, given, repeated>>
      BY <2>3, RecordFacts
    <3>2. Waiting(d)' = Waiting(d)
      BY <3>1 DEF Waiting
    <3>3. RolledUp(d)' = RolledUp(d) /\ Given(d)' = Given(d) /\ Added(d)' = Added(d)
      BY <3>1 DEF RolledUp, Given, Added
    <3> QED  BY <1>1, <3>1, <3>2, <3>3 DEF Balanced
  <2> QED  BY <2>1, <2>2, <2>3 DEF RecordFeedback
<1>5. CASE \E e \in Dirs : RollupAdd(e)
  BY <1>1, <1>5, AddBalance
<1>6. CASE RollupDel
  <2>1. UNCHANGED <<session, totals, given>> /\ roll.pc = "del"
    BY <1>6 DEF RollupDel
  <2>2. roll'.added = {}
    BY <1>6 DEF RollupDel, IdleRoll
  <2>3. \/ convs' = [convs EXCEPT ![roll.conv] = NoKey] /\ UNCHANGED repeated
        \/ KeepKey /\ UNCHANGED convs
    BY <1>6 DEF RollupDel
  <2> QED  BY <1>1, <2>1, <2>2, <2>3, DelBalance, KeepBalance
<1>7. CASE OptimizerCrash
  <2>1. KeepKey /\ UNCHANGED <<convs, session, totals, given>> /\ roll'.added = {}
    BY <1>7 DEF OptimizerCrash, IdleRoll, tallies
  <2> QED  BY <1>1, <2>1, KeepBalance
<1>8. CASE RollupScan \/ RollupEnd \/ \E c \in Convs : RollupRead(c)
  <2>1. UNCHANGED <<convs, totals, given, session, repeated>>
    BY <1>8 DEF RollupScan, RollupEnd, RollupRead, tallies, counted
  <2>2. roll.pc \in {"idle", "next"}
    BY <1>8 DEF RollupScan, RollupEnd, RollupRead
  <2>3. roll.added = {}
    BY <2>2 DEF AddedInOrder
  <2>4. roll'.added = {}
    <3>1. CASE RollupScan \/ RollupEnd
      <4>1. IdleRoll = [pc |-> "idle", conv |-> None, read |-> NoKey, added |-> {}, todo |-> {}]
        BY DEF IdleRoll
      <4>2. CASE RollupScan
        BY <4>1, <4>2 DEF RollupScan
      <4>3. CASE RollupEnd
        BY <4>1, <4>3 DEF RollupEnd
      <4> QED  BY <3>1, <4>2, <4>3
    <3>2. CASE \E c \in Convs : RollupRead(c)
      <4>1. PICK c \in Convs : RollupRead(c)
        BY <3>2
      <4>2. CASE roll' = [pc |-> "up", conv |-> c, read |-> convs[c], added |-> {}, todo |-> roll.todo \ {c}]
        BY <4>2
      <4>3. CASE roll' = [roll EXCEPT !.todo = @ \ {c}]
        BY <2>3, <4>3 DEF TypeOK, Passes
      <4> QED  BY <4>1, <4>2, <4>3 DEF RollupRead
    <3> QED  BY <1>8, <3>1, <3>2
  <2> QED  BY <1>2, <2>1, <2>3, <2>4 DEF Added
<1> QED  BY <1>3, <1>4, <1>5, <1>6, <1>7, <1>8 DEF Next, Rollup

-----------------------------------------------------------------------------
(* Theorems *)

\* The invariant is inductive, so every reachable state satisfies it.
THEOREM Inductive == Spec => []IInv
<1>1. Init => IInv
  <2> SUFFICES ASSUME Init PROVE IInv
    OBVIOUS
  <2>0. /\ IdleRoll \in Passes /\ IdleRoll.pc = "idle" /\ IdleRoll.added = {}
        /\ IdleRating \in Ratings /\ IdleRating.pc = "idle"
    BY IdleRollFacts, IdleRatingFacts
  <2>1. TypeOK
    <3>1. requests \in 0 .. MaxRatings
      BY DEF Init
    <3>2. rating \in [Handlers -> Ratings] /\ \A h \in Handlers : rating[h].pc = "idle"
      BY <2>0 DEF Init
    <3>3. convs \in [Convs -> Keys] /\ \A c \in Convs : convs[c] = NoKey
      BY NoKeyFacts DEF Init
    <3>4. given \in [Convs -> Counts] /\ totals \in [Variants -> Counts]
      BY NoKeyFacts DEF Init
    <3>5. session \in Counts /\ repeated \in Counts /\ roll \in Passes
      BY <2>0, NoKeyFacts DEF Init
    <3> QED  BY <3>1, <3>2, <3>3, <3>4, <3>5 DEF Init, TypeOK
  <2>2. roll.pc = "idle" /\ roll.added = {} /\ \A h \in Handlers : rating[h].pc = "idle"
    BY <2>0 DEF Init
  <2>3. ReadIsBehind /\ AddedInOrder /\ KnownWasGiven /\ RatingsAreHonest
    BY <2>2 DEF ReadIsBehind, AddedInOrder, KnownWasGiven, RatingsAreHonest, Holding
  <2>4. \A v \in Variants, d \in Dirs : totals[v][d] = 0
    BY DEF Init, Zero
  <2>5. NeverMisattributed
    BY <2>4 DEF Init, NeverMisattributed
  <2>6. KeysAreHonest
    <3>1. \A c \in Convs : convs[c].variant = None /\ \A d \in Dirs : convs[c].count[d] = 0
      BY NoKeyFacts DEF Init, NoKey
    <3> QED  BY <2>2, <3>1 DEF KeysAreHonest, Honest, Holding
  <2>7. OvercountAccounted
    <3> SUFFICES ASSUME NEW d \in Dirs PROVE Balanced(d)
      BY DEF OvercountAccounted, Balanced
    <3>1. Totals(d) = 0
      <4> DEFINE f == [v \in Variants |-> totals[v][d]]
      <4>1. f \in [Variants -> Int] /\ \A v \in Variants : f[v] = 0
        BY <2>4
      <4> HIDE DEF f
      <4>2. SumFunction(f) = 0
        BY <4>1, SumZero
      <4> QED  BY <4>2 DEF Totals, f
    <3>2. Waiting(d) = 0
      <4> DEFINE f == [c \in Convs |-> convs[c].count[d]]
      <4>1. f \in [Convs -> Int] /\ \A c \in Convs : f[c] = 0
        BY NoKeyFacts DEF Init
      <4> HIDE DEF f
      <4>2. SumFunction(f) = 0
        BY <4>1, SumZero
      <4> QED  BY <4>2 DEF Waiting, f
    <3>3. session[d] = 0
      BY DEF Init, Zero
    <3>4. /\ Given(d) \in Nat /\ repeated[d] \in Nat /\ Added(d) \in Nat
          /\ RolledUp(d) = Totals(d) + session[d]
      BY <2>1, CountTypes
    <3> QED  BY <3>1, <3>2, <3>3, <3>4 DEF Balanced
  <2> QED  BY <2>1, <2>3, <2>5, <2>6, <2>7 DEF IInv
<1>2. IInv /\ [Next]_vars => IInv'
  <2> SUFFICES ASSUME IInv, [Next]_vars PROVE IInv'
    OBVIOUS
  <2>1. TypeOK' /\ ReadIsBehind' /\ AddedInOrder'
    BY TypeStep DEF IInv
  <2>2. KnownWasGiven' /\ RatingsAreHonest' /\ KeysAreHonest' /\ NeverMisattributed'
    BY HonestStep DEF IInv
  <2>3. OvercountAccounted'
    BY <2>1, CountStep DEF IInv
  <2> QED  BY <2>1, <2>2, <2>3 DEF IInv
<1> QED  BY <1>1, <1>2, PTL DEF Spec

\* The types hold in every reachable state, for any conversations, variants and
\* clients.
THEOREM TypeCorrect == Spec => []TypeOK
<1>1. IInv => TypeOK
  BY DEF IInv
<1> QED  BY <1>1, Inductive, PTL

\* All that is counted beyond the ratings given was counted by a command that
\* was executed again or by a key that outlived the pass that added it, however
\* many ratings and commands interleave with a pass.
THEOREM OvercountExplained == Spec => []OvercountAccounted
<1>1. IInv => OvercountAccounted
  BY DEF IInv
<1> QED  BY <1>1, Inductive, PTL

\* Ratings that name their conversation are never credited to a variant that
\* did not serve it.
THEOREM CreditedToTheServing == Spec => []NeverMisattributed
<1>1. IInv => NeverMisattributed
  BY DEF IInv
<1> QED  BY <1>1, Inductive, PTL

=============================================================================
