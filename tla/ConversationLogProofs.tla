------------------------ MODULE ConversationLogProofs ------------------------
(***************************************************************************)
(* Proofs, for every set of requests and conversations, every cap of the   *)
(* list and every set of faults, that the pairing loop of                  *)
(* ReadConversationLogs takes the newest entry that offers a part, and     *)
(* that a stored row speaks of its own conversation only.                  *)
(***************************************************************************)
EXTENDS ConversationLog, InductionLemmas, SequenceTheorems

USE RequestsAssumption, LogAssumption

-----------------------------------------------------------------------------
(* The loop of ReadConversationLogs *)

\* Newest, of the k newest entries.
Offering(c, offer, k) == {i \in 1 .. k : conv[log[i].req] = c /\ offer[log[i]] # None}
First(I) == CHOOSE i \in I : \A j \in I : i <= j
NewestOf(c, offer, k) ==
    IF Offering(c, offer, k) = {} THEN None ELSE offer[log[First(Offering(c, offer, k))]]

\* A non-empty set of positions has one first element.
LEMMA FirstIsLeast ==
    ASSUME NEW I \in SUBSET Nat, I # {} PROVE First(I) \in I /\ \A j \in I : First(I) <= j
BY LeastNat DEF First

\* An entry older than an offering one does not matter.
LEMMA FirstStays ==
    ASSUME NEW I \in SUBSET Nat, I # {}, NEW k \in Nat, \A i \in I : i <= k
    PROVE  First(I \cup {k + 1}) = First(I)
<1>1. First(I) \in I /\ \A j \in I : First(I) <= j
  BY FirstIsLeast
<1>2. I \cup {k + 1} \in SUBSET Nat /\ I \cup {k + 1} # {}
  OBVIOUS
<1>3. First(I \cup {k + 1}) \in I \cup {k + 1} /\ \A j \in I \cup {k + 1} : First(I \cup {k + 1}) <= j
  BY <1>2, FirstIsLeast
<1> DEFINE a == First(I)
           b == First(I \cup {k + 1})
<1>4. a \in I /\ (\A j \in I : a <= j) /\ b \in I \cup {k + 1} /\ b <= a
  BY <1>1, <1>3
<1> HIDE DEF a, b
<1>5. a \in Nat /\ b \in Nat /\ a <= k
  BY <1>4
<1>6. b \in I
  BY <1>4, <1>5
<1>7. a <= b
  BY <1>4, <1>6
<1>8. a = b
  BY <1>4, <1>5, <1>7
<1> QED  BY <1>8 DEF a, b

\* A value that starts with none and takes the first one offered, turn by turn,
\* is what the newest offering entry offers.
LEMMA TakesNewest ==
    ASSUME TypeOK, NEW c \in Convs, NEW offer \in [Entry -> Part], NEW x,
           x[0] = None,
           \A k \in 1 .. Len(log) :
               x[k] = IF conv[log[k].req] = c THEN Or(x[k - 1], offer[log[k]]) ELSE x[k - 1]
    PROVE  \A k \in 0 .. Len(log) : x[k] = NewestOf(c, offer, k)
<1> DEFINE P == {k \in Nat : k <= Len(log) => x[k] = NewestOf(c, offer, k)}
<1>0. Len(log) \in Nat
  BY DEF TypeOK
<1>1. 0 \in P
  <2>1. Offering(c, offer, 0) = {}
    BY DEF Offering
  <2> QED  BY <2>1 DEF NewestOf
<1>2. ASSUME NEW k \in Nat, k \in P PROVE k + 1 \in P
  <2> SUFFICES ASSUME k + 1 <= Len(log) PROVE x[k + 1] = NewestOf(c, offer, k + 1)
    OBVIOUS
  <2> DEFINE I == Offering(c, offer, k)
             J == Offering(c, offer, k + 1)
             e == log[k + 1]
  <2>1. x[k] = NewestOf(c, offer, k)
    BY <1>0, <1>2
  <2>2. x[k + 1] = IF conv[e.req] = c THEN Or(x[k], offer[e]) ELSE x[k]
    BY <1>0
  <2>3. I \in SUBSET Nat /\ \A i \in I : i <= k
    BY DEF Offering
  <2>4. J = IF conv[e.req] = c /\ offer[e] # None THEN I \cup {k + 1} ELSE I
    BY DEF Offering
  <2>5. I # {} => First(I) \in I /\ offer[log[First(I)]] # None
    BY <2>3, FirstIsLeast DEF Offering
  <2>6. CASE I = {}
    <3>1. x[k] = None
      BY <2>1, <2>6 DEF NewestOf
    <3>2. CASE conv[e.req] = c /\ offer[e] # None
      <4>1. J = {k + 1}
        BY <2>4, <2>6, <3>2
      <4>2. First(J) = k + 1
        <5> HIDE DEF J
        <5>1. J \in SUBSET Nat /\ J # {}
          BY <4>1
        <5> QED  BY <4>1, <5>1, FirstIsLeast
      <4> QED  BY <2>2, <3>1, <3>2, <4>1, <4>2 DEF NewestOf, Or
    <3>3. CASE ~(conv[e.req] = c /\ offer[e] # None)
      BY <2>2, <2>4, <2>6, <3>1, <3>3 DEF NewestOf, Or
    <3> QED  BY <3>2, <3>3
  <2>7. CASE I # {}
    <3>1. x[k] = offer[log[First(I)]] /\ x[k] # None
      BY <2>1, <2>5, <2>7 DEF NewestOf
    <3>2. x[k + 1] = x[k]
      BY <2>2, <3>1 DEF Or
    <3>3. J # {} /\ First(J) = First(I)
      BY <2>3, <2>4, <2>7, FirstStays
    <3> QED  BY <3>1, <3>2, <3>3 DEF NewestOf
  <2> QED  BY <2>6, <2>7
<1>3. Nat \subseteq P
  <2> HIDE DEF P
  <2> QED  BY <1>1, <1>2, SetInduction
<1> QED  BY <1>0, <1>3

\* What an entry offers is a request, or nothing.
LEMMA OfferTypes ==
    ASSUME TypeOK
    PROVE  /\ [e \in Entry |-> PromptIn(e)] \in [Entry -> Part]
           /\ [e \in Entry |-> ResponseIn(e)] \in [Entry -> Part]
           /\ [e \in Entry |-> VariantIn(e)] \in [Entry -> Part]
BY DEF Entry, Part, PromptIn, ResponseIn, VariantIn

\* A turn of the loop keeps rows rows.
LEMMA MergeType ==
    ASSUME TypeOK, NEW m \in [Convs -> Row], NEW e \in Entry
    PROVE  /\ Merge(m, e) \in [Convs -> Row]
           /\ \A c \in Convs :
                Merge(m, e)[c] = IF conv[e.req] = c
                                 THEN [prompt   |-> Or(m[c].prompt, PromptIn(e)),
                                       response |-> Or(m[c].response, ResponseIn(e)),
                                       variant  |-> Or(m[c].variant, VariantIn(e))]
                                 ELSE m[c]
<1> DEFINE k == conv[e.req]
           new == [prompt   |-> Or(m[k].prompt, PromptIn(e)),
                   response |-> Or(m[k].response, ResponseIn(e)),
                   variant  |-> Or(m[k].variant, VariantIn(e))]
<1>1. k \in Convs \cup {NoConv}
  BY DEF TypeOK, Entry
<1>2. PromptIn(e) \in Part /\ ResponseIn(e) \in Part /\ VariantIn(e) \in Part
  BY DEF Entry, Part, PromptIn, ResponseIn, VariantIn
<1>3. CASE k = NoConv
  BY <1>3 DEF Merge
<1>4. CASE k # NoConv
  <2>1. k \in Convs /\ m[k] \in Row
    BY <1>1, <1>4
  <2>2. new \in Row
    BY <1>2, <2>1 DEF Row, Or
  <2>3. Merge(m, e) = [m EXCEPT ![k] = new]
    BY <1>4 DEF Merge
  <2>4. new = [prompt   |-> Or(m[k].prompt, PromptIn(e)),
               response |-> Or(m[k].response, ResponseIn(e)),
               variant  |-> Or(m[k].variant, VariantIn(e))]
    OBVIOUS
  <2> HIDE DEF new
  <2>5. Merge(m, e) \in [Convs -> Row] /\ \A c \in Convs : Merge(m, e)[c] = IF c = k THEN new ELSE m[c]
    BY <2>1, <2>2, <2>3
  <2> QED  BY <2>4, <2>5
<1> QED  BY <1>3, <1>4

\* The loop's function exists: every turn is what Merge makes of the one before.
LEMMA MergedFacts ==
    ASSUME TypeOK
    PROVE  /\ Merged[0] = Empty
           /\ \A k \in 0 .. Len(log) : Merged[k] \in [Convs -> Row]
           /\ \A k \in 1 .. Len(log) : Merged[k] = Merge(Merged[k - 1], log[k])
<1> DEFINE V == [Convs -> Row]
           N == Len(log)
           F == [k \in 1 .. N |-> [m \in V |-> Merge(m, log[k])]]
           Loop(g) == [k \in 0 .. N |-> IF k = 0 THEN Empty ELSE Merge(g[k - 1], log[k])]
<1>1. N \in Nat /\ \A k \in 1 .. N : log[k] \in Entry
  BY DEF TypeOK
<1>2. Empty \in V
  BY DEF Empty, NoRow, Row, Part
<1>3. \A k \in 1 .. N : \A m \in V : Merge(m, log[k]) \in V
  BY <1>1, MergeType
<1>4. PICK g \in [0 .. N -> V] : g[0] = Empty /\ \A k \in 1 .. N : g[k] = F[k][g[k - 1]]
  <2> HIDE DEF V, N
  <2>1. F \in [1 .. N -> [V -> V]]
    BY <1>3
  <2>2. N \in Nat
    BY <1>1
  <2> HIDE DEF F
  <2> QED  BY <1>2, <2>1, <2>2, IntervalRecursion
<1>5. \A k \in 1 .. N : g[k] = Merge(g[k - 1], log[k])
  <2> TAKE k \in 1 .. N
  <2>1. k - 1 \in 0 .. N
    BY <1>1
  <2>2. g[k - 1] \in V
    BY <2>1
  <2> HIDE DEF V
  <2> QED  BY <1>4, <2>2
<1>6. g = Loop(g)
  <2> HIDE DEF V, F
  <2>1. \A k \in 0 .. N : g[k] = Loop(g)[k]
    BY <1>1, <1>4, <1>5
  <2> QED  BY <2>1
<1>7. Merged = Loop(Merged)
  <2>1. \E h : h = Loop(h)
    BY <1>6
  <2> QED  BY <2>1 DEF Merged
<1>8. Merged[0] = Empty /\ \A k \in 1 .. N : Merged[k] = Merge(Merged[k - 1], log[k])
  <2> DEFINE h == Merged
  <2>1. h = Loop(h)
    BY <1>7
  <2> HIDE DEF h
  <2>2. h[0] = Empty /\ \A k \in 1 .. N : h[k] = Merge(h[k - 1], log[k])
    BY <1>1, <2>1
  <2> QED  BY <2>2 DEF h
<1>9. \A k \in 0 .. N : Merged[k] \in V
  <2> DEFINE P == {k \in Nat : k <= N => Merged[k] \in V}
  <2>1. 0 \in P
    BY <1>2, <1>8
  <2>2. ASSUME NEW k \in Nat, k \in P PROVE k + 1 \in P
    <3> SUFFICES ASSUME k + 1 <= N PROVE Merged[k + 1] \in V
      OBVIOUS
    <3>1. Merged[k] \in V /\ k + 1 \in 1 .. N
      BY <1>1, <2>2
    <3>2. Merged[k + 1] = Merge(Merged[k], log[k + 1])
      BY <1>8, <3>1
    <3> QED  BY <1>3, <3>1, <3>2
  <2>3. Nat \subseteq P
    <3> HIDE DEF P
    <3> QED  BY <2>1, <2>2, SetInduction
  <2> QED  BY <1>1, <2>3
<1> QED  BY <1>8, <1>9

\* No more entries are read than there are.
LEMMA ReadFacts == ASSUME TypeOK PROVE Read \in 0 .. Len(log) /\ Len(log) \in Nat
BY DEF Read, TypeOK

\* Newest is NewestOf the entries that are read.
LEMMA NewestIsOfRead == ASSUME NEW c, NEW offer PROVE Newest(c, offer) = NewestOf(c, offer, Read)
BY DEF Newest, NewestOf, Offering, First

\* In every state the pairs are the newest entries: the loop computes what
\* PairsAreNewest says without one.
LEMMA LoopTakesNewest == ASSUME TypeOK PROVE PairsAreNewest
<1> SUFFICES ASSUME NEW c \in Convs
             PROVE  /\ ReadConversationLogs[c].prompt = Newest(c, [e \in Entry |-> PromptIn(e)])
                    /\ ReadConversationLogs[c].response = Newest(c, [e \in Entry |-> ResponseIn(e)])
                    /\ ReadConversationLogs[c].variant = Newest(c, [e \in Entry |-> VariantIn(e)])
  BY DEF PairsAreNewest
<1> DEFINE N == Len(log)
<1>0. N \in Nat /\ \A k \in 1 .. N : log[k] \in Entry /\ k \in 0 .. N /\ k - 1 \in 0 .. N
  BY DEF TypeOK
<1>1. ASSUME NEW k \in 1 .. N
      PROVE  LET mine == conv[log[k].req] = c
                 old == Merged[k - 1][c]
             IN  /\ Merged[k][c].prompt = IF mine THEN Or(old.prompt, PromptIn(log[k])) ELSE old.prompt
                 /\ Merged[k][c].response = IF mine THEN Or(old.response, ResponseIn(log[k])) ELSE old.response
                 /\ Merged[k][c].variant = IF mine THEN Or(old.variant, VariantIn(log[k])) ELSE old.variant
  <2>1. Merged[k] = Merge(Merged[k - 1], log[k]) /\ Merged[k - 1] \in [Convs -> Row]
    BY <1>0, MergedFacts
  <2>2. Merged[k][c] = IF conv[log[k].req] = c
                       THEN [prompt   |-> Or(Merged[k - 1][c].prompt, PromptIn(log[k])),
                             response |-> Or(Merged[k - 1][c].response, ResponseIn(log[k])),
                             variant  |-> Or(Merged[k - 1][c].variant, VariantIn(log[k]))]
                       ELSE Merged[k - 1][c]
    BY <1>0, <2>1, MergeType
  <2> QED  BY <2>2
<1>2. Merged[0][c] = NoRow
  BY MergedFacts DEF Empty
<1> HIDE DEF N
<1>3. ReadConversationLogs[c].prompt = Newest(c, [e \in Entry |-> PromptIn(e)])
  <2> DEFINE offer == [e \in Entry |-> PromptIn(e)]
             x == [k \in 0 .. N |-> Merged[k][c].prompt]
  <2>1. offer \in [Entry -> Part]
    BY OfferTypes
  <2>2. \A k \in 1 .. N : offer[log[k]] = PromptIn(log[k])
    BY <1>0
  <2>3. x[0] = None
    BY <1>0, <1>2 DEF NoRow
  <2>4. \A k \in 1 .. N : x[k] = IF conv[log[k].req] = c THEN Or(x[k - 1], offer[log[k]]) ELSE x[k - 1]
    <3> TAKE k \in 1 .. N
    <3>1. x[k] = Merged[k][c].prompt /\ x[k - 1] = Merged[k - 1][c].prompt
      BY <1>0
    <3> HIDE DEF offer, x
    <3> QED  BY <1>1, <2>2, <3>1
  <2>5. x[Read] = ReadConversationLogs[c].prompt
    BY ReadFacts DEF ReadConversationLogs, N
  <2> HIDE DEF x, offer
  <2>6. \A k \in 0 .. N : x[k] = NewestOf(c, offer, k)
    BY <2>1, <2>3, <2>4, TakesNewest DEF N
  <2>7. ReadConversationLogs[c].prompt = Newest(c, offer)
    BY ReadFacts, <2>5, <2>6, NewestIsOfRead DEF N
  <2> QED  BY <2>7 DEF offer
<1>4. ReadConversationLogs[c].response = Newest(c, [e \in Entry |-> ResponseIn(e)])
  <2> DEFINE offer == [e \in Entry |-> ResponseIn(e)]
             x == [k \in 0 .. N |-> Merged[k][c].response]
  <2>1. offer \in [Entry -> Part]
    BY OfferTypes
  <2>2. \A k \in 1 .. N : offer[log[k]] = ResponseIn(log[k])
    BY <1>0
  <2>3. x[0] = None
    BY <1>0, <1>2 DEF NoRow
  <2>4. \A k \in 1 .. N : x[k] = IF conv[log[k].req] = c THEN Or(x[k - 1], offer[log[k]]) ELSE x[k - 1]
    <3> TAKE k \in 1 .. N
    <3>1. x[k] = Merged[k][c].response /\ x[k - 1] = Merged[k - 1][c].response
      BY <1>0
    <3> HIDE DEF offer, x
    <3> QED  BY <1>1, <2>2, <3>1
  <2>5. x[Read] = ReadConversationLogs[c].response
    BY ReadFacts DEF ReadConversationLogs, N
  <2> HIDE DEF x, offer
  <2>6. \A k \in 0 .. N : x[k] = NewestOf(c, offer, k)
    BY <2>1, <2>3, <2>4, TakesNewest DEF N
  <2>7. ReadConversationLogs[c].response = Newest(c, offer)
    BY ReadFacts, <2>5, <2>6, NewestIsOfRead DEF N
  <2> QED  BY <2>7 DEF offer
<1>5. ReadConversationLogs[c].variant = Newest(c, [e \in Entry |-> VariantIn(e)])
  <2> DEFINE offer == [e \in Entry |-> VariantIn(e)]
             x == [k \in 0 .. N |-> Merged[k][c].variant]
  <2>1. offer \in [Entry -> Part]
    BY OfferTypes
  <2>2. \A k \in 1 .. N : offer[log[k]] = VariantIn(log[k])
    BY <1>0
  <2>3. x[0] = None
    BY <1>0, <1>2 DEF NoRow
  <2>4. \A k \in 1 .. N : x[k] = IF conv[log[k].req] = c THEN Or(x[k - 1], offer[log[k]]) ELSE x[k - 1]
    <3> TAKE k \in 1 .. N
    <3>1. x[k] = Merged[k][c].variant /\ x[k - 1] = Merged[k - 1][c].variant
      BY <1>0
    <3> HIDE DEF offer, x
    <3> QED  BY <1>1, <2>2, <3>1
  <2>5. x[Read] = ReadConversationLogs[c].variant
    BY ReadFacts DEF ReadConversationLogs, N
  <2> HIDE DEF x, offer
  <2>6. \A k \in 0 .. N : x[k] = NewestOf(c, offer, k)
    BY <2>1, <2>3, <2>4, TakesNewest DEF N
  <2>7. ReadConversationLogs[c].variant = Newest(c, offer)
    BY ReadFacts, <2>5, <2>6, NewestIsOfRead DEF N
  <2> QED  BY <2>7 DEF offer
<1> QED  BY <1>3, <1>4, <1>5

-----------------------------------------------------------------------------
(* The inductive invariant *)

\* Entries speak of requests that were forwarded; a response entry of one whose
\* answer is known, and answers do not change.
EntriesAreReal ==
    \A e \in sends \cup {log[i] : i \in 1 .. Len(log)} :
        /\ phase[e.req] # "new"
        /\ e.role = "response" => phase[e.req] \in {"answered", "empty"}

\* A variant was injected into forwarded requests only.
TreatedAreForwarded == \A r \in treated : phase[r] # "new"

\* RowsFromTheirConversation, of one row.
Backed(row, c) ==
    /\ row.prompt # None => conv[row.prompt] = c /\ phase[row.prompt] # "new"
    /\ row.response # None => conv[row.response] = c /\ phase[row.response] = "answered"
    /\ row.variant # None => conv[row.variant] = c /\ row.variant \in treated

\* The pairs on their way to Postgres are backed as the rows there are.
IInv ==
    /\ TypeOK
    /\ EntriesAreReal
    /\ TreatedAreForwarded
    /\ \A c \in Convs : Backed(copied[c], c) /\ Backed(rows[c], c)

\* The part Newest finds was offered by an entry of the conversation.
LEMMA NewestIsOffered ==
    ASSUME TypeOK, NEW c, NEW offer, Newest(c, offer) # None
    PROVE  \E i \in 1 .. Len(log) : conv[log[i].req] = c /\ Newest(c, offer) = offer[log[i]]
<1> DEFINE I == Offering(c, offer, Read)
<1>1. I # {} /\ Newest(c, offer) = offer[log[First(I)]]
  BY NewestIsOfRead DEF NewestOf
<1>2. I \in SUBSET Nat
  BY ReadFacts DEF Offering
<1>3. First(I) \in I
  <2> HIDE DEF I
  <2> QED  BY <1>1, <1>2, FirstIsLeast
<1>4. First(I) \in 1 .. Read /\ conv[log[First(I)].req] = c
  BY <1>3 DEF Offering
<1> HIDE DEF I
<1>5. First(I) \in 1 .. Len(log)
  BY <1>4, ReadFacts
<1> QED  BY <1>1, <1>4, <1>5

\* What copyLogs pairs is backed.
LEMMA PairsAreBacked ==
    ASSUME IInv, NEW c \in Convs
    PROVE  ReadConversationLogs[c] \in Row /\ Backed(ReadConversationLogs[c], c)
<1>0. TypeOK /\ PairsAreNewest
  BY LoopTakesNewest DEF IInv
<1> DEFINE row == ReadConversationLogs[c]
<1>1. row \in Row
  <2>1. Merged[Read] \in [Convs -> Row]
    BY <1>0, ReadFacts, MergedFacts
  <2> QED  BY <2>1 DEF ReadConversationLogs
<1>2. \A i \in 1 .. Len(log) : /\ log[i] \in Entry
                               /\ phase[log[i].req] # "new"
  BY <1>0 DEF IInv, EntriesAreReal, TypeOK
<1>3. ASSUME row.prompt # None PROVE conv[row.prompt] = c /\ phase[row.prompt] # "new"
  <2> DEFINE offer == [e \in Entry |-> PromptIn(e)]
  <2>1. row.prompt = Newest(c, offer)
    BY <1>0 DEF PairsAreNewest
  <2>2. \A e \in Entry : offer[e] = PromptIn(e)
    OBVIOUS
  <2> HIDE DEF offer, row
  <2>3. PICK i \in 1 .. Len(log) : conv[log[i].req] = c /\ row.prompt = offer[log[i]]
    BY <1>0, <1>3, <2>1, NewestIsOffered
  <2>4. row.prompt = log[i].req
    BY <1>2, <1>3, <2>2, <2>3 DEF PromptIn
  <2> QED  BY <1>2, <2>3, <2>4
<1>4. ASSUME row.response # None PROVE conv[row.response] = c /\ phase[row.response] = "answered"
  <2> DEFINE offer == [e \in Entry |-> ResponseIn(e)]
  <2>1. row.response = Newest(c, offer)
    BY <1>0 DEF PairsAreNewest
  <2>2. \A e \in Entry : offer[e] = ResponseIn(e)
    OBVIOUS
  <2> HIDE DEF offer, row
  <2>3. PICK i \in 1 .. Len(log) : conv[log[i].req] = c /\ row.response = offer[log[i]]
    BY <1>0, <1>4, <2>1, NewestIsOffered
  <2>4. row.response = log[i].req /\ phase[log[i].req] = "answered"
    BY <1>2, <1>4, <2>2, <2>3 DEF ResponseIn
  <2> QED  BY <2>3, <2>4
<1>5. ASSUME row.variant # None PROVE conv[row.variant] = c /\ row.variant \in treated
  <2> DEFINE offer == [e \in Entry |-> VariantIn(e)]
  <2>1. row.variant = Newest(c, offer)
    BY <1>0 DEF PairsAreNewest
  <2>2. \A e \in Entry : offer[e] = VariantIn(e)
    OBVIOUS
  <2> HIDE DEF offer, row
  <2>3. PICK i \in 1 .. Len(log) : conv[log[i].req] = c /\ row.variant = offer[log[i]]
    BY <1>0, <1>5, <2>1, NewestIsOffered
  <2>4. row.variant = log[i].req /\ log[i].req \in treated
    BY <1>2, <1>5, <2>2, <2>3 DEF VariantIn
  <2> QED  BY <2>3, <2>4
<1> QED  BY <1>1, <1>3, <1>4, <1>5 DEF Backed

-----------------------------------------------------------------------------
(* Steps *)

\* The proxy only adds: a forwarded request keeps its conversation, an answered
\* one its answer, a treated one its variant.
OnlyAdds ==
    /\ \A r \in Requests : phase[r] # "new" => phase'[r] # "new" /\ conv'[r] = conv[r]
    /\ \A r \in Requests : phase[r] \in {"answered", "empty"} => phase'[r] = phase[r]
    /\ treated \subseteq treated'

\* What backs a row goes on backing it.
LEMMA BackedStays ==
    ASSUME OnlyAdds, TreatedAreForwarded, treated \subseteq Requests,
           NEW row \in Row, NEW c, Backed(row, c)
    PROVE  /\ row.prompt # None => conv'[row.prompt] = c /\ phase'[row.prompt] # "new"
           /\ row.response # None => conv'[row.response] = c /\ phase'[row.response] = "answered"
           /\ row.variant # None => conv'[row.variant] = c /\ row.variant \in treated'
<1>1. row.prompt \in Part /\ row.response \in Part /\ row.variant \in Part
  BY DEF Row
<1> QED  BY <1>1 DEF Backed, OnlyAdds, Part, TreatedAreForwarded

\* Steps of the proxy.
LEMMA ProxyStep ==
    ASSUME IInv, UNCHANGED <<list, copied, rows>>, OnlyAdds, TypeOK', TreatedAreForwarded',
           \A e \in sends' : \/ e \in sends
                             \/ /\ phase'[e.req] # "new"
                                /\ e.role = "response" => phase'[e.req] \in {"answered", "empty"}
    PROVE  IInv'
<1>0. TypeOK /\ UNCHANGED log
  BY DEF IInv, list
<1>1. EntriesAreReal'
  <2>1. \A e \in sends \cup {log[i] : i \in 1 .. Len(log)} :
          /\ e.req \in Requests /\ phase[e.req] # "new"
          /\ e.role = "response" => phase[e.req] \in {"answered", "empty"}
    <3>1. sends \subseteq Entry /\ \A i \in 1 .. Len(log) : log[i] \in Entry
      BY <1>0 DEF TypeOK
    <3>2. \A e \in sends \cup {log[i] : i \in 1 .. Len(log)} : e \in Entry
      BY <3>1
    <3> QED  BY <3>2 DEF IInv, EntriesAreReal, Entry
  <2>2. \A e \in sends \cup {log[i] : i \in 1 .. Len(log)} :
          /\ phase'[e.req] # "new"
          /\ e.role = "response" => phase'[e.req] \in {"answered", "empty"}
    BY <2>1 DEF OnlyAdds
  <2> QED  BY <1>0, <2>2 DEF EntriesAreReal
<1>2. ASSUME NEW c \in Convs PROVE (Backed(copied[c], c) /\ Backed(rows[c], c))'
  <2>1. treated \subseteq Requests /\ TreatedAreForwarded
    BY <1>0 DEF TypeOK, IInv
  <2>2. copied[c] \in Row /\ Backed(copied[c], c) /\ rows[c] \in Row /\ Backed(rows[c], c)
    BY <1>0 DEF IInv, TypeOK
  <2>3. Backed(copied[c], c)'
    BY <2>1, <2>2, BackedStays DEF Backed
  <2>4. Backed(rows[c], c)'
    BY <2>1, <2>2, BackedStays DEF Backed
  <2> QED  BY <2>3, <2>4
<1> QED  BY <1>1, <1>2 DEF IInv

\* A request is forwarded.
LEMMA ForwardStep == ASSUME IInv, NEW r \in Requests, Forward(r) PROVE IInv'
<1>0. TypeOK /\ TreatedAreForwarded
  BY DEF IInv
<1>1. PICK c \in Convs \cup {NoConv} : conv' = [conv EXCEPT ![r] = c]
  BY DEF Forward
<1>2. phase[r] = "new" /\ phase' = [phase EXCEPT ![r] = "forwarded"] /\ UNCHANGED <<list, copied, rows>>
  BY DEF Forward
<1>3. r \notin treated
  BY <1>0, <1>2 DEF TreatedAreForwarded
<1>4. treated' = treated \/ (treated' = treated \cup {r} /\ conv'[r] # NoConv)
  BY DEF Forward
<1>5. phase' \in [Requests -> Phases] /\ conv' \in [Requests -> Convs \cup {NoConv}]
  BY <1>0, <1>1, <1>2 DEF TypeOK, Phases
<1>6. sends' = sends \cup {[req |-> r, role |-> "request"]} /\ sends' \subseteq Entry
  BY <1>0 DEF Forward, TypeOK, Entry
<1>7. treated' \subseteq {x \in Requests : conv'[x] # NoConv}
  BY <1>0, <1>1, <1>3, <1>4 DEF TypeOK
<1>8. TypeOK'
  BY <1>0, <1>2, <1>5, <1>6, <1>7 DEF TypeOK, list
<1>9. OnlyAdds
  BY <1>0, <1>1, <1>2, <1>4 DEF OnlyAdds, TypeOK
<1>10. TreatedAreForwarded'
  BY <1>0, <1>2, <1>4 DEF TreatedAreForwarded, TypeOK
<1>11. \A e \in sends' : e \in sends \/ (phase'[e.req] # "new" /\ e.role # "response")
  BY <1>0, <1>2, <1>6 DEF TypeOK
<1> QED  BY <1>2, <1>8, <1>9, <1>10, <1>11, ProxyStep

\* It is answered, fails, or the proxy dies with it.
LEMMA AnswerStep ==
    ASSUME IInv, ProxyCrash \/ \E r \in Requests : Respond(r) \/ UpstreamError(r) PROVE IInv'
<1>0. TypeOK /\ TreatedAreForwarded
  BY DEF IInv
<1>1. UNCHANGED <<conv, treated, list, copied, rows>>
  BY DEF ProxyCrash, Respond, UpstreamError
<1>2. phase' \in [Requests -> Phases]
  BY <1>0 DEF ProxyCrash, Respond, UpstreamError, TypeOK, Phases
<1>3. \A r \in Requests : phase'[r] = phase[r] \/ (phase[r] = "forwarded" /\ phase'[r] \in {"failed", "answered", "empty"})
  BY <1>0 DEF ProxyCrash, Respond, UpstreamError, TypeOK
<1>4. OnlyAdds
  BY <1>1, <1>3 DEF OnlyAdds
<1>5. TreatedAreForwarded'
  BY <1>0, <1>1, <1>3 DEF TreatedAreForwarded, TypeOK
<1>6. sends' \subseteq Entry
  BY <1>0 DEF ProxyCrash, Respond, UpstreamError, TypeOK, Entry
<1>7. \A e \in sends' : e \in sends \/ phase'[e.req] \in {"answered", "empty"}
  <2>1. CASE ProxyCrash \/ \E r \in Requests : UpstreamError(r)
    BY <2>1 DEF ProxyCrash, UpstreamError
  <2>2. CASE \E r \in Requests : Respond(r)
    BY <1>0, <2>2 DEF Respond, TypeOK
  <2> QED  BY <2>1, <2>2
<1>8. TypeOK'
  BY <1>0, <1>1, <1>2, <1>6 DEF TypeOK, list
<1> QED  BY <1>1, <1>4, <1>5, <1>7, <1>8, ProxyStep

\* Steps that only write, lose or trim entries.
LEMMA LogStep ==
    ASSUME IInv, UNCHANGED <<phase, conv, treated, copied, rows>>,
           sends' \subseteq sends, log' \in Seq(Entry), resent' \in 0 .. MaxResent,
           \A i \in 1 .. Len(log') : log'[i] \in sends \cup {log[j] : j \in 1 .. Len(log)}
    PROVE  IInv'
<1>1. TypeOK'
  BY DEF IInv, TypeOK
<1>2. EntriesAreReal' /\ TreatedAreForwarded'
  BY DEF IInv, EntriesAreReal, TreatedAreForwarded
<1>3. (\A c \in Convs : Backed(copied[c], c) /\ Backed(rows[c], c))'
  BY DEF IInv, Backed
<1> QED  BY <1>1, <1>2, <1>3 DEF IInv

\* LPUSH: the new entry and the old ones.
LEMMA LogPushStep == ASSUME IInv, NEW e, LogPush(e) PROVE IInv'
<1>0. e \in Entry /\ e \in sends /\ log \in Seq(Entry) /\ Len(log) \in Nat
  BY DEF IInv, TypeOK, LogPush
<1>1. <<e>> \in Seq(Entry) /\ Len(<<e>>) = 1 /\ <<e>>[1] = e
  BY <1>0
<1>2. log' = <<e>> \o log
  BY DEF LogPush
<1>3. log' \in Seq(Entry) /\ Len(log') = 1 + Len(log)
      /\ \A i \in 1 .. 1 + Len(log) : log'[i] = IF i <= 1 THEN <<e>>[i] ELSE log[i - 1]
  BY <1>0, <1>1, <1>2, ConcatProperties
<1>4. \A i \in 1 .. Len(log') : log'[i] \in sends \cup {log[j] : j \in 1 .. Len(log)}
  <2> TAKE i \in 1 .. Len(log')
  <2>1. CASE i = 1
    BY <1>0, <1>1, <1>3, <2>1
  <2>2. CASE i # 1
    <3>1. i - 1 \in 1 .. Len(log) /\ log'[i] = log[i - 1]
      BY <1>0, <1>3, <2>2
    <3> QED  BY <3>1
  <2> QED  BY <2>1, <2>2
<1>5. sends' \subseteq sends /\ UNCHANGED <<phase, conv, treated, copied, rows>>
  BY DEF LogPush
<1>6. resent' \in 0 .. MaxResent
  BY DEF LogPush, IInv, TypeOK
<1> QED  BY <1>3, <1>4, <1>5, <1>6, LogStep

\* LTRIM: the newest of the entries.
LEMMA LogTrimStep == ASSUME IInv, LogTrim PROVE IInv'
<1>0. /\ log \in Seq(Entry) /\ Len(log) \in Nat /\ LogCap \in Nat /\ LogCap < Len(log) /\ 1 <= LogCap
      /\ \A i \in 1 .. Len(log) : log[i] \in Entry
  BY DEF IInv, TypeOK, LogTrim
<1>1. log' = SubSeq(log, 1, LogCap) /\ UNCHANGED <<phase, conv, treated, sends, resent, copied, rows>>
  BY DEF LogTrim
<1>2. \A i \in 1 .. LogCap : log[i] \in Entry
  BY <1>0
<1>3. /\ log' \in Seq(Entry) /\ Len(log') = LogCap
      /\ \A i \in 1 .. LogCap : log'[i] = log[i]
  <2>1. /\ SubSeq(log, 1, LogCap) \in Seq(Entry)
        /\ Len(SubSeq(log, 1, LogCap)) = IF 1 <= LogCap THEN LogCap - 1 + 1 ELSE 0
        /\ \A i \in 1 .. LogCap - 1 + 1 : SubSeq(log, 1, LogCap)[i] = log[1 + i - 1]
    BY <1>0, <1>2, SubSeqProperties
  <2> QED  BY <1>0, <1>1, <2>1
<1>4. \A i \in 1 .. Len(log') : log'[i] \in sends \cup {log[j] : j \in 1 .. Len(log)}
  BY <1>0, <1>3
<1>5. resent' \in 0 .. MaxResent
  BY <1>1 DEF IInv, TypeOK
<1> QED  BY <1>1, <1>3, <1>4, <1>5, LogStep

\* Steps of copyLogs: rows come from pairs, pairs from the list.
LEMMA CopyStep ==
    ASSUME IInv, UNCHANGED <<phase, conv, treated, sends, list>>,
           copied' \in [Convs -> Row], rows' \in [Convs -> Row],
           \A c \in Convs : copied'[c] \in {copied[c], ReadConversationLogs[c], NoRow},
           \A c \in Convs : rows'[c] \in {rows[c], copied[c]}
    PROVE  IInv'
<1>1. TypeOK'
  BY DEF IInv, TypeOK, list
<1>2. EntriesAreReal' /\ TreatedAreForwarded'
  BY DEF IInv, EntriesAreReal, TreatedAreForwarded, list
<1>3. ASSUME NEW c \in Convs PROVE (Backed(copied[c], c) /\ Backed(rows[c], c))'
  <2>1. Backed(ReadConversationLogs[c], c) /\ Backed(copied[c], c) /\ Backed(rows[c], c)
    BY PairsAreBacked DEF IInv
  <2>2. Backed(NoRow, c)
    BY DEF Backed, NoRow
  <2> DEFINE u == copied'[c]
             w == rows'[c]
  <2>3. Backed(u, c) /\ Backed(w, c)
    BY <2>1, <2>2
  <2> QED  BY <2>3 DEF Backed
<1> QED  BY <1>1, <1>2, <1>3 DEF IInv

\* A pass of copyLogs, and its end.
LEMMA CopyingStep == ASSUME IInv, Copying \/ OptimizerCrash PROVE IInv'
<1>0. copied \in [Convs -> Row] /\ rows \in [Convs -> Row] /\ NoRow \in Row
  BY DEF IInv, TypeOK, NoRow, Row, Part
<1>1. CASE CopyRead
  <2>1. \A c \in Convs : ReadConversationLogs[c] \in Row
    BY PairsAreBacked
  <2> QED  BY <1>0, <1>1, <2>1, CopyStep DEF CopyRead
<1>2. CASE \E c \in Convs : CopyInsert(c)
  <2>1. PICK c \in Convs : CopyInsert(c)
    BY <1>2
  <2>2. copied' = [copied EXCEPT ![c] = NoRow] /\ UNCHANGED <<phase, conv, treated, sends, list>>
    BY <2>1 DEF CopyInsert
  <2>3. rows' \in {rows, [rows EXCEPT ![c] = copied[c]]}
    BY <2>1 DEF CopyInsert, InsertConversationLog
  <2>4. rows' \in [Convs -> Row] /\ \A x \in Convs : rows'[x] \in {rows[x], copied[x]}
    BY <1>0, <2>3
  <2> QED  BY <1>0, <2>2, <2>4, CopyStep
<1>3. CASE OptimizerCrash \/ \E c \in Convs : CopyInsertFails(c)
  <2>1. UNCHANGED <<phase, conv, treated, sends, list, rows>>
    BY <1>3 DEF OptimizerCrash, CopyInsertFails
  <2>2. copied' \in [Convs -> Row] /\ \A c \in Convs : copied'[c] \in {copied[c], NoRow}
    BY <1>0, <1>3 DEF OptimizerCrash, CopyInsertFails, Empty
  <2> QED  BY <1>0, <2>1, <2>2, CopyStep
<1> QED  BY <1>1, <1>2, <1>3 DEF Copying

-----------------------------------------------------------------------------
(* Theorems *)

\* The invariant is inductive, so every reachable state satisfies it.
THEOREM Inductive == Spec => []IInv
<1>1. Init => IInv
  <2> SUFFICES ASSUME Init PROVE IInv
    OBVIOUS
  <2>1. TypeOK
    BY DEF Init, TypeOK, Phases, Empty, NoRow, Row, Part
  <2>2. EntriesAreReal /\ TreatedAreForwarded
    BY DEF Init, EntriesAreReal, TreatedAreForwarded
  <2>3. \A c \in Convs : Backed(copied[c], c) /\ Backed(rows[c], c)
    BY DEF Init, Backed, Empty, NoRow
  <2> QED  BY <2>1, <2>2, <2>3 DEF IInv
<1>2. IInv /\ [Next]_vars => IInv'
  <2> SUFFICES ASSUME IInv, [Next]_vars PROVE IInv'
    OBVIOUS
  <2>0. log \in Seq(Entry) /\ resent \in 0 .. MaxResent
    BY DEF IInv, TypeOK
  <2>1. CASE \E r \in Requests : Forward(r)
    BY <2>1, ForwardStep
  <2>2. CASE ProxyCrash \/ \E r \in Requests : Respond(r) \/ UpstreamError(r)
    BY <2>2, AnswerStep
  <2>3. CASE LogTrim \/ \E e \in Entry : LogPush(e)
    BY <2>3, LogPushStep, LogTrimStep
  <2>4. CASE \E e \in Entry : LogWriteFails(e)
    BY <2>0, <2>4, LogStep DEF LogWriteFails, list
  <2>5. CASE LogLost
    BY <2>0, <2>5, LogStep DEF LogLost
  <2>6. CASE Copying \/ OptimizerCrash
    BY <2>6, CopyingStep
  <2>7. CASE UNCHANGED vars
    BY <2>0, <2>7, LogStep DEF vars, list
  <2> QED  BY <2>1, <2>2, <2>3, <2>4, <2>5, <2>6, <2>7 DEF Next, Proxy, Logging
<1> QED  BY <1>1, <1>2, PTL DEF Spec

\* The types hold in every reachable state, and only extracted prompts are treated.
THEOREM TypeCorrect == Spec => []TypeOK
<1>1. IInv => TypeOK
  BY DEF IInv
<1> QED  BY <1>1, Inductive, PTL

\* For a list of any length, the loop of ReadConversationLogs pairs, for every
\* conversation, the newest prompt, response and variant.
THEOREM PairingIsNewest == Spec => []PairsAreNewest
<1>1. TypeOK => PairsAreNewest
  BY LoopTakesNewest
<1> QED  BY <1>1, TypeCorrect, PTL

\* A stored row speaks of its own conversation only, whatever the goroutines'
\* order, the trimming and the failures.
THEOREM RowsAreBacked == Spec => []RowsFromTheirConversation
<1>1. IInv => RowsFromTheirConversation
  BY DEF IInv, RowsFromTheirConversation, Backed
<1> QED  BY <1>1, Inductive, PTL

=============================================================================
