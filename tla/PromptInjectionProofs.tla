----------------------- MODULE PromptInjectionProofs -----------------------
(***************************************************************************)
(* Proofs, for every set of requests, LLM answers, faults and sizes, that  *)
(* templates and variants keep their types, that a stored template is part *)
(* of a prompt some client wrote, that the prompts it was inferred from    *)
(* stay injectable, and that a graft replaces one segment of the template  *)
(* and leaves the rest of the prompt, but for a character it cuts.         *)
(***************************************************************************)
EXTENDS PromptInjection, InductionLemmas, SequenceTheorems

-----------------------------------------------------------------------------
(* Texts and their parts *)

\* The pieces of a text.
LEMMA SeqFacts ==
    ASSUME NEW A, NEW t \in Seq(A)
    PROVE  Len(t) \in Nat /\ DOMAIN t = 1 .. Len(t) /\ \A k \in 1 .. Len(t) : t[k] \in A
OBVIOUS

\* A part of a text, piece by piece.
LEMMA PartFacts ==
    ASSUME NEW A, NEW t \in Seq(A), NEW i \in 1 .. Len(t) + 1, NEW j \in i - 1 .. Len(t)
    PROVE  /\ SubSeq(t, i, j) \in Seq(A)
           /\ Len(SubSeq(t, i, j)) = j - i + 1
           /\ \A k \in 1 .. j - i + 1 : SubSeq(t, i, j)[k] = t[i + k - 1]
<1>1. Len(t) \in Nat
  OBVIOUS
<1>2. i \in Nat /\ j \in Nat /\ 1 <= i /\ j <= Len(t) /\ i - 1 <= j
  BY <1>1
<1>3. ASSUME NEW k \in i .. j PROVE t[k] \in A
  BY <1>2, <1>3
<1>4. SubSeq(t, i, j) = [k \in 1 .. j - i + 1 |-> t[i + k - 1]]
  BY <1>2
<1> QED  BY <1>2, <1>3, <1>4

\* Two texts are the same if they are as long and the same piece by piece.
LEMMA SameText ==
    ASSUME NEW A, NEW s \in Seq(A), NEW B, NEW t \in Seq(B), Len(s) = Len(t), \A k \in 1 .. Len(s) : s[k] = t[k]
    PROVE  s = t
BY SeqFacts

\* Where a text occurs in another, piece by piece.
LEMMA OccursAt ==
    ASSUME NEW A, NEW s \in Seq(A), NEW t \in Seq(A), NEW i \in 0 .. Len(t) - Len(s)
    PROVE  SubSeq(t, i + 1, i + Len(s)) = s <=> \A k \in 1 .. Len(s) : t[i + k] = s[k]
<1> DEFINE m == Len(s)
           n == Len(t)
           u == SubSeq(t, i + 1, i + m)
<1>1. m \in Nat /\ n \in Nat
  OBVIOUS
<1>2. i + 1 \in 1 .. n + 1 /\ i + m \in i + 1 - 1 .. n /\ i + m - (i + 1) + 1 = m /\ \A k \in 1 .. m : (i + 1) + k - 1 = i + k
  BY <1>1
<1>3. u \in Seq(A) /\ Len(u) = m /\ \A k \in 1 .. m : u[k] = t[i + k]
  BY <1>2, PartFacts
<1> HIDE DEF u
<1>4. (\A k \in 1 .. m : t[i + k] = s[k]) => u = s
  BY <1>3, SameText
<1> QED  BY <1>3, <1>4 DEF u

\* A part occurs in its text.
LEMMA PartOccurs ==
    ASSUME NEW A, NEW t \in Seq(A), NEW i \in 1 .. Len(t) + 1, NEW j \in i - 1 .. Len(t)
    PROVE  Occurs(SubSeq(t, i, j), t)
<1> DEFINE s == SubSeq(t, i, j)
<1>1. Len(t) \in Nat /\ s \in Seq(A) /\ Len(s) = j - i + 1
  BY PartFacts, SeqFacts
<1>2. i - 1 \in 0 .. Len(t) - Len(s) /\ (i - 1) + 1 = i /\ (i - 1) + Len(s) = j
  BY <1>1
<1> QED  BY <1>2 DEF Occurs

\* What occurs in a part occurs in the whole.
LEMMA OccursTransitive ==
    ASSUME NEW A, NEW r \in Seq(A), NEW s \in Seq(A), NEW t \in Seq(A), Occurs(r, s), Occurs(s, t)
    PROVE  Occurs(r, t)
<1>0. Len(r) \in Nat /\ Len(s) \in Nat /\ Len(t) \in Nat
  BY SeqFacts
<1>1. PICK i \in 0 .. Len(s) - Len(r) : \A k \in 1 .. Len(r) : s[i + k] = r[k]
  <2>1. PICK i \in 0 .. Len(s) - Len(r) : SubSeq(s, i + 1, i + Len(r)) = r
    BY DEF Occurs
  <2>2. \A k \in 1 .. Len(r) : s[i + k] = r[k]
    BY <2>1, OccursAt
  <2> QED  BY <2>2
<1>2. PICK j \in 0 .. Len(t) - Len(s) : \A k \in 1 .. Len(s) : t[j + k] = s[k]
  <2>1. PICK j \in 0 .. Len(t) - Len(s) : SubSeq(t, j + 1, j + Len(s)) = s
    BY DEF Occurs
  <2>2. \A k \in 1 .. Len(s) : t[j + k] = s[k]
    BY <2>1, OccursAt
  <2> QED  BY <2>2
<1> DEFINE h == j + i
<1>3. h \in 0 .. Len(t) - Len(r)
  BY <1>0
<1>4. ASSUME NEW k \in 1 .. Len(r) PROVE t[h + k] = r[k]
  <2>1. i + k \in 1 .. Len(s) /\ j + (i + k) = h + k
    BY <1>0
  <2> QED  BY <1>1, <1>2, <2>1
<1> HIDE DEF h
<1>5. SubSeq(t, h + 1, h + Len(r)) = r
  BY <1>3, <1>4, OccursAt
<1> QED  BY <1>3, <1>5 DEF Occurs

\* A prefix occurs where the text begins.
LEMMA PrefixOccurs ==
    ASSUME NEW A, NEW s \in Seq(A), NEW t \in Seq(A), IsPrefix(s, t)
    PROVE  Occurs(s, t) /\ Len(s) <= Len(t) /\ \A k \in 1 .. Len(s) : t[k] = s[k]
<1>0. Len(s) \in Nat /\ Len(t) \in Nat /\ Len(s) <= Len(t) /\ SubSeq(s, 1, Len(s)) = SubSeq(t, 1, Len(s))
  BY DEF IsPrefix
<1>1. SubSeq(s, 1, Len(s)) = s
  BY <1>0
<1>2. 0 \in 0 .. Len(t) - Len(s) /\ 0 + 1 = 1 /\ 0 + Len(s) = Len(s)
  BY <1>0
<1>3. SubSeq(t, 0 + 1, 0 + Len(s)) = s
  BY <1>0, <1>1, <1>2
<1>4. \A k \in 1 .. Len(s) : t[0 + k] = s[k]
  BY <1>2, <1>3, OccursAt
<1>5. \A k \in 1 .. Len(s) : 0 + k = k
  BY <1>0
<1> QED  BY <1>0, <1>2, <1>3, <1>4, <1>5 DEF Occurs

-----------------------------------------------------------------------------
(* TrimSpace *)

\* No continuation is without its lead, though a lead may have been cut off its
\* continuation: the beginning of a valid text.
LeftValid(t) == \A k \in 1 .. Len(t) : t[k] \in Conts => k > 1 /\ t[k - 1] \in Leads

\* TrimSpace cuts out a part that has no gap at either end, and does so once.  It
\* cuts no continuation off its lead.
LEMMA TrimFacts ==
    ASSUME NEW A, NEW t \in Seq(A)
    PROVE  /\ TrimSpace(t) \in Seq(A)
           /\ IsTrimmed(TrimSpace(t))
           /\ Occurs(TrimSpace(t), t)
           /\ LeftValid(t) => LeftValid(TrimSpace(t))
<1>0. Len(t) \in Nat /\ DOMAIN t = 1 .. Len(t)
  BY SeqFacts
<1>1. CASE Words(t) = {}
  <2>1. TrimSpace(t) = Empty /\ Empty \in Seq(A) /\ Len(Empty) = 0
    BY <1>1 DEF TrimSpace, Empty
  <2>2. Words(Empty) = {}
    BY DEF Words, Empty
  <2>3. TrimSpace(Empty) = Empty
    BY <2>2 DEF TrimSpace
  <2>4. 0 \in 0 .. Len(t) - Len(Empty) /\ \A k \in 1 .. Len(Empty) : t[0 + k] = Empty[k]
    BY <1>0, <2>1
  <2>5. SubSeq(t, 0 + 1, 0 + Len(Empty)) = Empty
    BY <2>1, <2>4, OccursAt
  <2>6. Occurs(Empty, t)
    BY <2>4, <2>5 DEF Occurs
  <2>7. LeftValid(Empty)
    BY <2>1 DEF LeftValid
  <2> QED  BY <2>1, <2>3, <2>6, <2>7 DEF IsTrimmed
<1>2. CASE Words(t) # {}
  <2> DEFINE W == Words(t)
             i == CHOOSE x \in W : \A y \in W : x <= y
             j == CHOOSE x \in W : \A y \in W : x >= y
             u == SubSeq(t, i, j)
  <2>1. W \in SUBSET Nat /\ W \in SUBSET Int /\ W # {} /\ \A y \in W : y <= Len(t)
    BY <1>0, <1>2 DEF Words
  <2>2. TrimSpace(t) = u
    BY <1>2 DEF TrimSpace
  <2>3. i \in W /\ \A y \in W : i <= y
    <3> HIDE DEF W
    <3>1. \E x \in W : \A y \in W : x <= y
      BY <2>1, LeastNat
    <3> QED  BY <3>1
  <2>4. j \in W /\ \A y \in W : j >= y
    <3> HIDE DEF W
    <3> DEFINE b == Len(t)
    <3>1. b \in Int /\ \A y \in W : y <= b
      BY <1>0, <2>1
    <3> HIDE DEF b
    <3>2. \E x \in W : \A y \in W : x >= y
      BY <2>1, <3>1, GreatestInt
    <3> QED  BY <3>2
  <2> HIDE DEF i, j
  <2>5. i \in 1 .. Len(t) + 1 /\ j \in i - 1 .. Len(t) /\ i \in Nat /\ j \in Nat /\ i <= j /\ i >= 1
    BY <1>0, <2>1, <2>3, <2>4 DEF Words
  <2>6. t[i] \notin Gaps /\ t[j] \notin Gaps
    BY <2>3, <2>4 DEF Words
  <2> DEFINE n == j - i + 1
  <2>7. u \in Seq(A) /\ Len(u) = n /\ \A k \in 1 .. n : u[k] = t[i + k - 1]
    BY <2>5, PartFacts
  <2>8. Occurs(u, t)
    BY <2>5, PartOccurs
  <2>9. n \in Nat /\ 1 \in 1 .. n /\ n \in 1 .. n /\ i + 1 - 1 = i /\ i + n - 1 = j
    BY <2>5
  <2> HIDE DEF u, n
  <2>10. DOMAIN u = 1 .. n /\ u[1] \notin Gaps /\ u[n] \notin Gaps
    BY <2>6, <2>7, <2>9
  <2>11. Words(u) # {} /\ 1 \in Words(u) /\ n \in Words(u) /\ \A y \in Words(u) : y \in 1 .. n
    BY <2>9, <2>10 DEF Words
  <2>12. \A x \in Words(u) : (\A y \in Words(u) : x <= y) <=> x = 1
    BY <2>9, <2>11
  <2>13. \A x \in Words(u) : (\A y \in Words(u) : x >= y) <=> x = n
    BY <2>9, <2>11
  <2>14. (CHOOSE x \in Words(u) : \A y \in Words(u) : x <= y) = 1
    BY <2>11, <2>12
  <2>15. (CHOOSE x \in Words(u) : \A y \in Words(u) : x >= y) = n
    BY <2>11, <2>13
  <2>16. TrimSpace(u) = SubSeq(u, 1, n)
    BY <2>11, <2>14, <2>15 DEF TrimSpace
  <2>17. SubSeq(u, 1, n) = u
    BY <2>7, <2>9
  <2>18. ASSUME LeftValid(t) PROVE LeftValid(u)
    <3> SUFFICES ASSUME NEW k \in 1 .. n, u[k] \in Conts PROVE k > 1 /\ u[k - 1] \in Leads
      BY <2>7 DEF LeftValid
    <3> DEFINE l == i + k - 1
    <3>1. l \in 1 .. Len(t) /\ k \in Nat
      BY <1>0, <2>5 DEF n
    <3>2. t[l] \in Conts
      BY <2>7
    <3>3. l > 1 /\ t[l - 1] \in Leads
      BY <2>18, <3>1, <3>2 DEF LeftValid
    <3>4. k > 1
      <4> SUFFICES ASSUME k = 1 PROVE FALSE
        BY <3>1
      <4>1. l = i /\ l - 1 \in 1 .. Len(t)
        BY <1>0, <2>5, <3>1, <3>3
      <4>2. t[i - 1] \notin Gaps
        BY <3>3, <4>1, InjectionAssumption
      <4>3. i - 1 \in W
        BY <1>0, <4>1, <4>2 DEF Words
      <4>4. i <= i - 1
        BY <2>3, <4>3
      <4> QED  BY <2>5, <4>4
    <3>5. k - 1 \in 1 .. n /\ i + (k - 1) - 1 = l - 1
      BY <2>5, <2>9, <3>1, <3>4
    <3> QED  BY <2>7, <3>3, <3>4, <3>5
  <2> QED  BY <2>2, <2>7, <2>8, <2>16, <2>17, <2>18 DEF IsTrimmed
<1> QED  BY <1>1, <1>2

-----------------------------------------------------------------------------
(* CutAt, Fields, Join *)

\* The cuts CutAt goes through.
Cuts(C, t) ==
    CHOOSE cut : cut = [k \in 0 .. Len(t) |->
        IF k = 0 THEN <<Empty>>
        ELSE IF t[k] \in C THEN Append(cut[k - 1], Empty)
        ELSE [cut[k - 1] EXCEPT ![Len(cut[k - 1])] = Append(@, t[k])]]

\* A text is cut into texts.
LEMMA CutAtType ==
    ASSUME NEW A, NEW C, NEW t \in Seq(A) PROVE CutAt(C, t) \in Seq(Seq(A))
<1> DEFINE N == Len(t)
           V == Seq(Seq(A)) \ {<<>>}
           Longer(ws, k) == IF t[k] \in C THEN Append(ws, Empty) ELSE [ws EXCEPT ![Len(ws)] = Append(@, t[k])]
           F == [k \in 1 .. N |-> [ws \in V |-> Longer(ws, k)]]
           Loop(g) == [k \in 0 .. N |-> IF k = 0 THEN <<Empty>> ELSE Longer(g[k - 1], k)]
<1>0. N \in Nat /\ \A k \in 1 .. N : t[k] \in A
  BY SeqFacts
<1>1. ASSUME NEW k \in 1 .. N, NEW ws \in V PROVE Longer(ws, k) \in V
  <2>1. ws \in Seq(Seq(A)) /\ ws # <<>> /\ Empty \in Seq(A)
    BY DEF Empty
  <2>2. CASE t[k] \in C
    <3> DEFINE B == Seq(A)
    <3>1. ws \in Seq(B) /\ Empty \in B
      BY <2>1
    <3> HIDE DEF B
    <3>2. Append(ws, Empty) \in Seq(B) /\ Append(ws, Empty) # <<>>
      BY <3>1, AppendProperties
    <3> QED  BY <2>2, <3>2 DEF B
  <2>3. CASE t[k] \notin C
    <3> DEFINE n == Len(ws)
    <3>1. n \in Nat /\ n # 0 /\ DOMAIN ws = 1 .. n
      BY <2>1
    <3>2. n \in 1 .. n /\ ws[n] \in Seq(A) /\ t[k] \in A
      BY <1>0, <2>1, <3>1
    <3>3. Append(ws[n], t[k]) \in Seq(A)
      BY <3>2, AppendProperties
    <3> DEFINE x == Append(ws[n], t[k])
    <3> HIDE DEF n, x
    <3>4. [ws EXCEPT ![n] = x] \in Seq(Seq(A)) /\ Len([ws EXCEPT ![n] = x]) = n
      BY <2>1, <3>1, <3>2, <3>3 DEF x, n
    <3>5. [ws EXCEPT ![n] = x] # <<>>
      BY <3>1, <3>4
    <3> QED  BY <2>3, <3>4, <3>5 DEF n, x
  <2> QED  BY <2>2, <2>3
<1>2. <<Empty>> \in V
  BY DEF Empty
<1>3. F \in [1 .. N -> [V -> V]]
  BY <1>1
<1>4. PICK g \in [0 .. N -> V] : g[0] = <<Empty>> /\ \A k \in 1 .. N : g[k] = F[k][g[k - 1]]
  <2> DEFINE start == <<Empty>>
  <2> HIDE DEF V, F, N, start
  <2>1. start \in V /\ N \in Nat
    BY <1>0, <1>2 DEF start
  <2>2. \E g \in [0 .. N -> V] : g[0] = start /\ \A k \in 1 .. N : g[k] = F[k][g[k - 1]]
    BY ONLY <1>3, <2>1, IntervalRecursion
  <2> QED  BY <2>2 DEF start
<1> HIDE DEF V, Longer
<1>5. \A k \in 1 .. N : g[k] = Longer(g[k - 1], k)
  <2> TAKE k \in 1 .. N
  <2>1. k - 1 \in 0 .. N
    BY <1>0
  <2>2. g[k - 1] \in V
    BY <2>1
  <2> QED  BY <1>4, <2>2
<1>6. g = Loop(g)
  <2>1. \A k \in 0 .. N : k # 0 => k \in 1 .. N
    BY <1>0
  <2> HIDE DEF N
  <2> QED  BY <1>4, <1>5, <2>1
<1> DEFINE h == Cuts(C, t)
<1>7. h = Loop(h)
  <2>1. h = CHOOSE f : f = Loop(f)
    BY DEF Cuts, Longer
  <2> HIDE DEF h, Loop
  <2> QED  BY <1>6, <2>1
<1>8. CutAt(C, t) = h[N]
  BY DEF CutAt, Cuts
<1> HIDE DEF h
<1>9. h[0] = <<Empty>> /\ \A k \in 1 .. N : h[k] = Longer(h[k - 1], k)
  <2>1. 0 \in 0 .. N /\ \A k \in 1 .. N : k \in 0 .. N /\ k # 0
    BY <1>0
  <2> HIDE DEF N
  <2> QED  BY <1>7, <2>1
<1> DEFINE S == {k \in Nat : k <= N => h[k] \in V}
<1>10. 0 \in S
  BY <1>2, <1>9
<1>11. ASSUME NEW k \in Nat, k \in S PROVE k + 1 \in S
  <2> SUFFICES ASSUME k + 1 <= N PROVE h[k + 1] \in V
    OBVIOUS
  <2>1. h[k] \in V /\ k + 1 \in 1 .. N /\ (k + 1) - 1 = k
    BY <1>0, <1>11
  <2> QED  BY <1>1, <1>9, <2>1
<1>12. Nat \subseteq S
  <2> HIDE DEF S
  <2> QED  BY <1>10, <1>11, SetInduction
<1>13. h[N] \in V
  BY <1>0, <1>12
<1> QED  BY <1>8, <1>13 DEF V

\* The words Fields has collected after each piece.
WordsSoFar(t) ==
    CHOOSE words : words = [k \in 0 .. Len(t) |->
        IF k = 0 THEN <<>>
        ELSE IF t[k] \in Gaps THEN words[k - 1]
        ELSE IF k = 1 \/ t[k - 1] \in Gaps THEN Append(words[k - 1], <<t[k]>>)
        ELSE [words[k - 1] EXCEPT ![Len(words[k - 1])] = Append(@, t[k])]]

\* The texts that have a piece, made of pieces of A.
NonEmpty(A) == Seq(A) \ {Empty}

\* Those that begin with a piece of H.
Starting(A, H) == {w \in NonEmpty(A) : w[1] \in H}
WordsStartIn(t, H) == \A k \in Words(t) : (k = 1 \/ t[k - 1] \in Gaps) => t[k] \in H

\* Fields returns words that are not empty, consist of pieces of the text and begin
\* where it has its first piece or one after a gap.
LEMMA FieldsType ==
    ASSUME NEW A, NEW H, NEW t \in Seq(A), WordsStartIn(t, H) PROVE Fields(t) \in Seq(Starting(A, H))
<1> DEFINE N == Len(t)
           B == Starting(A, H)
           V == Seq(B)
           Longer(ws, k) == IF t[k] \in Gaps THEN ws
                            ELSE IF k = 1 \/ t[k - 1] \in Gaps THEN Append(ws, <<t[k]>>)
                            ELSE [ws EXCEPT ![Len(ws)] = Append(@, t[k])]
           F == [k \in 1 .. N |-> [ws \in V |-> Longer(ws, k)]]
           Loop(g) == [k \in 0 .. N |-> IF k = 0 THEN <<>> ELSE Longer(g[k - 1], k)]
<1>0. N \in Nat /\ \A k \in 1 .. N : t[k] \in A
  BY SeqFacts
<1>1. ASSUME NEW k \in 1 .. N, NEW ws \in V PROVE Longer(ws, k) \in V
  <2>1. CASE t[k] \in Gaps
    BY <2>1
  <2>2. CASE t[k] \notin Gaps /\ (k = 1 \/ t[k - 1] \in Gaps)
    <3>0. t[k] \in H
      <4>1. k \in Words(t)
        BY <2>2, SeqFacts DEF Words
      <4> QED  BY <2>2, <4>1 DEF WordsStartIn
    <3>1. <<t[k]>> \in B
      BY <1>0, <3>0 DEF NonEmpty, Empty, Starting
    <3>2. Append(ws, <<t[k]>>) \in Seq(B)
      <4> DEFINE w == <<t[k]>>
      <4> HIDE DEF B, w
      <4>1. w \in B
        BY <3>1 DEF w
      <4>2. Append(ws, w) \in Seq(B)
        BY <4>1, AppendProperties
      <4> QED  BY <4>2 DEF w
    <3> QED  BY <2>2, <3>2
  <2>3. CASE t[k] \notin Gaps /\ ~(k = 1 \/ t[k - 1] \in Gaps)
    <3> DEFINE n == Len(ws)
               x == Append(ws[n], t[k])
    <3>1. n \in Nat /\ DOMAIN ws = 1 .. n /\ \A j \in 1 .. n : ws[j] \in B
      <4> HIDE DEF B
      <4> QED  BY SeqFacts
    <3>2. n \in 1 .. n => x \in B
      <4> SUFFICES ASSUME n \in 1 .. n PROVE x \in B
        OBVIOUS
      <4>1. ws[n] \in Seq(A) /\ t[k] \in A /\ ws[n] # <<>> /\ ws[n][1] \in H
        <5>1. ws[n] \in B
          <6> HIDE DEF B, n
          <6> QED  BY <3>1
        <5> QED  BY <1>0, <5>1 DEF NonEmpty, Empty, Starting
      <4> DEFINE w == ws[n]
      <4> HIDE DEF w
      <4>2. x \in Seq(A) /\ x # <<>> /\ Len(x) = Len(w) + 1 /\ \A j \in 1 .. Len(w) : x[j] = w[j]
        <5>1. w \in Seq(A) /\ t[k] \in A
          BY <4>1 DEF w
        <5>2. /\ Append(w, t[k]) \in Seq(A) /\ Append(w, t[k]) # <<>>
              /\ Len(Append(w, t[k])) = Len(w) + 1
              /\ \A j \in 1 .. Len(w) : Append(w, t[k])[j] = w[j]
          BY <5>1, AppendProperties
        <5> QED  BY <5>2 DEF w
      <4>3. 1 \in 1 .. Len(w)
        <5>1. w \in Seq(A) /\ w # <<>>
          BY <4>1 DEF w
        <5>2. Len(w) \in Nat \ {0}
          BY <5>1, EmptySeq
        <5> QED  BY <5>2
      <4>4. x[1] \in H
        BY <4>1, <4>2, <4>3 DEF w
      <4> QED  BY <4>2, <4>4 DEF NonEmpty, Empty, Starting
    <3> HIDE DEF n, x, B
    <3>3. [ws EXCEPT ![n] = x] \in Seq(B)
      <4>1. [ws EXCEPT ![n] = x] = [j \in 1 .. n |-> IF j = n THEN x ELSE ws[j]]
        BY <3>1
      <4>2. \A j \in 1 .. n : (IF j = n THEN x ELSE ws[j]) \in B
        BY <3>1, <3>2
      <4>3. [j \in 1 .. n |-> IF j = n THEN x ELSE ws[j]] \in [1 .. n -> B]
        BY <4>2
      <4>4. [1 .. n -> B] \subseteq Seq(B)
        BY <3>1
      <4> QED  BY <4>1, <4>3, <4>4
    <3> QED  BY <2>3, <3>3 DEF n, x
  <2> QED  BY <2>1, <2>2, <2>3
<1>2. <<>> \in V
  OBVIOUS
<1>3. F \in [1 .. N -> [V -> V]]
  BY <1>1
<1>4. PICK g \in [0 .. N -> V] : g[0] = <<>> /\ \A k \in 1 .. N : g[k] = F[k][g[k - 1]]
  <2> DEFINE start == <<>>
  <2> HIDE DEF V, F, N, start
  <2>1. start \in V /\ N \in Nat
    BY <1>0, <1>2 DEF start
  <2>2. \E g \in [0 .. N -> V] : g[0] = start /\ \A k \in 1 .. N : g[k] = F[k][g[k - 1]]
    BY ONLY <1>3, <2>1, IntervalRecursion
  <2> QED  BY <2>2 DEF start
<1> HIDE DEF V, Longer
<1>5. \A k \in 1 .. N : g[k] = Longer(g[k - 1], k)
  <2> TAKE k \in 1 .. N
  <2>1. k - 1 \in 0 .. N
    BY <1>0
  <2>2. g[k - 1] \in V
    BY <2>1
  <2> QED  BY <1>4, <2>2
<1>6. g = Loop(g)
  <2>1. \A k \in 0 .. N : k # 0 => k \in 1 .. N
    BY <1>0
  <2> HIDE DEF N
  <2> QED  BY <1>4, <1>5, <2>1
<1> DEFINE h == WordsSoFar(t)
<1>7. h = Loop(h)
  <2>1. h = CHOOSE f : f = Loop(f)
    BY DEF WordsSoFar, Longer
  <2> HIDE DEF h, Loop
  <2> QED  BY <1>6, <2>1
<1>8. Fields(t) = h[N]
  BY DEF Fields, WordsSoFar
<1> HIDE DEF h
<1>9. h[0] = <<>> /\ \A k \in 1 .. N : h[k] = Longer(h[k - 1], k)
  <2>1. 0 \in 0 .. N /\ \A k \in 1 .. N : k \in 0 .. N /\ k # 0
    BY <1>0
  <2> HIDE DEF N
  <2> QED  BY <1>7, <2>1
<1> DEFINE S == {k \in Nat : k <= N => h[k] \in V}
<1>10. 0 \in S
  BY <1>2, <1>9
<1>11. ASSUME NEW k \in Nat, k \in S PROVE k + 1 \in S
  <2> SUFFICES ASSUME k + 1 <= N PROVE h[k + 1] \in V
    OBVIOUS
  <2>1. h[k] \in V /\ k + 1 \in 1 .. N /\ (k + 1) - 1 = k
    BY <1>0, <1>11
  <2> QED  BY <1>1, <1>9, <2>1
<1>12. Nat \subseteq S
  <2> HIDE DEF S
  <2> QED  BY <1>10, <1>11, SetInduction
<1>13. h[N] \in V
  BY <1>0, <1>12
<1> QED  BY <1>8, <1>13 DEF V

\* What Join has put together after each word.
JoinedSoFar(ws) ==
    CHOOSE joined : joined = [k \in 0 .. Len(ws) |->
        IF k = 0 THEN Empty
        ELSE IF k = 1 THEN ws[1]
        ELSE joined[k - 1] \o <<Space>> \o ws[k]]

\* Words joined make a text of their pieces and spaces, which begins as they do.
LEMMA JoinType ==
    ASSUME NEW A, NEW H, Space \in A, NEW ws \in Seq(Starting(A, H))
    PROVE  Join(ws) \in Seq(A) /\ (Len(ws) > 0 => Join(ws) \in Starting(A, H))
<1> DEFINE N == Len(ws)
           V == Seq(A)
           Q == Starting(A, H)
           Longer(s, k) == IF k = 1 THEN ws[1] ELSE s \o <<Space>> \o ws[k]
           F == [k \in 1 .. N |-> [s \in V |-> Longer(s, k)]]
           Loop(g) == [k \in 0 .. N |-> IF k = 0 THEN Empty ELSE Longer(g[k - 1], k)]
<1>0. N \in Nat /\ \A k \in 1 .. N : ws[k] \in Q /\ ws[k] \in Seq(A)
  <2> HIDE DEF Q
  <2>1. N \in Nat /\ \A k \in 1 .. N : ws[k] \in Q
    BY SeqFacts DEF Q
  <2> USE DEF Q
  <2> QED  BY <2>1 DEF Starting, NonEmpty
<1> HIDE DEF Q
<1>1. ASSUME NEW k \in 1 .. N, NEW s \in V
      PROVE  Longer(s, k) \in V /\ (k = 1 \/ s \in Q => Longer(s, k) \in Q)
  <2>1. CASE k = 1
    BY <1>0, <2>1
  <2>2. CASE k # 1
    <3> DEFINE x == s \o <<Space>>
               y == x \o ws[k]
    <3>1. <<Space>> \in Seq(A) /\ Len(<<Space>>) = 1
      OBVIOUS
    <3>2. x \in Seq(A) /\ Len(x) = Len(s) + 1 /\ \A j \in 1 .. Len(s) : x[j] = s[j]
      <4>1. /\ x \in Seq(A) /\ Len(x) = Len(s) + Len(<<Space>>)
            /\ \A j \in 1 .. Len(s) + Len(<<Space>>) : x[j] =
                  IF j <= Len(s) THEN s[j] ELSE <<Space>>[j - Len(s)]
        BY <3>1, ConcatProperties
      <4>2. Len(s) \in Nat
        BY SeqFacts
      <4> HIDE DEF x
      <4>3. \A j \in 1 .. Len(s) : j \in 1 .. Len(s) + 1 /\ j <= Len(s)
        BY <4>2
      <4> QED  BY <3>1, <4>1, <4>3
    <3>3. ws[k] \in Seq(A)
      BY <1>0
    <3> HIDE DEF x
    <3>4. /\ y \in Seq(A) /\ Len(y) = Len(x) + Len(ws[k])
          /\ \A j \in 1 .. Len(x) + Len(ws[k]) : y[j] = IF j <= Len(x) THEN x[j] ELSE ws[k][j - Len(x)]
      BY <3>2, <3>3, ConcatProperties
    <3>5. Len(s) \in Nat /\ Len(ws[k]) \in Nat
      BY <3>3, SeqFacts
    <3> HIDE DEF y
    <3>6. ASSUME s \in Q PROVE y \in Q
      <4>1. s # Empty /\ s[1] \in H
        BY <3>6 DEF Q, Starting, NonEmpty
      <4>2. Len(s) # 0
        BY <4>1, EmptySeq DEF Empty
      <4>3. 1 \in 1 .. Len(s) /\ 1 \in 1 .. Len(x) + Len(ws[k]) /\ 1 <= Len(x) /\ Len(y) # 0
        <5>1. \A a, b \in Nat : a # 0 => 1 \in 1 .. a /\ 1 \in 1 .. a + 1 + b /\ 1 <= a + 1 /\ a + 1 + b # 0
          OBVIOUS
        <5>2. Len(y) = Len(s) + 1 + Len(ws[k])
          BY <3>2, <3>4
        <5> QED  BY ONLY <3>2, <3>5, <4>2, <5>1, <5>2
      <4>4. y[1] = s[1]
        BY <3>2, <3>4, <4>3
      <4>5. y # Empty
        <5>1. Len(Empty) = 0
          BY DEF Empty
        <5> QED  BY <4>3, <5>1
      <4>6. y \in NonEmpty(A) /\ y[1] \in H
        BY <3>4, <4>1, <4>4, <4>5 DEF NonEmpty
      <4> QED  BY <4>6 DEF Q, Starting
    <3>7. Longer(s, k) = y
      BY <2>2 DEF x, y
    <3> QED  BY <2>2, <3>4, <3>6, <3>7
  <2> QED  BY <2>1, <2>2
<1>2. Empty \in V
  BY DEF Empty
<1>3. F \in [1 .. N -> [V -> V]]
  BY <1>1
<1>4. PICK g \in [0 .. N -> V] : g[0] = Empty /\ \A k \in 1 .. N : g[k] = F[k][g[k - 1]]
  <2> HIDE DEF V, F, N
  <2>1. N \in Nat
    BY <1>0
  <2> QED  BY ONLY <1>2, <1>3, <2>1, IntervalRecursion
<1> HIDE DEF V, Longer
<1>5. \A k \in 1 .. N : g[k] = Longer(g[k - 1], k)
  <2> TAKE k \in 1 .. N
  <2>1. k - 1 \in 0 .. N
    BY <1>0
  <2>2. g[k - 1] \in V
    BY <2>1
  <2> QED  BY <1>4, <2>2
<1>6. g = Loop(g)
  <2>1. \A k \in 0 .. N : k # 0 => k \in 1 .. N
    BY <1>0
  <2> HIDE DEF N
  <2> QED  BY <1>4, <1>5, <2>1
<1> DEFINE h == JoinedSoFar(ws)
<1>7. h = Loop(h)
  <2>1. h = CHOOSE f : f = Loop(f)
    BY DEF JoinedSoFar, Longer
  <2> HIDE DEF h, Loop
  <2> QED  BY <1>6, <2>1
<1>8. Join(ws) = h[N]
  BY DEF Join, JoinedSoFar
<1> HIDE DEF h
<1>9. h[0] = Empty /\ \A k \in 1 .. N : h[k] = Longer(h[k - 1], k)
  <2>1. 0 \in 0 .. N /\ \A k \in 1 .. N : k \in 0 .. N /\ k # 0
    BY <1>0
  <2> HIDE DEF N
  <2> QED  BY <1>7, <2>1
<1> DEFINE S == {k \in Nat : k <= N => h[k] \in V /\ (k > 0 => h[k] \in Q)}
<1>10. 0 \in S
  BY <1>2, <1>9
<1>11. ASSUME NEW k \in Nat, k \in S PROVE k + 1 \in S
  <2> SUFFICES ASSUME k + 1 <= N PROVE h[k + 1] \in V /\ h[k + 1] \in Q
    OBVIOUS
  <2>1. h[k] \in V /\ k + 1 \in 1 .. N /\ (k + 1) - 1 = k /\ (k + 1 = 1 \/ h[k] \in Q)
    BY <1>0, <1>11
  <2> QED  BY <1>1, <1>9, <2>1
<1>12. Nat \subseteq S
  <2> HIDE DEF S
  <2> QED  BY <1>10, <1>11, SetInduction
<1>13. h[N] \in V /\ (N > 0 => h[N] \in Q)
  BY <1>0, <1>12
<1> QED  BY <1>8, <1>13 DEF V, Q

-----------------------------------------------------------------------------
(* DeriveTemplateFromSamples *)

\* The template inferred from some prompts is a trimmed part of each of them, and
\* begins with a whole character if they are valid.
LEMMA DeriveFacts ==
    ASSUME NEW A, NEW samples \in SUBSET Seq(A), samples # {}
    PROVE  /\ DeriveTemplateFromSamples(samples) \in Seq(A)
           /\ IsTrimmed(DeriveTemplateFromSamples(samples))
           /\ \A q \in samples : Occurs(DeriveTemplateFromSamples(samples), q)
           /\ (\A q \in samples : Valid(q)) => LeftValid(DeriveTemplateFromSamples(samples))
<1> DEFINE p == CHOOSE p \in samples : TRUE
           K == {k \in 0 .. Len(p) : \A q \in samples : IsPrefix(SubSeq(p, 1, k), q)}
           m == Max(K)
           c == SubSeq(p, 1, m)
<1>1. p \in samples /\ p \in Seq(A)
  OBVIOUS
<1>2. CommonPrefix(samples) = c
  BY DEF CommonPrefix
<1> HIDE DEF p
<1>3. Len(p) \in Nat
  BY <1>1, SeqFacts
<1>4. 0 \in K
  <2>1. SubSeq(p, 1, 0) = <<>>
    BY <1>3
  <2>2. ASSUME NEW q \in samples PROVE IsPrefix(<<>>, q)
    <3>1. Len(q) \in Nat /\ Len(<<>>) = 0
      BY SeqFacts
    <3>2. SubSeq(<<>>, 1, 0) = <<>> /\ SubSeq(q, 1, 0) = <<>>
      BY SubSeqEmpty
    <3> QED  BY <3>1, <3>2 DEF IsPrefix
  <2>3. 0 \in 0 .. Len(p)
    BY <1>3
  <2>4. \A q \in samples : IsPrefix(SubSeq(p, 1, 0), q)
    BY <2>1, <2>2
  <2> QED  BY ONLY <2>3, <2>4
<1>5. m \in K
  <2> DEFINE b == Len(p)
  <2>1. K \in SUBSET Int /\ K # {} /\ b \in Int /\ \A y \in K : y <= b
    BY <1>3, <1>4
  <2> HIDE DEF K, b
  <2>2. \E x \in K : \A y \in K : x >= y
    BY <2>1, GreatestInt
  <2> QED  BY <2>2 DEF Max
<1> HIDE DEF m
<1>6. m \in 0 .. Len(p) /\ \A q \in samples : IsPrefix(c, q)
  BY <1>5
<1>7. c \in Seq(A) /\ Len(c) = m /\ \A k \in 1 .. m : c[k] = p[k]
  <2>1. 1 \in 1 .. Len(p) + 1 /\ m \in 1 - 1 .. Len(p) /\ m - 1 + 1 = m /\ \A k \in 1 .. m : 1 + k - 1 = k
    BY <1>3, <1>6
  <2>2. c \in Seq(A) /\ Len(c) = m - 1 + 1 /\ \A k \in 1 .. m - 1 + 1 : c[k] = p[1 + k - 1]
    BY <1>1, <2>1, PartFacts
  <2> QED  BY ONLY <2>1, <2>2
<1> HIDE DEF c
<1> DEFINE d == TrimSpace(c)
<1>8. DeriveTemplateFromSamples(samples) = d
  BY <1>2 DEF DeriveTemplateFromSamples
<1>9. d \in Seq(A) /\ IsTrimmed(d) /\ Occurs(d, c) /\ (LeftValid(c) => LeftValid(d))
  BY <1>7, TrimFacts
<1> HIDE DEF d
<1>10. ASSUME NEW q \in samples PROVE Occurs(d, q)
  <2>1. q \in Seq(A) /\ IsPrefix(c, q)
    BY <1>6
  <2>2. Occurs(c, q)
    BY <1>7, <2>1, PrefixOccurs
  <2> QED  BY <1>7, <1>9, <2>1, <2>2, OccursTransitive
<1>11. ASSUME Valid(p) PROVE LeftValid(c)
  <2> SUFFICES ASSUME NEW k \in 1 .. m, c[k] \in Conts PROVE k > 1 /\ c[k - 1] \in Leads
    BY <1>7 DEF LeftValid
  <2>1. k \in DOMAIN p
    BY <1>1, <1>3, <1>6, SeqFacts
  <2>2. k > 1 /\ p[k - 1] \in Leads
    BY <1>7, <1>11, <2>1 DEF Valid, InCharacter
  <2>3. k - 1 \in 1 .. m
    BY <1>3, <1>6, <2>2
  <2> QED  BY <1>7, <2>2, <2>3
<1> QED  BY <1>1, <1>8, <1>9, <1>10, <1>11

-----------------------------------------------------------------------------
(* FindReplacementSegment *)

\* The segments of a template, in the order in which the proxy tries them.
Segments(template) ==
    LET ws == Fields(template)
        n == Len(ws)
    IN  [i \in 1 .. n - 2 |-> Join(SubSeq(ws, 1, n + 1 - i))]
        \o [i \in 1 .. n - 2 |-> Join(SubSeq(ws, i, i + 2))]

\* Three or more words of a text in a row, joined by spaces.
IsSegment(s, t) ==
    \E a, b \in 1 .. Len(Fields(t)) : a + 2 <= b /\ s = Join(SubSeq(Fields(t), a, b))

\* A segment is three or more words of the template in a row and begins as they do.
\* The first one is the whole template, single-spaced.
LEMMA SegmentsType ==
    ASSUME NEW A, NEW H, Space \in A, NEW t \in Seq(A), WordsStartIn(t, H)
    PROVE  /\ Segments(t) \in Seq(Starting(A, H))
           /\ Segments(t) # <<>> => Segments(t)[1] = Join(Fields(t))
           /\ \A k \in 1 .. Len(Segments(t)) : IsSegment(Segments(t)[k], t)
<1> DEFINE B == Starting(A, H)
           ws == Fields(t)
           n == Len(ws)
           m == IF n > 2 THEN n - 2 ELSE 0
           prefixes == [i \in 1 .. m |-> Join(SubSeq(ws, 1, n + 1 - i))]
           windows == [i \in 1 .. m |-> Join(SubSeq(ws, i, i + 2))]
<1>1. ws \in Seq(B)
  BY FieldsType
<1> HIDE DEF ws
<1>2. n \in Nat
  BY <1>1, SeqFacts
<1>3. m \in Nat /\ 1 .. n - 2 = 1 .. m
  BY <1>2
<1>4. Segments(t) = prefixes \o windows
  BY <1>3 DEF Segments, ws
<1>5. ASSUME NEW i \in 1 .. n, NEW j \in i .. n PROVE Join(SubSeq(ws, i, j)) \in B
  <2>1. i \in 1 .. n + 1 /\ j \in i - 1 .. n /\ j - i + 1 > 0
    BY <1>2
  <2> DEFINE u == SubSeq(ws, i, j)
  <2> HIDE DEF B
  <2>2. u \in Seq(B) /\ Len(u) = j - i + 1
    BY <1>1, <2>1, PartFacts
  <2> USE DEF B
  <2> HIDE DEF u
  <2>3. Len(u) > 0 => Join(u) \in Starting(A, H)
    BY <2>2, JoinType
  <2>4. Len(u) > 0
    BY <2>1, <2>2
  <2> QED  BY <2>3, <2>4 DEF u
<1> HIDE DEF B
<1>6. prefixes \in Seq(B) /\ Len(prefixes) = m
  <2>1. ASSUME NEW i \in 1 .. m PROVE Join(SubSeq(ws, 1, n + 1 - i)) \in B
    <3>1. 1 \in 1 .. n /\ n + 1 - i \in 1 .. n
      BY <1>2
    <3> QED  BY <1>5, <3>1
  <2>2. prefixes \in [1 .. m -> B] /\ [1 .. m -> B] \subseteq Seq(B)
    <3> HIDE DEF m
    <3> QED  BY <1>3, <2>1
  <2>3. DOMAIN prefixes = 1 .. m
    OBVIOUS
  <2> HIDE DEF prefixes, m
  <2> QED  BY <1>3, <2>2, <2>3
<1>7. windows \in Seq(B) /\ Len(windows) = m
  <2>1. ASSUME NEW i \in 1 .. m PROVE Join(SubSeq(ws, i, i + 2)) \in B
    <3>1. i \in 1 .. n /\ i + 2 \in i .. n
      BY <1>2
    <3> QED  BY <1>5, <3>1
  <2>2. windows \in [1 .. m -> B] /\ [1 .. m -> B] \subseteq Seq(B)
    <3> HIDE DEF m
    <3> QED  BY <1>3, <2>1
  <2> QED  BY <1>3, <2>2
<1>8. m > 0 => prefixes[1] = Join(ws)
  <2> SUFFICES ASSUME m > 0 PROVE prefixes[1] = Join(ws)
    OBVIOUS
  <2>1. 1 \in 1 .. m /\ n + 1 - 1 = n
    BY <1>2
  <2>2. SubSeq(ws, 1, n) = ws
    BY <1>1
  <2> HIDE DEF m, n
  <2>3. prefixes[1] = Join(SubSeq(ws, 1, n + 1 - 1))
    BY <2>1
  <2> QED  BY <2>1, <2>2, <2>3
<1>11. ASSUME NEW i \in 1 .. m PROVE IsSegment(prefixes[i], t) /\ IsSegment(windows[i], t)
  <2>1. 1 \in 1 .. n /\ n + 1 - i \in 1 .. n /\ 1 + 2 <= n + 1 - i /\ i \in 1 .. n /\ i + 2 \in 1 .. n /\ i + 2 <= i + 2
    BY <1>2
  <2>2. prefixes[i] = Join(SubSeq(ws, 1, n + 1 - i)) /\ windows[i] = Join(SubSeq(ws, i, i + 2))
    <3> HIDE DEF m
    <3> QED  OBVIOUS
  <2> HIDE DEF m
  <2> DEFINE b == n + 1 - i
             c == i + 2
  <2>3. prefixes[i] = Join(SubSeq(ws, 1, b)) /\ windows[i] = Join(SubSeq(ws, i, c))
    BY <2>2
  <2>4. 1 \in 1 .. n /\ b \in 1 .. n /\ 1 + 2 <= b /\ i \in 1 .. n /\ c \in 1 .. n /\ i + 2 <= c
    BY <2>1
  <2> HIDE DEF b, c, prefixes, windows
  <2> QED  BY <2>3, <2>4 DEF IsSegment, ws
<1> HIDE DEF prefixes, windows, m
<1>9. /\ prefixes \o windows \in Seq(B)
      /\ Len(prefixes \o windows) = m + m
      /\ \A i \in 1 .. m + m : (prefixes \o windows)[i] = IF i <= m THEN prefixes[i] ELSE windows[i - m]
  <2>1. /\ prefixes \o windows \in Seq(B)
        /\ Len(prefixes \o windows) = Len(prefixes) + Len(windows)
        /\ \A i \in 1 .. Len(prefixes) + Len(windows) : (prefixes \o windows)[i] =
              IF i <= Len(prefixes) THEN prefixes[i] ELSE windows[i - Len(prefixes)]
    BY <1>6, <1>7, ConcatProperties
  <2> QED  BY ONLY <1>6, <1>7, <2>1
<1>10. prefixes \o windows # <<>> => (prefixes \o windows)[1] = Join(ws)
  <2> SUFFICES ASSUME prefixes \o windows # <<>> PROVE (prefixes \o windows)[1] = Join(ws)
    OBVIOUS
  <2>1. m # 0
    <3> SUFFICES ASSUME m = 0 PROVE FALSE
      OBVIOUS
    <3>1. prefixes = <<>> /\ windows = <<>>
      BY <1>6, <1>7
    <3> QED  BY <3>1
  <2>2. m > 0 /\ 1 \in 1 .. m + m /\ 1 <= m
    BY <1>3, <2>1
  <2> QED  BY <1>8, <1>9, <2>2
<1>12. ASSUME NEW k \in 1 .. m + m PROVE IsSegment((prefixes \o windows)[k], t)
  <2>1. CASE k <= m
    <3>1. k \in 1 .. m
      BY <1>3, <2>1
    <3> QED  BY <1>9, <1>11, <2>1, <3>1
  <2>2. CASE ~(k <= m)
    <3> DEFINE j == k - m
    <3>1. j \in 1 .. m
      BY <1>3, <2>2
    <3>2. (prefixes \o windows)[k] = windows[j]
      BY <1>9, <2>2
    <3> HIDE DEF j
    <3> QED  BY <1>11, <3>1, <3>2
  <2> QED  BY <2>1, <2>2
<1> QED  BY <1>4, <1>9, <1>10, <1>12 DEF B, ws

\* Any words begin with some piece.
LEMMA AnyStart ==
    ASSUME NEW A, NEW t \in Seq(A) PROVE WordsStartIn(t, A)
BY SeqFacts DEF WordsStartIn, Words

\* The proxy replaces the first segment that occurs in the prompt.
LEMMA SegmentFound ==
    ASSUME NEW A, Space \in A, NEW t \in Seq(A), NEW p
    PROVE  IF FindReplacementSegment(p, t) = Empty
             THEN \A k \in 1 .. Len(Segments(t)) : ~Occurs(Segments(t)[k], p)
             ELSE \E k \in 1 .. Len(Segments(t)) :
                    /\ FindReplacementSegment(p, t) = Segments(t)[k]
                    /\ Occurs(Segments(t)[k], p)
                    /\ \A j \in 1 .. k - 1 : ~Occurs(Segments(t)[j], p)
<1> DEFINE S == Segments(t)
           I == {i \in 1 .. Len(S) : Occurs(S[i], p)}
           k == IF I # {} THEN Min(I) ELSE 0
<1>1. S \in Seq(Starting(A, A))
  <2>1. WordsStartIn(t, A)
    BY AnyStart
  <2> QED  BY <2>1, SegmentsType
<1>2. FindReplacementSegment(p, t) = IF k = 0 THEN Empty ELSE S[k]
  BY DEF FindReplacementSegment, Segments, SelectInSeq
<1> HIDE DEF S
<1>3. Len(S) \in Nat /\ \A i \in 1 .. Len(S) : S[i] # Empty
  <2>1. Len(S) \in Nat /\ \A i \in 1 .. Len(S) : S[i] \in Starting(A, A)
    BY <1>1, SeqFacts
  <2> QED  BY <2>1 DEF Starting, NonEmpty
<1>4. CASE I = {}
  BY <1>2, <1>4 DEF S
<1>5. CASE I # {}
  <2>1. I \in SUBSET Nat
    BY <1>3
  <2>2. k \in I /\ \A i \in I : k <= i
    <3> HIDE DEF I
    <3>1. \E x \in I : \A y \in I : x <= y
      BY <1>5, <2>1, LeastNat
    <3> QED  BY <1>5, <3>1 DEF Min
  <2> HIDE DEF k
  <2>3. k \in 1 .. Len(S) /\ Occurs(S[k], p) /\ k # 0 /\ k \in Nat
    BY <2>2, <1>3
  <2>4. \A j \in 1 .. k - 1 : ~Occurs(S[j], p)
    <3> SUFFICES ASSUME NEW j \in 1 .. k - 1, Occurs(S[j], p) PROVE FALSE
      OBVIOUS
    <3>1. j \in 1 .. Len(S) /\ ~(k <= j)
      BY <2>3, <1>3
    <3> QED  BY <2>2, <3>1
  <2> QED  BY <1>2, <1>3, <2>3, <2>4 DEF S
<1> QED  BY <1>4, <1>5

\* If a template can be found in itself, it can be found wherever it occurs.
LEMMA SegmentCarries ==
    ASSUME NEW A, Space \in A, NEW t \in Seq(A), NEW p \in Seq(A), Occurs(t, p),
           FindReplacementSegment(t, t) # Empty
    PROVE  FindReplacementSegment(p, t) # Empty
<1> DEFINE S == Segments(t)
<1>1. PICK k \in 1 .. Len(S) : Occurs(S[k], t)
  BY SegmentFound
<1>2. S \in Seq(Starting(A, A))
  <2>1. WordsStartIn(t, A)
    BY AnyStart
  <2> QED  BY <2>1, SegmentsType
<1>3. S[k] \in Seq(A)
  <2>1. S[k] \in Starting(A, A)
    <3> HIDE DEF S
    <3> QED  BY <1>2, SeqFacts
  <2> QED  BY <2>1 DEF Starting, NonEmpty
<1> DEFINE s == S[k]
<1>4. s \in Seq(A) /\ Occurs(s, t)
  BY <1>1, <1>3
<1> HIDE DEF s
<1>5. Occurs(s, p)
  BY <1>4, OccursTransitive
<1> QED  BY <1>5, SegmentFound DEF s

\* The segment found is one of the template, begins as its words do and occurs in
\* the prompt.  A prompt that starts with the single-spaced template has all of it
\* replaced.
LEMMA SegmentFacts ==
    ASSUME NEW A, NEW H, Space \in A, NEW t \in Seq(A), NEW p \in Seq(A), WordsStartIn(t, H),
           FindReplacementSegment(p, t) # Empty
    PROVE  /\ FindReplacementSegment(p, t) \in Starting(A, H)
           /\ IsSegment(FindReplacementSegment(p, t), t)
           /\ Occurs(FindReplacementSegment(p, t), p)
           /\ (t = Join(Fields(t)) /\ IsPrefix(t, p)) => FindReplacementSegment(p, t) = t
<1> DEFINE S == Segments(t)
           s == FindReplacementSegment(p, t)
<1>1. PICK k \in 1 .. Len(S) : s = S[k] /\ Occurs(S[k], p) /\ \A j \in 1 .. k - 1 : ~Occurs(S[j], p)
  BY SegmentFound
<1>2. /\ S \in Seq(Starting(A, H)) /\ (S # <<>> => S[1] = Join(Fields(t)))
      /\ \A j \in 1 .. Len(S) : IsSegment(S[j], t)
  BY SegmentsType
<1>3. s \in Starting(A, H) /\ IsSegment(s, t)
  <2> HIDE DEF S, s
  <2>1. S[k] \in Starting(A, H)
    BY <1>2, SeqFacts
  <2> QED  BY <1>1, <1>2, <2>1
<1>7. (t = Join(Fields(t)) /\ IsPrefix(t, p)) => s = t
  <2> SUFFICES ASSUME t = Join(Fields(t)), IsPrefix(t, p) PROVE s = t
    OBVIOUS
  <2>1. Occurs(t, p)
    BY PrefixOccurs
  <2>2. Len(S) \in Nat /\ k \in Nat /\ k >= 1 /\ S # <<>>
    <3> HIDE DEF S
    <3>1. Len(S) \in Nat
      BY <1>2, SeqFacts
    <3> QED  BY <3>1
  <2>3. S[1] = t
    BY <1>2, <2>2
  <2>4. k # 1 => 1 \in 1 .. k - 1
    BY <2>2
  <2> QED  BY <1>1, <2>1, <2>3, <2>4
<1> QED  BY <1>1, <1>3, <1>7

-----------------------------------------------------------------------------
(* ReplaceFirstSubSeq: strings.Replace with a count of 1 *)

\* A text with a piece is one of the subsequences of a text if it occurs there.
LEMMA SubSeqsOccur ==
    ASSUME NEW A, NEW s \in NonEmpty(A), NEW t \in Seq(A)
    PROVE  s \in SubSeqs(t) <=> Occurs(s, t)
<1>0. s \in Seq(A) /\ s # <<>> /\ Len(t) \in Nat /\ Len(s) \in Nat
  BY SeqFacts DEF NonEmpty, Empty
<1>1. ASSUME s \in SubSeqs(t) PROVE Occurs(s, t)
  <2>1. PICK i, j \in 0 .. Len(t) : s = SubSeq(t, i + 1, j)
    BY <1>1 DEF SubSeqs
  <2>2. i <= j
    <3> SUFFICES ASSUME ~(i <= j) PROVE FALSE
      OBVIOUS
    <3>1. i + 1 \in Int /\ j \in Int /\ j < i + 1
      BY <1>0
    <3>2. SubSeq(t, i + 1, j) = <<>>
      BY <3>1, SubSeqEmpty
    <3> QED  BY <1>0, <2>1, <3>2
  <2>3. i + 1 \in 1 .. Len(t) + 1 /\ j \in (i + 1) - 1 .. Len(t)
    BY <1>0, <2>2
  <2> QED  BY <2>1, <2>3, PartOccurs
<1>2. ASSUME Occurs(s, t) PROVE s \in SubSeqs(t)
  <2>1. PICK i \in 0 .. Len(t) - Len(s) : SubSeq(t, i + 1, i + Len(s)) = s
    BY <1>2 DEF Occurs
  <2> DEFINE j == i + Len(s)
  <2>2. i \in 0 .. Len(t) /\ j \in 0 .. Len(t)
    BY <1>0
  <2>3. s = SubSeq(t, i + 1, j)
    BY <2>1
  <2> HIDE DEF j
  <2>4. \E x, y \in 0 .. Len(t) : s = SubSeq(t, x + 1, y)
    BY <2>2, <2>3
  <2> QED  BY ONLY <2>4 DEF SubSeqs
<1> QED  BY <1>1, <1>2

\* What occurs in the beginning of a text.
LEMMA OccursEarly ==
    ASSUME NEW A, NEW s \in Seq(A), NEW t \in Seq(A), NEW l \in 0 .. Len(t)
    PROVE  Occurs(s, SubSeq(t, 1, l)) <=> \E i \in 0 .. l - Len(s) : SubSeq(t, i + 1, i + Len(s)) = s
<1> DEFINE u == SubSeq(t, 1, l)
<1>0. Len(t) \in Nat /\ Len(s) \in Nat /\ l \in Nat /\ l <= Len(t)
  BY SeqFacts
<1>1. u \in Seq(A) /\ Len(u) = l /\ \A k \in 1 .. l : u[k] = t[k]
  <2>1. 1 \in 1 .. Len(t) + 1 /\ l \in 1 - 1 .. Len(t) /\ l - 1 + 1 = l /\ \A k \in 1 .. l : 1 + k - 1 = k
    BY <1>0
  <2>2. u \in Seq(A) /\ Len(u) = l - 1 + 1 /\ \A k \in 1 .. l - 1 + 1 : u[k] = t[1 + k - 1]
    BY <2>1, PartFacts
  <2> QED  BY ONLY <2>1, <2>2
<1> HIDE DEF u
<1>2. ASSUME NEW i \in 0 .. l - Len(s)
      PROVE  SubSeq(u, i + 1, i + Len(s)) = s <=> SubSeq(t, i + 1, i + Len(s)) = s
  <2>1. i \in 0 .. Len(u) - Len(s) /\ i \in 0 .. Len(t) - Len(s)
    BY <1>0, <1>1
  <2>2. \A k \in 1 .. Len(s) : i + k \in 1 .. l
    BY <1>0
  <2>3. \A k \in 1 .. Len(s) : u[i + k] = t[i + k]
    BY <1>1, <2>2
  <2>4. SubSeq(u, i + 1, i + Len(s)) = s <=> \A k \in 1 .. Len(s) : u[i + k] = s[k]
    BY <1>1, <2>1, OccursAt
  <2>5. SubSeq(t, i + 1, i + Len(s)) = s <=> \A k \in 1 .. Len(s) : t[i + k] = s[k]
    BY <2>1, OccursAt
  <2> QED  BY <2>3, <2>4, <2>5
<1>3. Occurs(s, u) <=> \E i \in 0 .. l - Len(s) : SubSeq(u, i + 1, i + Len(s)) = s
  BY <1>1 DEF Occurs
<1> QED  BY <1>2, <1>3 DEF u

\* The first occurrence is replaced, and what is before and after it stays.
LEMMA ReplaceFacts ==
    ASSUME NEW A, NEW s \in NonEmpty(A), NEW t \in Seq(A), NEW r, Occurs(s, t)
    PROVE  \E i \in 0 .. Len(t) - Len(s) :
             /\ SubSeq(t, i + 1, i + Len(s)) = s
             /\ \A j \in 0 .. i - 1 : SubSeq(t, j + 1, j + Len(s)) # s
             /\ ReplaceFirstSubSeq(r, s, t) = SubSeq(t, 1, i) \o r \o SubSeq(t, i + Len(s) + 1, Len(t))
<1> DEFINE Ends(l) == s \in SubSeqs(SubSeq(t, 1, l))
           L == {l \in 0 .. Len(t) : Ends(l)}
<1>0. s \in Seq(A) /\ Len(t) \in Nat /\ Len(s) \in Nat
  BY SeqFacts DEF NonEmpty
<1>1. ASSUME NEW l \in 0 .. Len(t)
      PROVE  Ends(l) <=> \E i \in 0 .. l - Len(s) : SubSeq(t, i + 1, i + Len(s)) = s
  <2> DEFINE u == SubSeq(t, 1, l)
  <2>1. 1 \in 1 .. Len(t) + 1 /\ l \in 1 - 1 .. Len(t)
    BY <1>0
  <2>2. u \in Seq(A)
    BY <2>1, PartFacts
  <2>3. Occurs(s, u) <=> \E i \in 0 .. l - Len(s) : SubSeq(t, i + 1, i + Len(s)) = s
    BY <1>0, OccursEarly
  <2> HIDE DEF u
  <2>4. s \in SubSeqs(u) <=> Occurs(s, u)
    BY <2>2, SubSeqsOccur
  <2> QED  BY <2>3, <2>4 DEF u
<1> HIDE DEF Ends
<1>2. PICK l \in L : \A y \in L : l <= y
  <2>1. PICK i \in 0 .. Len(t) - Len(s) : SubSeq(t, i + 1, i + Len(s)) = s
    BY DEF Occurs
  <2>2. Len(t) \in 0 .. Len(t)
    BY <1>0
  <2>3. Len(t) \in L
    BY <1>1, <2>1, <2>2
  <2>4. L \in SUBSET Nat /\ L # {}
    BY <1>0, <2>3
  <2> HIDE DEF L
  <2> QED  BY <2>4, LeastNat
<1>3. l \in 0 .. Len(t) /\ l \in Nat /\ Ends(l) /\ \A j \in 0 .. l - 1 : ~Ends(j)
  <2>1. l \in 0 .. Len(t) /\ Ends(l) /\ l \in Nat
    BY <1>0
  <2>2. \A j \in 0 .. l - 1 : j \in 0 .. Len(t) /\ ~(l <= j)
    BY <1>0, <2>1
  <2> QED  BY <1>2, <2>1, <2>2
<1>4. \A x \in 0 .. Len(t) : (Ends(x) /\ \A j \in 0 .. x - 1 : ~Ends(j)) => x = l
  <2> SUFFICES ASSUME NEW x \in 0 .. Len(t), Ends(x), \A j \in 0 .. x - 1 : ~Ends(j) PROVE x = l
    OBVIOUS
  <2>1. x \in Nat /\ (x < l => x \in 0 .. l - 1) /\ (l < x => l \in 0 .. x - 1)
    BY <1>0, <1>3
  <2>2. ~(x < l) /\ ~(l < x)
    BY <1>3, <2>1
  <2> QED  BY <1>3, <2>1, <2>2
<1>5. IndexFirstSubSeq(s, t) = l - (Len(s) - 1)
  <2> DEFINE c == CHOOSE x \in 0 .. Len(t) : Ends(x) /\ \A j \in 0 .. x - 1 : ~Ends(j)
  <2>1. c = l
    BY <1>3, <1>4
  <2>2. IndexFirstSubSeq(s, t) = c - (Len(s) - 1)
    BY DEF IndexFirstSubSeq, Ends
  <2> QED  BY <2>1, <2>2
<1>6. PICK i \in 0 .. l - Len(s) : SubSeq(t, i + 1, i + Len(s)) = s
  BY <1>1, <1>3
<1>7. ASSUME NEW j \in 0 .. l - Len(s), SubSeq(t, j + 1, j + Len(s)) = s PROVE j + Len(s) = l
  <2> DEFINE e == j + Len(s)
  <2>1. e \in 0 .. Len(t) /\ j \in 0 .. e - Len(s) /\ e <= l /\ (e < l => e \in 0 .. l - 1)
    BY <1>0, <1>3
  <2>2. Ends(e)
    <3> HIDE DEF e
    <3> QED  BY <1>1, <1>7, <2>1 DEF e
  <2>3. ~(e < l)
    BY <1>3, <2>1, <2>2
  <2> QED  BY <1>0, <1>3, <2>1, <2>3
<1>8. i + Len(s) = l
  BY <1>6, <1>7
<1>9. i \in 0 .. Len(t) - Len(s) /\ i \in Nat
  BY <1>0, <1>3
<1>10. \A j \in 0 .. i - 1 : SubSeq(t, j + 1, j + Len(s)) # s
  <2> SUFFICES ASSUME NEW j \in 0 .. i - 1, SubSeq(t, j + 1, j + Len(s)) = s PROVE FALSE
    OBVIOUS
  <2>1. j \in 0 .. l - Len(s) /\ j + Len(s) # l
    BY <1>0, <1>3, <1>8, <1>9
  <2> QED  BY <1>7, <2>1
<1>11. ReplaceFirstSubSeq(r, s, t) = SubSeq(t, 1, i) \o r \o SubSeq(t, i + Len(s) + 1, Len(t))
  <2>1. s \in SubSeqs(t)
    BY SubSeqsOccur
  <2> DEFINE x == IndexFirstSubSeq(s, t)
  <2>2. x - 1 = i /\ x + Len(s) = i + Len(s) + 1
    BY <1>0, <1>3, <1>5, <1>8, <1>9
  <2>3. ReplaceFirstSubSeq(r, s, t) = SubSeq(t, 1, x - 1) \o r \o SubSeq(t, x + Len(s), Len(t))
    BY <2>1 DEF ReplaceFirstSubSeq, ReplaceSubSeqAt
  <2> HIDE DEF x
  <2> QED  BY ONLY <2>2, <2>3
<1> QED  BY <1>6, <1>9, <1>10, <1>11

-----------------------------------------------------------------------------
(* Marshal: what is left of a text that is written as JSON *)

\* It is as long, valid, and the same if it was valid.  Gaps stay where they are.
LEMMA MarshalFacts ==
    ASSUME NEW A, Replacement \in A, NEW t \in Seq(A)
    PROVE  /\ Marshal(t) \in Seq(A)
           /\ Len(Marshal(t)) = Len(t)
           /\ \A k \in 1 .. Len(t) : Marshal(t)[k] = IF InCharacter(t, k) THEN t[k] ELSE Replacement
           /\ Valid(Marshal(t))
           /\ Valid(t) => Marshal(t) = t
           /\ IsTrimmed(t) => IsTrimmed(Marshal(t))
           /\ t # Empty => Marshal(t) # Empty
<1> DEFINE n == Len(t)
           u == Marshal(t)
<1>1. n \in Nat /\ DOMAIN t = 1 .. n /\ \A k \in 1 .. n : t[k] \in A
  BY SeqFacts
<1>2. u \in Seq(A) /\ Len(u) = n /\ DOMAIN u = 1 .. n
      /\ \A k \in 1 .. n : u[k] = IF InCharacter(t, k) THEN t[k] ELSE Replacement
  <2>1. u = [k \in 1 .. n |-> IF InCharacter(t, k) THEN t[k] ELSE Replacement]
    BY <1>1 DEF Marshal
  <2>2. \A k \in 1 .. n : (IF InCharacter(t, k) THEN t[k] ELSE Replacement) \in A
    BY <1>1
  <2> HIDE DEF u, n
  <2>3. u \in [1 .. n -> A]
    BY <2>1, <2>2
  <2>4. u \in Seq(A) /\ Len(u) = n
    BY <1>1, <2>3
  <2> QED  BY <2>1, <2>3, <2>4
<1> HIDE DEF u
<1>3. Valid(u)
  <2> SUFFICES ASSUME NEW k \in 1 .. n PROVE InCharacter(u, k)
    BY <1>2 DEF Valid
  <2>1. u[k] \in Leads => k < n /\ u[k + 1] \in Conts
    <3> SUFFICES ASSUME u[k] \in Leads PROVE k < n /\ u[k + 1] \in Conts
      OBVIOUS
    <3>1. u[k] = t[k] /\ InCharacter(t, k)
      BY <1>2, InjectionAssumption
    <3>2. k < n /\ t[k + 1] \in Conts
      BY <3>1 DEF InCharacter
    <3>3. k + 1 \in 1 .. n /\ k + 1 > 1 /\ (k + 1) - 1 = k
      BY <1>1, <3>2
    <3>4. InCharacter(t, k + 1)
      BY <3>1, <3>2, <3>3, InjectionAssumption DEF InCharacter
    <3> QED  BY <1>2, <3>2, <3>3, <3>4
  <2>2. u[k] \in Conts => k > 1 /\ u[k - 1] \in Leads
    <3> SUFFICES ASSUME u[k] \in Conts PROVE k > 1 /\ u[k - 1] \in Leads
      OBVIOUS
    <3>1. u[k] = t[k] /\ InCharacter(t, k)
      BY <1>2, InjectionAssumption
    <3>2. k > 1 /\ t[k - 1] \in Leads
      BY <3>1 DEF InCharacter
    <3>3. k - 1 \in 1 .. n /\ k - 1 < n /\ (k - 1) + 1 = k
      BY <1>1, <3>2
    <3>4. InCharacter(t, k - 1)
      BY <3>1, <3>2, <3>3, InjectionAssumption DEF InCharacter
    <3> QED  BY <1>2, <3>2, <3>3, <3>4
  <2> QED  BY <1>2, <2>1, <2>2 DEF InCharacter
<1>4. Valid(t) => u = t
  <2> SUFFICES ASSUME Valid(t) PROVE u = t
    OBVIOUS
  <2>1. \A k \in 1 .. Len(u) : u[k] = t[k]
    BY <1>1, <1>2 DEF Valid
  <2> QED  BY <1>2, <2>1, SameText
<1>5. t # Empty => u # Empty
  <2>1. t # Empty => n # 0
    BY EmptySeq DEF Empty
  <2>2. Len(Empty) = 0
    BY DEF Empty
  <2> QED  BY <1>2, <2>1, <2>2
<1>6. IsTrimmed(t) => IsTrimmed(u)
  <2> SUFFICES ASSUME IsTrimmed(t) PROVE TrimSpace(u) = u
    BY DEF IsTrimmed
  <2>1. \A k \in 1 .. n : u[k] \in Gaps <=> t[k] \in Gaps
    BY <1>2, InjectionAssumption DEF InCharacter
  <2>2. Words(u) = Words(t)
    BY <1>1, <1>2, <2>1 DEF Words
  <2>3. CASE Words(t) = {}
    <3>1. t = Empty
      BY <2>3 DEF IsTrimmed, TrimSpace
    <3>2. u = Empty
      <4>1. Len(u) = 0
        BY <1>2, <3>1 DEF Empty
      <4> QED  BY <1>2, <4>1, EmptySeq DEF Empty
    <3> QED  BY <2>2, <2>3, <3>2 DEF TrimSpace
  <2>4. CASE Words(t) # {}
    <3> DEFINE W == Words(t)
               i == CHOOSE x \in W : \A y \in W : x <= y
               j == CHOOSE x \in W : \A y \in W : x >= y
    <3>1. W \in SUBSET Nat /\ W \in SUBSET Int /\ W # {} /\ W \subseteq 1 .. n
      BY <1>1, <2>4 DEF Words
    <3>2. t = SubSeq(t, i, j)
      BY <2>4 DEF IsTrimmed, TrimSpace
    <3>3. TrimSpace(u) = SubSeq(u, i, j)
      BY <2>2, <2>4 DEF TrimSpace
    <3>4. i \in W /\ \A y \in W : i <= y
      <4> HIDE DEF W
      <4>1. \E x \in W : \A y \in W : x <= y
        BY <3>1, LeastNat
      <4> QED  BY <4>1
    <3>5. j \in W
      <4> HIDE DEF W
      <4>1. \A y \in W : y <= n
        BY <3>1
      <4>2. \E x \in W : \A y \in W : x >= y
        <5> HIDE DEF n
        <5>1. n \in Int
          BY <1>1
        <5> QED  BY ONLY <3>1, <4>1, <5>1, GreatestInt
      <4> QED  BY <4>2
    <3> HIDE DEF i, j, W
    <3>6. i \in 1 .. Len(t) + 1 /\ j \in i - 1 .. Len(t) /\ i \in 1 .. n /\ j \in 1 .. n
      <4>1. i \in 1 .. n /\ j \in 1 .. n /\ i <= j
        BY <3>1, <3>4, <3>5
      <4> QED  BY <1>1, <4>1
    <3>7. Len(t) = j - i + 1
      <4>1. Len(SubSeq(t, i, j)) = j - i + 1
        BY <3>6, PartFacts
      <4> QED  BY <3>2, <4>1
    <3>8. i = 1 /\ j = n
      BY <1>1, <3>6, <3>7
    <3>9. SubSeq(u, 1, n) = u
      BY <1>2
    <3> QED  BY <3>3, <3>8, <3>9
  <2> QED  BY <2>3, <2>4
<1> QED  BY <1>2, <1>3, <1>4, <1>5, <1>6 DEF u

\* Valid texts, put together where a segment was cut out of one of them: what is
\* before the cut stays, the variant stays, and so does what is after it, unless
\* the segment ended within a character.
LEMMA MarshalSplice ==
    ASSUME NEW A, Replacement \in A, NEW p \in Seq(A), NEW v \in Seq(A), NEW s \in NonEmpty(A),
           NEW i \in 0 .. Len(p) - Len(s), SubSeq(p, i + 1, i + Len(s)) = s,
           Valid(p), Valid(v), v # Empty, s[1] \notin Conts
    PROVE  LET rest == SubSeq(p, i + Len(s) + 1, Len(p))
           IN  /\ SubSeq(p, 1, i) \o v \o rest \in Seq(A)
               /\ Marshal(SubSeq(p, 1, i) \o v \o rest) = SubSeq(p, 1, i) \o v \o After(s, rest)
<1> DEFINE m == Len(s)
           n == Len(p)
           lv == Len(v)
           pre == SubSeq(p, 1, i)
           suf == SubSeq(p, i + m + 1, n)
           x == pre \o v
           y == After(s, suf)
           out == x \o suf
           lx == i + lv
           ls == n - (i + m)
           Cut == s[m] \in Leads
<1>1. /\ s \in Seq(A) /\ m \in Nat \ {0} /\ n \in Nat /\ lv \in Nat \ {0} /\ i \in Nat /\ i + m <= n
      /\ lx \in Nat /\ ls \in Nat
  <2>1. s \in Seq(A) /\ s # <<>> /\ v # <<>>
    BY DEF NonEmpty, Empty
  <2>2. m \in Nat \ {0} /\ n \in Nat /\ lv \in Nat \ {0}
    BY <2>1, EmptySeq, SeqFacts
  <2> QED  BY <2>1, <2>2
<1>2. pre \in Seq(A) /\ Len(pre) = i /\ \A k \in 1 .. i : pre[k] = p[k]
  <2>1. 1 \in 1 .. n + 1 /\ i \in 1 - 1 .. n /\ i - 1 + 1 = i /\ \A k \in 1 .. i : 1 + k - 1 = k
    BY <1>1
  <2>2. pre \in Seq(A) /\ Len(pre) = i - 1 + 1 /\ \A k \in 1 .. i - 1 + 1 : pre[k] = p[1 + k - 1]
    BY <2>1, PartFacts
  <2> QED  BY ONLY <2>1, <2>2
<1>3. suf \in Seq(A) /\ Len(suf) = ls /\ \A k \in 1 .. ls : suf[k] = p[i + m + k]
  <2> DEFINE f == i + m + 1
  <2>1. f \in 1 .. n + 1 /\ n \in f - 1 .. n /\ n - f + 1 = ls /\ \A k \in 1 .. ls : f + k - 1 = i + m + k
    BY <1>1
  <2>2. suf = SubSeq(p, f, n)
    OBVIOUS
  <2> HIDE DEF f, m, suf, ls
  <2>3. SubSeq(p, f, n) \in Seq(A) /\ Len(SubSeq(p, f, n)) = n - f + 1
        /\ \A k \in 1 .. n - f + 1 : SubSeq(p, f, n)[k] = p[f + k - 1]
    BY <2>1, PartFacts
  <2> QED  BY ONLY <2>1, <2>2, <2>3
<1>4. \A k \in 1 .. m : p[i + k] = s[k]
  <2>1. s \in Seq(A)
    BY <1>1
  <2>2. SubSeq(p, i + 1, i + Len(s)) = s <=> \A k \in 1 .. Len(s) : p[i + k] = s[k]
    BY <2>1, OccursAt
  <2> QED  BY <2>2
<1>5. Cut <=> (ls > 0 /\ p[i + m + 1] \in Conts)
  <2>1. p[i + m] = s[m] /\ i + m \in DOMAIN p
    BY <1>1, <1>4, SeqFacts
  <2>2. ASSUME Cut PROVE ls > 0 /\ p[i + m + 1] \in Conts
    <3>1. i + m < n /\ p[i + m + 1] \in Conts
      BY <2>1, <2>2 DEF Valid, InCharacter
    <3> QED  BY <1>1, <3>1
  <2>3. ASSUME ls > 0, p[i + m + 1] \in Conts PROVE Cut
    <3>1. i + m + 1 \in DOMAIN p /\ (i + m + 1) - 1 = i + m
      <4>1. i + m + 1 \in 1 .. n /\ (i + m + 1) - 1 = i + m
        BY <1>1, <2>3
      <4> QED  BY <4>1, SeqFacts
    <3>2. p[i + m] \in Leads
      BY <2>3, <3>1 DEF Valid, InCharacter
    <3> QED  BY <2>1, <3>2
  <2> QED  BY <2>2, <2>3
<1> HIDE DEF m, n, lv, pre, suf, ls
<1>6. y \in Seq(A) /\ Len(y) = ls /\ \A k \in 1 .. ls : y[k] = IF k = 1 /\ Cut THEN Replacement ELSE suf[k]
  <2>1. CASE ~Cut
    BY <1>3, <2>1 DEF After, m
  <2>2. CASE Cut
    <3>1. ls > 0 /\ suf # <<>>
      BY <1>3, <1>5, <2>2
    <3>2. Tail(suf) \in Seq(A) /\ Len(Tail(suf)) = ls - 1 /\ \A k \in 1 .. ls - 1 : Tail(suf)[k] = suf[k + 1]
      <4>1. /\ Tail(suf) \in Seq(A) /\ Len(Tail(suf)) = Len(suf) - 1
            /\ \A k \in 1 .. Len(suf) - 1 : Tail(suf)[k] = suf[k + 1]
        BY <1>3, <3>1, HeadTailProperties
      <4> QED  BY <1>3, <4>1
    <3> DEFINE z == Tail(suf)
               r == <<Replacement>>
    <3>3. r \in Seq(A) /\ Len(r) = 1 /\ r[1] = Replacement
      OBVIOUS
    <3> HIDE DEF z, r
    <3>4. /\ r \o z \in Seq(A) /\ Len(r \o z) = Len(r) + Len(z)
          /\ \A k \in 1 .. Len(r) + Len(z) : (r \o z)[k] = IF k <= Len(r) THEN r[k] ELSE z[k - Len(r)]
      BY <3>2, <3>3, ConcatProperties DEF z
    <3>5. y = r \o z
      BY <2>2 DEF After, m, r, z
    <3>6. Len(r) + Len(z) = ls
      BY <1>1, <3>2, <3>3 DEF z
    <3>7. ASSUME NEW k \in 1 .. ls PROVE y[k] = IF k = 1 /\ Cut THEN Replacement ELSE suf[k]
      <4>1. y[k] = IF k <= 1 THEN r[k] ELSE z[k - 1]
        BY <3>3, <3>4, <3>5, <3>6
      <4>2. CASE k = 1
        BY <2>2, <3>3, <4>1, <4>2
      <4>3. CASE k # 1
        <5>1. k - 1 \in 1 .. ls - 1 /\ (k - 1) + 1 = k /\ ~(k <= 1)
          BY <1>1, <4>3
        <5>2. z[k - 1] = suf[(k - 1) + 1]
          BY <3>2, <5>1 DEF z
        <5> QED  BY <4>1, <4>3, <5>1, <5>2
      <4> QED  BY <4>2, <4>3
    <3> QED  BY <3>4, <3>5, <3>6, <3>7
  <2> QED  BY <2>1, <2>2
<1>7. x \in Seq(A) /\ Len(x) = lx /\ (\A k \in 1 .. i : x[k] = p[k]) /\ \A k \in 1 .. lv : x[i + k] = v[k]
  <2>1. /\ pre \o v \in Seq(A)
        /\ Len(pre \o v) = Len(pre) + Len(v)
        /\ \A k \in 1 .. Len(pre) + Len(v) : (pre \o v)[k] = IF k <= Len(pre) THEN pre[k] ELSE v[k - Len(pre)]
    BY <1>2, ConcatProperties
  <2>2. Len(pre) + Len(v) = lx
    BY <1>2 DEF lv
  <2>3. ASSUME NEW k \in 1 .. i PROVE x[k] = p[k]
    <3>1. k \in 1 .. lx /\ k <= i
      BY <1>1
    <3> QED  BY <1>2, <2>1, <2>2, <3>1
  <2>4. ASSUME NEW k \in 1 .. lv PROVE x[i + k] = v[k]
    <3>1. i + k \in 1 .. lx /\ ~(i + k <= i) /\ (i + k) - i = k
      BY <1>1
    <3> DEFINE l == i + k
    <3>2. l \in 1 .. lx /\ ~(l <= i) /\ l - i = k
      BY <3>1
    <3> HIDE DEF l
    <3>3. x[l] = v[l - i]
      BY <1>2, <2>1, <2>2, <3>2
    <3> QED  BY <3>2, <3>3 DEF l
  <2> QED  BY <2>1, <2>2, <2>3, <2>4
<1> HIDE DEF x, y
\* A text put together from x and something as long as the rest.
<1>8. ASSUME NEW w \in Seq(A), Len(w) = ls
      PROVE  /\ x \o w \in Seq(A) /\ Len(x \o w) = lx + ls
             /\ \A k \in 1 .. lx : (x \o w)[k] = x[k]
             /\ \A k \in 1 .. ls : (x \o w)[lx + k] = w[k]
  <2>1. /\ x \o w \in Seq(A)
        /\ Len(x \o w) = Len(x) + Len(w)
        /\ \A k \in 1 .. Len(x) + Len(w) : (x \o w)[k] = IF k <= Len(x) THEN x[k] ELSE w[k - Len(x)]
    BY <1>7, ConcatProperties
  <2>2. Len(x) + Len(w) = lx + ls
    BY <1>7, <1>8
  <2>3. ASSUME NEW k \in 1 .. lx PROVE (x \o w)[k] = x[k]
    <3>1. k \in 1 .. lx + ls /\ k <= lx
      BY <1>1
    <3> QED  BY <1>7, <2>1, <2>2, <3>1
  <2>4. ASSUME NEW k \in 1 .. ls PROVE (x \o w)[lx + k] = w[k]
    <3> DEFINE l == lx + k
    <3>1. l \in 1 .. lx + ls /\ ~(l <= lx) /\ l - lx = k
      BY <1>1
    <3> HIDE DEF l, lx
    <3>2. (x \o w)[l] = w[l - lx]
      BY <1>7, <2>1, <2>2, <3>1
    <3> QED  BY <3>1, <3>2 DEF l
  <2> QED  BY <2>1, <2>2, <2>3, <2>4
<1>9. /\ out \in Seq(A) /\ Len(out) = lx + ls
      /\ \A k \in 1 .. lx : out[k] = x[k]
      /\ \A k \in 1 .. ls : out[lx + k] = p[i + m + k]
  BY <1>3, <1>8
<1>10. /\ x \o y \in Seq(A) /\ Len(x \o y) = lx + ls
       /\ \A k \in 1 .. lx : (x \o y)[k] = x[k]
       /\ \A k \in 1 .. ls : (x \o y)[lx + k] = IF k = 1 /\ Cut THEN Replacement ELSE p[i + m + k]
  BY <1>3, <1>6, <1>8
<1> HIDE DEF out, Cut
<1>11. DOMAIN p = 1 .. n /\ DOMAIN v = 1 .. lv
  BY SeqFacts DEF n, lv
<1>12. ASSUME NEW k \in 1 .. i PROVE InCharacter(out, k)
  <2>1. out[k] = p[k] /\ InCharacter(p, k) /\ k \in 1 .. lx
    <3>1. k \in 1 .. lx /\ k \in DOMAIN p
      BY <1>1, <1>11
    <3>2. InCharacter(p, k)
      BY <3>1 DEF Valid
    <3> QED  BY <1>7, <1>9, <3>1, <3>2
  <2>2. ASSUME out[k] \in Leads PROVE k < Len(out) /\ out[k + 1] \in Conts
    <3>1. k < n /\ p[k + 1] \in Conts
      BY <2>1, <2>2 DEF InCharacter, n
    <3>2. k # i
      <4> SUFFICES ASSUME k = i PROVE FALSE
        OBVIOUS
      <4>1. 1 \in 1 .. m
        BY <1>1
      <4>2. p[i + 1] = s[1]
        BY <1>4, <4>1
      <4> QED  BY <3>1, <4>2
    <3>3. k + 1 \in 1 .. i /\ k + 1 \in 1 .. lx /\ k < lx + ls
      BY <1>1, <3>2
    <3> QED  BY <1>7, <1>9, <3>1, <3>3
  <2>3. ASSUME out[k] \in Conts PROVE k > 1 /\ out[k - 1] \in Leads
    <3>1. k > 1 /\ p[k - 1] \in Leads
      BY <2>1, <2>3 DEF InCharacter
    <3>2. k - 1 \in 1 .. i /\ k - 1 \in 1 .. lx
      BY <1>1, <3>1
    <3> QED  BY <1>7, <1>9, <3>1, <3>2
  <2> QED  BY <2>2, <2>3 DEF InCharacter
<1>13. ASSUME NEW k \in 1 .. lv PROVE InCharacter(out, i + k)
  <2> DEFINE h == i + k
  <2>1. h \in 1 .. lx /\ h \in Nat
    BY <1>1
  <2>2. out[h] = v[k] /\ InCharacter(v, k)
    BY <1>7, <1>9, <1>11, <2>1 DEF Valid
  <2>3. ASSUME v[k] \in Leads PROVE h < lx + ls /\ out[h + 1] \in Conts
    <3>1. k < lv /\ v[k + 1] \in Conts
      BY <2>2, <2>3 DEF InCharacter, lv
    <3>2. k + 1 \in 1 .. lv /\ h + 1 \in 1 .. lx /\ i + (k + 1) = h + 1 /\ h < lx + ls
      BY <1>1, <3>1
    <3>3. x[i + (k + 1)] = v[k + 1]
      BY <1>7, <3>2
    <3> QED  BY <1>9, <3>1, <3>2, <3>3
  <2>4. ASSUME v[k] \in Conts PROVE h > 1 /\ out[h - 1] \in Leads
    <3>1. k > 1 /\ v[k - 1] \in Leads
      BY <2>2, <2>4 DEF InCharacter
    <3>2. k - 1 \in 1 .. lv /\ h - 1 \in 1 .. lx /\ i + (k - 1) = h - 1 /\ h > 1
      BY <1>1, <3>1
    <3>3. x[i + (k - 1)] = v[k - 1]
      BY <1>7, <3>2
    <3> QED  BY <1>9, <3>1, <3>2, <3>3
  <2> HIDE DEF h
  <2>5. InCharacter(out, h)
    BY <1>9, <2>2, <2>3, <2>4 DEF InCharacter
  <2> QED  BY <2>5 DEF h
<1>14. ASSUME NEW k \in 1 .. ls PROVE InCharacter(out, lx + k) <=> ~(k = 1 /\ Cut)
  <2> DEFINE h == lx + k
             q == i + m + k
  <2>1. h \in Nat /\ h > 1 /\ q \in 1 .. n /\ (h < lx + ls <=> q < n)
    BY <1>1 DEF ls
  <2>2. out[h] = p[q] /\ InCharacter(p, q)
    BY <1>9, <1>11, <2>1 DEF Valid
  <2>3. ASSUME p[q] \in Leads PROVE h < lx + ls /\ out[h + 1] \in Conts
    <3>1. q < n /\ p[q + 1] \in Conts
      BY <2>2, <2>3 DEF InCharacter, n
    <3>2. k + 1 \in 1 .. ls /\ lx + (k + 1) = h + 1 /\ i + m + (k + 1) = q + 1
      BY <1>1, <3>1 DEF ls
    <3>3. out[lx + (k + 1)] = p[i + m + (k + 1)]
      BY <1>9, <3>2
    <3> QED  BY <2>1, <3>1, <3>2, <3>3
  <2>4. ASSUME p[q] \in Conts, k # 1 PROVE out[h - 1] \in Leads
    <3>1. p[q - 1] \in Leads
      BY <2>2, <2>4 DEF InCharacter
    <3>2. k - 1 \in 1 .. ls /\ lx + (k - 1) = h - 1 /\ i + m + (k - 1) = q - 1
      BY <1>1, <2>4
    <3>3. out[lx + (k - 1)] = p[i + m + (k - 1)]
      BY <1>9, <3>2
    <3> QED  BY <3>1, <3>2, <3>3
  <2>5. k = 1 => out[h - 1] \notin Leads
    <3> SUFFICES ASSUME k = 1 PROVE out[h - 1] \notin Leads
      OBVIOUS
    <3>1. h - 1 = lx /\ lx \in 1 .. lx /\ lv \in 1 .. lv /\ i + lv = lx
      BY <1>1
    <3>2. x[i + lv] = v[lv]
      BY <1>7, <3>1
    <3>3. out[lx] = v[lv]
      BY <1>9, <3>1, <3>2
    <3>4. v[lv] \notin Leads
      <4>1. InCharacter(v, lv)
        BY <1>11, <3>1 DEF Valid
      <4>2. ~(lv < lv)
        BY <1>1
      <4> QED  BY <4>1, <4>2 DEF InCharacter, lv
    <3> QED  BY <3>1, <3>3, <3>4
  <2>6. k = 1 => (Cut <=> p[q] \in Conts)
    BY <1>1, <1>5
  <2>7. Leads \cap Conts = {}
    BY InjectionAssumption
  <2> HIDE DEF h, q
  <2>8. InCharacter(out, h) <=> ~(k = 1 /\ Cut)
    BY <1>9, <2>1, <2>2, <2>3, <2>4, <2>5, <2>6, <2>7 DEF InCharacter
  <2> QED  BY <2>8 DEF h
<1>15. Marshal(out) = x \o y
  <2> DEFINE u == Marshal(out)
             w == x \o y
  <2>1. u \in Seq(A) /\ Len(u) = lx + ls
        /\ \A k \in 1 .. lx + ls : u[k] = IF InCharacter(out, k) THEN out[k] ELSE Replacement
    <3>1. /\ u \in Seq(A) /\ Len(u) = Len(out)
          /\ \A k \in 1 .. Len(out) : u[k] = IF InCharacter(out, k) THEN out[k] ELSE Replacement
      BY <1>9, MarshalFacts
    <3> QED  BY <1>9, <3>1
  <2> HIDE DEF u, w
  <2>2. ASSUME NEW k \in 1 .. lx + ls PROVE u[k] = w[k]
    <3>1. CASE k \in 1 .. lx
      <4>1. InCharacter(out, k)
        <5>1. CASE k \in 1 .. i
          BY <1>12, <5>1
        <5>2. CASE k \notin 1 .. i
          <6> DEFINE j == k - i
          <6>1. j \in 1 .. lv /\ i + j = k
            BY <1>1, <3>1, <5>2
          <6> HIDE DEF j
          <6> QED  BY <1>13, <6>1
        <5> QED  BY <5>1, <5>2
      <4> QED  BY <1>9, <1>10, <2>1, <3>1, <4>1 DEF w
    <3>2. CASE k \notin 1 .. lx
      <4> DEFINE j == k - lx
      <4>1. j \in 1 .. ls /\ lx + j = k
        BY <1>1, <3>2
      <4> HIDE DEF j, lx
      <4>2. w[k] = IF j = 1 /\ Cut THEN Replacement ELSE p[i + m + j]
        BY <1>10, <4>1 DEF w
      <4>3. out[k] = p[i + m + j] /\ (InCharacter(out, k) <=> ~(j = 1 /\ Cut))
        BY <1>9, <1>14, <4>1
      <4>4. u[k] = IF InCharacter(out, k) THEN out[k] ELSE Replacement
        BY <2>1
      <4>5. CASE j = 1 /\ Cut
        BY <4>2, <4>3, <4>4, <4>5
      <4>6. CASE ~(j = 1 /\ Cut)
        BY <4>2, <4>3, <4>4, <4>6
      <4> QED  BY <4>5, <4>6
    <3> QED  BY <3>1, <3>2
  <2>3. w \in Seq(A) /\ Len(w) = lx + ls
    BY <1>10 DEF w
  <2>4. u = w
    <3>1. \A k \in 1 .. Len(u) : u[k] = w[k]
      BY <2>1, <2>2
    <3> QED  BY <2>1, <2>3, <3>1, SameText
  <2> QED  BY <2>4 DEF u, w
<1> QED  BY <1>9, <1>15 DEF out, x, y, suf, pre, m, n

\* The prompt after a graft.
Grafted(v, t, p) == ReplaceFirstSubSeq(v, FindReplacementSegment(p, t), p)

\* As JSON it is the old one, with one segment replaced by the variant and what
\* followed the segment but for a character it cuts; and the segment is all of the
\* single-spaced template, if the prompt starts with that.
LEMMA GraftFacts ==
    ASSUME NEW A, Space \in A, Replacement \in A, NEW t \in Seq(A), NEW p \in Seq(A), NEW v \in Seq(A),
           LeftValid(t), Valid(p), Valid(v), v # Empty, FindReplacementSegment(p, t) # Empty
    PROVE  /\ Marshal(Grafted(v, t, p)) \in Seq(A)
           /\ \E s \in Seq(A) : IsSegment(s, t) /\ \E i \in 0 .. Len(p) - Len(s) :
                /\ SubSeq(p, i + 1, i + Len(s)) = s
                /\ Marshal(Grafted(v, t, p)) =
                      SubSeq(p, 1, i) \o v \o After(s, SubSeq(p, i + Len(s) + 1, Len(p)))
           /\ (t = Join(Fields(t)) /\ IsPrefix(t, p)) =>
                  Marshal(Grafted(v, t, p)) = v \o After(t, SubSeq(p, Len(t) + 1, Len(p)))
<1> DEFINE s == FindReplacementSegment(p, t)
           g == Grafted(v, t, p)
           H == A \ Conts
<1>1. WordsStartIn(t, H)
  <2> SUFFICES ASSUME NEW k \in Words(t), k = 1 \/ t[k - 1] \in Gaps PROVE t[k] \in H
    BY DEF WordsStartIn
  <2>1. k \in 1 .. Len(t) /\ t[k] \in A
    BY SeqFacts DEF Words
  <2>2. t[k] \in Conts => k > 1 /\ t[k - 1] \in Leads
    BY <2>1 DEF LeftValid
  <2> QED  BY <2>1, <2>2, InjectionAssumption
<1>2. s \in Starting(A, H) /\ IsSegment(s, t) /\ Occurs(s, p)
      /\ ((t = Join(Fields(t)) /\ IsPrefix(t, p)) => s = t)
  <2> HIDE DEF H
  <2> QED  BY <1>1, SegmentFacts
<1>3. g = ReplaceFirstSubSeq(v, s, p)
  BY DEF Grafted
<1> HIDE DEF s, g
<1>4. s \in NonEmpty(A) /\ s \in Seq(A) /\ s[1] \notin Conts
  BY <1>2 DEF Starting, NonEmpty
<1>5. PICK i \in 0 .. Len(p) - Len(s) :
        /\ SubSeq(p, i + 1, i + Len(s)) = s
        /\ \A j \in 0 .. i - 1 : SubSeq(p, j + 1, j + Len(s)) # s
        /\ g = SubSeq(p, 1, i) \o v \o SubSeq(p, i + Len(s) + 1, Len(p))
  <2>1. \E i \in 0 .. Len(p) - Len(s) :
          /\ SubSeq(p, i + 1, i + Len(s)) = s
          /\ \A j \in 0 .. i - 1 : SubSeq(p, j + 1, j + Len(s)) # s
          /\ ReplaceFirstSubSeq(v, s, p) = SubSeq(p, 1, i) \o v \o SubSeq(p, i + Len(s) + 1, Len(p))
    <3>1. s \in NonEmpty(A) /\ p \in Seq(A) /\ Occurs(s, p)
      BY <1>2, <1>4
    <3> QED  BY ONLY <3>1, ReplaceFacts
  <2> QED  BY ONLY <1>3, <2>1
<1>6. g \in Seq(A) /\ Marshal(g) = SubSeq(p, 1, i) \o v \o After(s, SubSeq(p, i + Len(s) + 1, Len(p)))
  <2>1. SubSeq(p, i + 1, i + Len(s)) = s
    BY <1>5
  <2>2. LET rest == SubSeq(p, i + Len(s) + 1, Len(p))
        IN  /\ SubSeq(p, 1, i) \o v \o rest \in Seq(A)
            /\ Marshal(SubSeq(p, 1, i) \o v \o rest) = SubSeq(p, 1, i) \o v \o After(s, rest)
    <3>1. /\ Replacement \in A /\ p \in Seq(A) /\ v \in Seq(A) /\ s \in NonEmpty(A)
          /\ i \in 0 .. Len(p) - Len(s) /\ SubSeq(p, i + 1, i + Len(s)) = s
          /\ Valid(p) /\ Valid(v) /\ v # Empty /\ s[1] \notin Conts
      BY <1>4, <2>1
    <3> QED  BY ONLY <3>1, MarshalSplice, ZenonT(60)
  <2> QED  BY <1>5, <2>2
<1>7. Marshal(g) \in Seq(A)
  BY <1>6, MarshalFacts
<1>8. (t = Join(Fields(t)) /\ IsPrefix(t, p)) => Marshal(g) = v \o After(t, SubSeq(p, Len(t) + 1, Len(p)))
  <2> SUFFICES ASSUME t = Join(Fields(t)), IsPrefix(t, p)
               PROVE  Marshal(g) = v \o After(t, SubSeq(p, Len(t) + 1, Len(p)))
    OBVIOUS
  <2>0. Len(p) \in Nat /\ Len(s) \in Nat /\ Len(s) <= Len(p) /\ i \in Nat
    <3>1. Len(p) \in Nat /\ Len(s) \in Nat
      BY <1>4, SeqFacts
    <3> QED  BY <3>1, <1>5
  <2>1. s = t
    BY <1>2
  <2>2. \A k \in 1 .. Len(s) : p[0 + k] = s[k]
    <3>1. \A k \in 1 .. Len(s) : p[k] = s[k]
      BY <2>1, PrefixOccurs
    <3>2. \A k \in 1 .. Len(s) : 0 + k = k
      BY <2>0
    <3> QED  BY <3>1, <3>2
  <2>3. 0 \in 0 .. Len(p) - Len(s)
    BY <2>0
  <2>4. SubSeq(p, 0 + 1, 0 + Len(s)) = s
    BY <1>4, <2>2, <2>3, OccursAt
  <2>5. i = 0
    <3>1. i # 0 => 0 \in 0 .. i - 1
      BY <2>0
    <3> QED  BY <1>5, <2>4, <3>1
  <2>6. SubSeq(p, 1, i) \o v = v
    <3>1. SubSeq(p, 1, i) = <<>>
      BY <2>5, SubSeqEmpty
    <3>2. <<>> \o v = v
      BY ConcatEmptySeq
    <3> QED  BY <3>1, <3>2
  <2>7. i + Len(s) + 1 = Len(t) + 1
    BY <2>0, <2>1, <2>5
  <2> HIDE DEF After
  <2> DEFINE f == i + Len(s) + 1
  <2>8. Marshal(g) = SubSeq(p, 1, i) \o v \o After(s, SubSeq(p, f, Len(p)))
    BY <1>6
  <2>9. f = Len(t) + 1
    BY <2>7
  <2> HIDE DEF f
  <2> QED  BY <2>1, <2>6, <2>8, <2>9
<1> QED  BY <1>2, <1>4, <1>5, <1>6, <1>7, <1>8 DEF s, g

-----------------------------------------------------------------------------
(* The inductive invariant *)

Texts == Seq(Pieces)
Bodies == [shape : Shapes \cup {"empty"}, text : Texts]

\* The variables have the types of their fields.
Typed ==
    /\ tmpl \in [redis : Texts, ttl : 0 .. MaxAge, pg : Texts]
    /\ issued \subseteq Texts
    /\ req \in [pc : {"idle", "chosen", "done"}, style : Styles, body : Bodies, chosen : Texts,
                template : Texts, variant : Texts, out : Bodies]
    /\ drv \in [pc : {"idle", "template", "promote"}, samples : SUBSET Prompts]
    /\ basis \subseteq Prompts

\* The style fits the body: the adapter finds the prompt there.
Fits(style, body) ==
    \/ style = "replicate" /\ body.shape = "input"
    \/ style = "openai-chat" /\ body.shape = "messages"

\* Between the lookup and the graft, the request has a prompt and a real variant.
Serving ==
    req.pc = "chosen" =>
        /\ Fits(req.style, req.body)
        /\ req.body.text \in Prompts
        /\ req.chosen \in issued
        /\ req.variant = Baseline

\* RunOnce has samples when it infers a template.
Sampled == drv.pc = "template" => drv.samples # {}

\* With Postgres, what the tiers hold is what the last good write inferred.
BasisIsStored ==
    (mode = "layered" /\ basis # {}) =>
        /\ tmpl.pg = DeriveTemplateFromSamples(basis)
        /\ tmpl.redis \in {Empty, DeriveTemplateFromSamples(basis)}

\* A variant is valid UTF-8; a template is, but for its end.
Readable ==
    /\ \A v \in issued : Valid(v)
    /\ LeftValid(tmpl.redis) /\ LeftValid(tmpl.pg)

IInv ==
    /\ TypeOK
    /\ Typed
    /\ Readable
    /\ Serving
    /\ Sampled
    /\ TemplateIsTheClients
    /\ BasisIsStored
    /\ GraftIsExact

\* The prompts of clients are valid texts, and so is every prompt of a request.
LEMMA PromptTexts ==
    /\ Prompts \subseteq Texts
    /\ \A q \in Prompts : Valid(q)
    /\ Space \in Pieces /\ Replacement \in Pieces
    /\ Empty \in Texts
    /\ \A r \in Requests : r.style \in Styles /\ r.body \in [shape : Shapes, text : Texts]
BY InjectionAssumption DEF Prompts, Texts, Gaps, Empty

\* An extracted prompt is the text of a body whose shape fits the style.
LEMMA ExtractFacts ==
    ASSUME NEW r \in Requests, Extract(r.style, Buffered(r.body)) # Empty
    PROVE  /\ Extract(r.style, Buffered(r.body)) = r.body.text
           /\ r.body.text \in Prompts
           /\ Fits(r.style, r.body)
           /\ Unchanged(r.body) = r.body
<1>1. r.style \in Styles /\ r.body \in [shape : Shapes, text : Texts]
  BY PromptTexts
<1>2. Buffered(r.body) = r.body
  <2>1. \A st \in Styles : Extract(st, NoBody) = Empty
    BY DEF Extract, ReplicateExtract, OpenAIExtract, GenericExtract, NoBody, Styles
  <2> QED  BY <1>1, <2>1 DEF Buffered
<1>3. Fits(r.style, r.body) /\ Extract(r.style, r.body) = r.body.text
  BY <1>1, <1>2 DEF Extract, ReplicateExtract, OpenAIExtract, GenericExtract, Styles, Fits
<1>4. r.body.text \in Prompts
  BY <1>2, <1>3 DEF Prompts
<1>5. Unchanged(r.body) = r.body
  BY <1>3 DEF Fits, Unchanged
<1> QED  BY <1>2, <1>3, <1>4, <1>5

\* A candidate without its dash is a trimmed text.
LEMMA UndashedFacts ==
    ASSUME NEW t \in Texts PROVE Undashed(t) \in Texts /\ IsTrimmed(Undashed(t))
<1> DEFINE u == TrimSpace(t)
<1>1. u \in Seq(Pieces) /\ IsTrimmed(u)
  BY TrimFacts DEF Texts
<1> HIDE DEF u
<1>2. CASE u # Empty /\ u[1] = Dash
  <2>1. Tail(u) \in Seq(Pieces)
    BY <1>1, <1>2, HeadTailProperties DEF Empty
  <2> DEFINE w == Tail(u)
  <2> HIDE DEF w
  <2>2. TrimSpace(w) \in Seq(Pieces) /\ IsTrimmed(TrimSpace(w))
    BY <2>1, TrimFacts DEF w
  <2> QED  BY <1>2, <2>2 DEF Undashed, Texts, u, w
<1>3. CASE ~(u # Empty /\ u[1] = Dash)
  BY <1>1, <1>3 DEF Undashed, Texts, u
<1> QED  BY <1>2, <1>3

\* The candidates of an answer are texts.
LEMMA CandidateTexts ==
    ASSUME NEW a \in Answers PROVE ParseCandidates(a) \in Seq(Texts)
<1>1. a.items \in Seq(Texts) /\ a.items # <<>>
  BY InjectionAssumption DEF Texts
<1>2. a.items[1] \in Texts
  <2> DEFINE s == a.items
  <2> HIDE DEF s
  <2>1. s \in Seq(Texts) /\ s # <<>>
    BY <1>1 DEF s
  <2>2. Len(s) \in Nat \ {0}
    BY <2>1, EmptySeq
  <2>3. 1 \in 1 .. Len(s)
    BY <2>2
  <2>4. s[1] \in Texts
    BY <2>1, <2>3, SeqFacts
  <2> QED  BY <2>4 DEF s
<1>3. CutAt({Backslash}, a.items[1]) \in Seq(Texts)
  BY <1>2, CutAtType DEF Texts
<1> QED  BY <1>1, <1>3 DEF ParseCandidates

-----------------------------------------------------------------------------
(* Each action keeps it *)

\* LogRequest adds only the prompt it was given.
LEMMA LogRequestFacts ==
    ASSUME NEW original, NEW sent, LogRequest(original, sent),
           original # Empty => original \in Prompts, \A e \in log : e.original \in Prompts
    PROVE  \A e \in log' : e.original \in Prompts
<1>1. CASE original = Empty
  BY <1>1 DEF LogRequest
<1>2. CASE original # Empty
  <2>1. PICK kept \in SUBSET log : log' = kept \cup {[original |-> Marshal(original), sent |-> Marshal(sent)]}
    BY <1>2 DEF LogRequest
  <2>2. Marshal(original) = original
    <3>1. Replacement \in Pieces /\ original \in Seq(Pieces) /\ Valid(original)
      BY <1>2, PromptTexts DEF Texts
    <3> QED  BY <3>1, MarshalFacts
  <2> QED  BY <1>2, <2>1, <2>2
<1> QED  BY <1>1, <1>2

\* Lookup: only a prompt a client wrote is logged or waits for its variant, and a
\* body that gets no variant goes out as it came.
LEMMA LookupKeeps ==
    ASSUME NEW request \in Requests, IInv, Lookup(request) PROVE IInv'
<1> DEFINE prompt == Extract(request.style, Buffered(request.body))
           r == [IdleReq EXCEPT !.style = request.style, !.body = request.body]
<1>1. UNCHANGED <<mode, tmpl, issued, drv, basis>>
  BY DEF Lookup
<1>2. request.style \in Styles /\ request.body \in [shape : Shapes, text : Texts] /\ Empty \in Texts
  BY PromptTexts
<1>3. prompt # Empty => /\ prompt = request.body.text /\ prompt \in Prompts
                        /\ Fits(request.style, request.body)
  BY ExtractFacts
<1>4. Unchanged(request.body) \in Bodies /\ NoBody \in Bodies /\ request.body \in Bodies
  BY <1>2 DEF Unchanged, NoBody, Bodies
<1>5. /\ IdleReq \in [pc : {"idle"}, style : Styles, body : Bodies, chosen : Texts,
                     template : Texts, variant : Texts, out : Bodies]
      /\ IdleReq.chosen = Baseline /\ IdleReq.variant = Baseline
  BY <1>2, <1>4 DEF IdleReq, Baseline, Styles
<1>6. CASE prompt # Empty /\ UNCHANGED log /\ \E v \in issued : req' = [r EXCEPT !.pc = "chosen", !.chosen = v]
  <2>1. PICK v \in issued : req' = [r EXCEPT !.pc = "chosen", !.chosen = v]
    BY <1>6
  <2>2. v \in Texts
    BY DEF IInv, Typed
  <2>3. /\ req' \in [pc : {"chosen"}, style : Styles, body : Bodies, chosen : Texts,
                     template : Texts, variant : Texts, out : Bodies]
        /\ req'.pc = "chosen" /\ req'.style = request.style /\ req'.body = request.body
        /\ req'.chosen = v /\ req'.variant = Baseline
    BY <1>2, <1>4, <1>5, <2>1, <2>2
  <2>4. TypeOK'
    BY <1>1, <1>6, <2>3 DEF IInv, TypeOK
  <2>5. Typed'
    BY <1>1, <2>3 DEF IInv, Typed
  <2>6. Serving'
    BY <1>1, <1>3, <1>6, <2>3 DEF Serving, Fits
  <2>7. (Readable /\ Sampled /\ TemplateIsTheClients /\ BasisIsStored)'
    BY <1>1 DEF IInv, Readable, Sampled, TemplateIsTheClients, BasisIsStored
  <2>8. GraftIsExact'
    BY <2>3 DEF GraftIsExact
  <2> QED  BY <2>4, <2>5, <2>6, <2>7, <2>8 DEF IInv
<1>7. CASE req' = [r EXCEPT !.pc = "done", !.out = Unchanged(request.body)] /\ LogRequest(prompt, prompt)
  <2>1. /\ req' \in [pc : {"done"}, style : Styles, body : Bodies, chosen : Texts,
                     template : Texts, variant : Texts, out : Bodies]
        /\ req'.pc = "done" /\ req'.body = request.body /\ req'.chosen = Baseline
        /\ req'.variant = Baseline /\ req'.out = Unchanged(request.body)
    BY <1>2, <1>4, <1>5, <1>7
  <2>2. \A e \in log' : e.original \in Prompts
    <3> HIDE DEF prompt
    <3> QED  BY <1>3, <1>7, LogRequestFacts DEF IInv, TypeOK
  <2>3. TypeOK'
    BY <1>1, <2>1, <2>2 DEF IInv, TypeOK
  <2>4. Typed'
    BY <1>1, <2>1 DEF IInv, Typed
  <2>5. Serving'
    BY <2>1 DEF Serving
  <2>6. (Readable /\ Sampled /\ TemplateIsTheClients /\ BasisIsStored)'
    BY <1>1 DEF IInv, Readable, Sampled, TemplateIsTheClients, BasisIsStored
  <2>7. GraftIsExact'
    BY <2>1 DEF GraftIsExact
  <2> QED  BY <2>3, <2>4, <2>5, <2>6, <2>7 DEF IInv
<1> QED  BY <1>6, <1>7 DEF Lookup, PickWeightedRandom

\* What GetSessionPrompt can return.
LEMMA SessionPrompts ==
    ASSUME NEW faults PROVE GetSessionPrompt(faults) \subseteq {tmpl.redis, tmpl.pg, Empty}
BY DEF GetSessionPrompt, RedisPrompt, PgPrompt

\* Graft: the facts about ReplaceFirstSubSeq, put to the request being served.
LEMMA GraftKeeps ==
    ASSUME IInv, Graft PROVE IInv'
<1> USE DEF IInv
<1>1. UNCHANGED <<mode, tmpl, issued, drv, basis>> /\ req.pc = "chosen"
  BY DEF Graft
<1> DEFINE prompt == Extract(req.style, req.body)
           p == req.body.text
<1>2. /\ Fits(req.style, req.body) /\ p \in Prompts /\ p # Empty
      /\ req.chosen \in issued /\ req.variant = Baseline
  BY <1>1 DEF Serving, Prompts
<1>3. prompt = p /\ \A w : Inject(req.style, req.body, w) = [shape |-> req.body.shape, text |-> Marshal(w)]
  <2>1. req.body \in Bodies
    BY DEF Typed
  <2>2. req.body = [shape |-> req.body.shape, text |-> req.body.text]
    BY <2>1 DEF Bodies
  <2> QED  BY <1>2, <2>2 DEF Fits, Extract, ReplicateExtract, OpenAIExtract, Inject, ReplicateInject, OpenAIInject
<1>4. PICK template \in GetSessionPrompt(Faults) :
        LET segment == FindReplacementSegment(prompt, template)
            newPrompt == ReplaceFirstSubSeq(req.chosen, segment, prompt)
            r == [req EXCEPT !.pc = "done", !.chosen = Baseline]
        IN  IF segment = Empty
              THEN /\ req' = [r EXCEPT !.out = req.body]
                   /\ LogRequest(prompt, prompt)
              ELSE /\ req' = [r EXCEPT !.out = Inject(req.style, req.body, newPrompt),
                                       !.variant = req.chosen, !.template = template]
                   /\ LogRequest(prompt, newPrompt)
  BY DEF Graft
<1> DEFINE segment == FindReplacementSegment(p, template)
           newPrompt == ReplaceFirstSubSeq(req.chosen, segment, p)
<1>5. /\ template \in Texts /\ req.chosen \in Texts /\ p \in Texts /\ Space \in Pieces /\ req.chosen # Empty
      /\ Replacement \in Pieces /\ LeftValid(template) /\ Valid(p) /\ Valid(req.chosen)
  <2>1. template \in {tmpl.redis, tmpl.pg, Empty}
    BY <1>4, SessionPrompts
  <2>2. tmpl.redis \in Texts /\ tmpl.pg \in Texts /\ issued \subseteq Texts
    BY DEF Typed
  <2>3. req.chosen # Empty
    BY <1>2 DEF TypeOK
  <2>4. LeftValid(Empty)
    BY DEF LeftValid, Empty
  <2>5. LeftValid(template) /\ Valid(p) /\ Valid(req.chosen)
    BY <1>2, <2>1, <2>4, PromptTexts DEF Readable
  <2> QED  BY <1>2, <2>1, <2>2, <2>3, <2>5, PromptTexts
<1>6. CASE segment = Empty
  <2>1. req' = [[req EXCEPT !.pc = "done", !.chosen = Baseline] EXCEPT !.out = req.body] /\ LogRequest(p, p)
    BY <1>3, <1>4, <1>6
  <2>2. \A e \in log' : e.original \in Prompts
    <3> HIDE DEF p
    <3> QED  BY <1>2, <2>1, LogRequestFacts DEF TypeOK
  <2>3. /\ req' \in [pc : {"done"}, style : Styles, body : Bodies, chosen : Texts,
                     template : Texts, variant : Texts, out : Bodies]
        /\ req'.pc = "done" /\ req'.body = req.body /\ req'.chosen = Baseline /\ req'.variant = Baseline
        /\ req'.out = req.body
    BY <1>2, <2>1, PromptTexts DEF Typed, Baseline
  <2>4. TypeOK'
    BY <1>1, <2>2, <2>3 DEF TypeOK
  <2>5. Typed'
    BY <1>1, <2>3 DEF Typed
  <2>6. Serving'
    BY <2>3 DEF Serving
  <2>7. (Readable /\ Sampled /\ TemplateIsTheClients /\ BasisIsStored)'
    BY <1>1 DEF Readable, Sampled, TemplateIsTheClients, BasisIsStored
  <2>8. GraftIsExact'
    BY <1>2, <2>3 DEF GraftIsExact, Unchanged, Fits
  <2> QED  BY <2>4, <2>5, <2>6, <2>7, <2>8
<1>7. CASE segment # Empty
  <2> DEFINE g == Marshal(newPrompt)
  <2>1. /\ req' = [[req EXCEPT !.pc = "done", !.chosen = Baseline] EXCEPT
                      !.out = [shape |-> req.body.shape, text |-> g],
                      !.variant = req.chosen, !.template = template]
        /\ LogRequest(p, newPrompt)
    BY <1>3, <1>4, <1>7
  <2>2. \A e \in log' : e.original \in Prompts
    <3> HIDE DEF p, newPrompt
    <3> QED  BY <1>2, <2>1, LogRequestFacts DEF TypeOK
  <2>3. /\ g \in Texts
        /\ \E s \in Texts : IsSegment(s, template) /\ \E i \in 0 .. Len(p) - Len(s) :
             /\ SubSeq(p, i + 1, i + Len(s)) = s
             /\ g = SubSeq(p, 1, i) \o req.chosen \o After(s, SubSeq(p, i + Len(s) + 1, Len(p)))
        /\ (template = Join(Fields(template)) /\ IsPrefix(template, p)) =>
              g = req.chosen \o After(template, SubSeq(p, Len(template) + 1, Len(p)))
    <3> DEFINE v == req.chosen
    <3>1. /\ Space \in Pieces /\ Replacement \in Pieces
          /\ v \in Seq(Pieces) /\ template \in Seq(Pieces) /\ p \in Seq(Pieces)
          /\ LeftValid(template) /\ Valid(p) /\ Valid(v) /\ v # Empty
          /\ FindReplacementSegment(p, template) # Empty
      BY <1>5, <1>7 DEF Texts
    <3>2. g = Marshal(Grafted(v, template, p))
      BY DEF Grafted
    <3> HIDE DEF p, v, newPrompt, g
    <3> DEFINE u == Marshal(Grafted(v, template, p))
    <3>3. /\ u \in Seq(Pieces)
          /\ \E s \in Seq(Pieces) : IsSegment(s, template) /\ \E i \in 0 .. Len(p) - Len(s) :
               /\ SubSeq(p, i + 1, i + Len(s)) = s
               /\ u = SubSeq(p, 1, i) \o v \o After(s, SubSeq(p, i + Len(s) + 1, Len(p)))
          /\ (template = Join(Fields(template)) /\ IsPrefix(template, p)) =>
                u = v \o After(template, SubSeq(p, Len(template) + 1, Len(p)))
      BY ONLY <3>1, GraftFacts, ZenonT(60)
    <3> HIDE DEF u
    <3>4. g = u
      BY <3>2 DEF u
    <3> QED  BY <3>3, <3>4 DEF v, Texts
  <2> HIDE DEF newPrompt, g
  <2>4. /\ req' \in [pc : {"done"}, style : Styles, body : Bodies, chosen : Texts,
                     template : Texts, variant : Texts, out : Bodies]
        /\ req'.pc = "done" /\ req'.body = req.body /\ req'.chosen = Baseline /\ req'.variant = req.chosen
        /\ req'.template = template /\ req'.out = [shape |-> req.body.shape, text |-> g]
    BY <1>5, <2>1, <2>3, PromptTexts DEF Typed, Baseline, Bodies
  <2>5. TypeOK'
    BY <1>1, <2>2, <2>4 DEF TypeOK
  <2>6. Typed'
    BY <1>1, <2>4 DEF Typed
  <2>7. Serving'
    BY <2>4 DEF Serving
  <2>8. (Readable /\ Sampled /\ TemplateIsTheClients /\ BasisIsStored)'
    BY <1>1 DEF Readable, Sampled, TemplateIsTheClients, BasisIsStored
  <2>9. GraftIsExact'
    <3> DEFINE v == req.chosen
               ws == Fields(template)
    <3>1. /\ req'.variant # Baseline /\ req'.out.shape = req'.body.shape /\ req'.out.text = g
          /\ req'.body.text = p /\ req'.variant = v /\ req'.template = template
      BY <1>5, <2>4 DEF Baseline
    <3>2. (template = Join(ws) /\ IsPrefix(template, p)) =>
             g = v \o After(template, SubSeq(p, Len(template) + 1, Len(p)))
      BY <2>3
    <3> HIDE DEF p, v
    <3>3. \E a, b \in 1 .. Len(ws) :
            /\ a + 2 <= b
            /\ LET segment_ == Join(SubSeq(ws, a, b))
               IN  \E i \in 0 .. Len(p) - Len(segment_) :
                     /\ SubSeq(p, i + 1, i + Len(segment_)) = segment_
                     /\ g = SubSeq(p, 1, i) \o v \o After(segment_, SubSeq(p, i + Len(segment_) + 1, Len(p)))
      <4>1. PICK s \in Texts : IsSegment(s, template) /\ \E i \in 0 .. Len(p) - Len(s) :
              /\ SubSeq(p, i + 1, i + Len(s)) = s
              /\ g = SubSeq(p, 1, i) \o v \o After(s, SubSeq(p, i + Len(s) + 1, Len(p)))
        BY <2>3 DEF v
      <4>2. PICK a, b \in 1 .. Len(ws) : a + 2 <= b /\ s = Join(SubSeq(ws, a, b))
        BY <4>1 DEF IsSegment
      <4> QED  BY <4>1, <4>2, Zenon
    <3> HIDE DEF ws
    <3> QED  BY <3>1, <3>2, <3>3, ZenonT(60) DEF GraftIsExact, ws
  <2> QED  BY <2>5, <2>6, <2>7, <2>8, <2>9
<1> QED  BY <1>6, <1>7

\* LoadSamples: what is sampled are prompts clients wrote.
LEMMA LoadSamplesKeeps ==
    ASSUME IInv, LoadSamples PROVE IInv'
<1> USE DEF IInv
<1>1. UNCHANGED <<mode, tmpl, issued, log, req, basis>>
  BY DEF LoadSamples
<1>2. PICK S \in (SUBSET {SampledPrompt(e) : e \in log}) \ {{}} : drv' = [pc |-> "template", samples |-> S]
  BY DEF LoadSamples
<1>3. S \subseteq Prompts /\ S # {}
  BY DEF TypeOK, SampledPrompt
<1>4. TypeOK'
  BY <1>1, <1>2 DEF TypeOK
<1>5. Typed'
  BY <1>1, <1>2, <1>3 DEF Typed
<1>6. Serving' /\ TemplateIsTheClients' /\ Readable'
  BY <1>1 DEF Serving, TemplateIsTheClients, Readable
<1>7. Sampled'
  BY <1>2, <1>3 DEF Sampled
<1>8. BasisIsStored' /\ GraftIsExact'
  BY <1>1 DEF BasisIsStored, GraftIsExact
<1> QED  BY <1>4, <1>5, <1>6, <1>7, <1>8

\* StoreTemplate: what is written, to both tiers, to one or to none, was inferred
\* from prompts clients wrote; and the basis names them only if every tier has it.
LEMMA StoreTemplateKeeps ==
    ASSUME IInv, StoreTemplate PROVE IInv'
<1> USE DEF IInv
<1> DEFINE inferred == DeriveTemplateFromSamples(drv.samples)
<1>1. UNCHANGED <<mode, issued, log, req>> /\ drv' = [IdleDrv EXCEPT !.pc = "promote"] /\ drv.pc = "template"
  BY DEF StoreTemplate
<1>2. drv.samples \in SUBSET Texts /\ drv.samples \subseteq Prompts /\ drv.samples # {}
  BY <1>1, PromptTexts DEF Typed, Sampled
<1>3. /\ inferred \in Texts /\ IsTrimmed(inferred) /\ LeftValid(inferred)
      /\ \A q \in drv.samples : Occurs(inferred, q)
  <2> DEFINE S == drv.samples
  <2>1. S \in SUBSET Seq(Pieces) /\ S # {} /\ \A q \in S : Valid(q)
    BY <1>2, PromptTexts DEF Texts
  <2> HIDE DEF S
  <2>2. /\ DeriveTemplateFromSamples(S) \in Seq(Pieces)
        /\ IsTrimmed(DeriveTemplateFromSamples(S))
        /\ \A q \in S : Occurs(DeriveTemplateFromSamples(S), q)
        /\ LeftValid(DeriveTemplateFromSamples(S))
    BY <2>1, DeriveFacts
  <2> QED  BY <2>2 DEF S, Texts
<1>4. tmpl \in [redis : Texts, ttl : 0 .. MaxAge, pg : Texts] /\ MaxAge \in Nat \ {0}
  BY InjectionAssumption DEF Typed
<1>5. PICK stored \in GetSessionPrompt(Faults) :
        IF inferred = Empty THEN UNCHANGED <<tmpl, basis>>
        ELSE IF inferred = stored
          THEN /\ basis' = IF basis = {} THEN {} ELSE drv.samples
               /\ UNCHANGED tmpl
          ELSE \E redisOK, pgOK \in BOOLEAN :
                 /\ ~redisOK => "redis" \in Faults
                 /\ ~pgOK => mode = "layered" /\ ("pg" \in Faults \/ ~Valid(inferred))
                 /\ (pgOK /\ mode = "layered") => Valid(inferred)
                 /\ SetSessionPrompt(inferred, redisOK, pgOK)
                 /\ basis' = IF redisOK /\ pgOK THEN drv.samples ELSE {}
  BY DEF StoreTemplate
<1> DEFINE t == inferred
<1> HIDE DEF inferred
<1>6. /\ \/ tmpl'.redis = tmpl.redis /\ tmpl'.ttl = tmpl.ttl
         \/ tmpl'.redis = t /\ tmpl'.ttl = MaxAge /\ t # Empty
      /\ tmpl'.pg = tmpl.pg \/ (tmpl'.pg = t /\ mode = "layered")
      /\ tmpl' \in [redis : Texts, ttl : 0 .. MaxAge, pg : Texts]
      /\ basis' \subseteq Prompts
      /\ (mode = "layered" /\ basis' # {}) =>
            \/ UNCHANGED <<tmpl, basis>>
            \/ basis' = drv.samples /\ tmpl'.pg = t /\ tmpl'.redis \in {Empty, t}
  <2>1. CASE inferred = Empty
    BY <1>4, <1>5, <2>1 DEF Typed
  <2>2. CASE inferred # Empty /\ inferred = stored
    <3>1. basis' = (IF basis = {} THEN {} ELSE drv.samples) /\ UNCHANGED tmpl
      BY <1>5, <2>2
    <3>2. stored \in {tmpl.redis, tmpl.pg, Empty}
      BY SessionPrompts
    <3>3. (mode = "layered" /\ basis # {}) => tmpl.pg = t /\ tmpl.redis \in {Empty, t}
      BY <2>2, <3>2 DEF BasisIsStored
    <3>4. basis' \subseteq Prompts
      BY <1>2, <3>1
    <3>5. (mode = "layered" /\ basis' # {}) => basis' = drv.samples /\ tmpl'.pg = t /\ tmpl'.redis \in {Empty, t}
      BY <3>1, <3>3
    <3> QED  BY <1>4, <3>1, <3>4, <3>5
  <2>3. CASE inferred # Empty /\ inferred # stored
    <3>1. PICK redisOK, pgOK \in BOOLEAN : /\ ~pgOK => mode = "layered"
                                           /\ SetSessionPrompt(inferred, redisOK, pgOK)
                                           /\ basis' = IF redisOK /\ pgOK THEN drv.samples ELSE {}
      BY <1>5, <2>3
    <3> DEFINE row == IF redisOK THEN [tmpl EXCEPT !.redis = t, !.ttl = MaxAge] ELSE tmpl
    <3>2. tmpl' = IF pgOK /\ mode = "layered" THEN [row EXCEPT !.pg = t] ELSE row
      BY <3>1 DEF SetSessionPrompt, RedisSet, PgUpsert
    <3>3. MaxAge \in 0 .. MaxAge
      BY <1>4
    <3>4. /\ row \in [redis : Texts, ttl : 0 .. MaxAge, pg : Texts] /\ row.pg = tmpl.pg
          /\ IF redisOK THEN row.redis = t /\ row.ttl = MaxAge ELSE row.redis = tmpl.redis /\ row.ttl = tmpl.ttl
      BY <1>3, <1>4, <3>3
    <3> HIDE DEF row
    <3>5. /\ tmpl' \in [redis : Texts, ttl : 0 .. MaxAge, pg : Texts]
          /\ tmpl'.redis = row.redis /\ tmpl'.ttl = row.ttl
          /\ tmpl'.pg = IF pgOK /\ mode = "layered" THEN t ELSE row.pg
      BY <1>3, <3>2, <3>4
    <3> QED  BY <1>2, <2>3, <3>1, <3>4, <3>5
  <2> QED  BY <2>1, <2>2, <2>3
<1>7. TypeOK'
  <2>1. drv'.pc = "promote"
    BY <1>1 DEF IdleDrv
  <2>2. tmpl'.redis = Empty <=> tmpl'.ttl = 0
    BY <1>4, <1>6 DEF TypeOK
  <2>3. IsTrimmed(tmpl'.redis) /\ IsTrimmed(tmpl'.pg)
    BY <1>3, <1>6 DEF TypeOK
  <2>4. tmpl'.ttl \in 0 .. MaxAge
    BY <1>6
  <2>5. mode = "redis" => tmpl'.pg = Empty
    BY <1>6 DEF TypeOK
  <2> QED  BY <1>1, <2>1, <2>2, <2>3, <2>4, <2>5 DEF TypeOK
<1>8. Typed'
  <2>1. drv' \in [pc : {"idle", "template", "promote"}, samples : SUBSET Prompts]
    BY <1>1 DEF IdleDrv
  <2> QED  BY <1>1, <1>6, <2>1 DEF Typed
<1>9. Serving' /\ Sampled' /\ GraftIsExact' /\ Readable'
  <2>1. LeftValid(tmpl'.redis) /\ LeftValid(tmpl'.pg)
    BY <1>3, <1>6 DEF Readable
  <2>2. Readable'
    BY <1>1, <2>1 DEF Readable
  <2> QED  BY <1>1, <2>2 DEF Serving, Sampled, GraftIsExact, IdleDrv
<1>10. TemplateIsTheClients'
  <2>1. \E q \in Prompts : Occurs(t, q)
    BY <1>2, <1>3
  <2>2. {tmpl'.redis, tmpl'.pg} \subseteq {tmpl.redis, tmpl.pg, t}
    BY <1>6
  <2> QED  BY <2>1, <2>2 DEF TemplateIsTheClients
<1>11. BasisIsStored'
  <2> SUFFICES ASSUME mode = "layered", basis' # {}
               PROVE  /\ tmpl'.pg = DeriveTemplateFromSamples(basis')
                      /\ tmpl'.redis \in {Empty, DeriveTemplateFromSamples(basis')}
    BY <1>1 DEF BasisIsStored
  <2>1. CASE UNCHANGED <<tmpl, basis>>
    BY <2>1 DEF BasisIsStored
  <2>2. CASE basis' = drv.samples /\ tmpl'.pg = t /\ tmpl'.redis \in {Empty, t}
    BY <2>2 DEF inferred
  <2> QED  BY <1>6, <2>1, <2>2
<1> QED  BY <1>7, <1>8, <1>9, <1>10, <1>11

\* Promote: the variants written are trimmed and not blank.
LEMMA PromoteKeeps ==
    ASSUME IInv, Promote PROVE IInv'
<1> USE DEF IInv
<1>1. UNCHANGED <<mode, tmpl, log, req, basis>> /\ drv' = IdleDrv
  BY DEF Promote
<1>2. PICK a \in Answers :
        LET list == ParseCandidates(a)
            clean == CleanCandidates(list)
            first == {i \in clean : Cardinality({k \in clean : k <= i}) <= OutputSize}
        IN  issued' = issued \cup {Marshal(Undashed(list[i])) : i \in first}
  BY DEF Promote
<1> DEFINE list == ParseCandidates(a)
           clean == CleanCandidates(list)
           first == {i \in clean : Cardinality({k \in clean : k <= i}) <= OutputSize}
<1>3. issued' = issued \cup {Marshal(Undashed(list[i])) : i \in first}
  BY <1>2
<1>4. ASSUME NEW i \in first
      PROVE  LET v == Marshal(Undashed(list[i]))
             IN  v \in Texts /\ IsTrimmed(v) /\ v # Empty /\ Valid(v)
  <2>1. i \in DOMAIN list /\ Undashed(list[i]) # Empty
    BY DEF CleanCandidates
  <2>2. list \in Seq(Texts)
    BY CandidateTexts
  <2> HIDE DEF list
  <2>3. list[i] \in Texts
    BY <2>1, <2>2, SeqFacts
  <2> DEFINE u == Undashed(list[i])
  <2>4. u \in Texts /\ IsTrimmed(u) /\ u # Empty
    BY <2>1, <2>3, UndashedFacts
  <2>5. Replacement \in Pieces
    BY PromptTexts
  <2> HIDE DEF u
  <2>6. Marshal(u) \in Texts /\ IsTrimmed(Marshal(u)) /\ Marshal(u) # Empty /\ Valid(Marshal(u))
    BY <2>4, <2>5, MarshalFacts DEF Texts
  <2> QED  BY <2>6 DEF u
<1> HIDE DEF list, first
<1>5. issued' \subseteq Texts /\ \A v \in issued' : v # Empty /\ IsTrimmed(v) /\ Valid(v)
  BY <1>3, <1>4 DEF Typed, TypeOK, Readable
<1>6. issued \subseteq issued'
  BY <1>3
<1>7. TypeOK'
  <2>1. drv'.pc = "idle"
    BY <1>1 DEF IdleDrv
  <2>2. req.chosen \in issued' \cup {Baseline}
    BY <1>6 DEF TypeOK
  <2> QED  BY <1>1, <1>5, <2>1, <2>2 DEF TypeOK
<1>8. Typed'
  <2>1. drv' \in [pc : {"idle", "template", "promote"}, samples : SUBSET Prompts]
    BY <1>1 DEF IdleDrv
  <2> QED  BY <1>1, <1>5, <2>1 DEF Typed
<1>9. Serving'
  BY <1>1, <1>6 DEF Serving
<1>10. Sampled' /\ TemplateIsTheClients' /\ Readable'
  BY <1>1, <1>5 DEF Sampled, TemplateIsTheClients, IdleDrv, Readable
<1>11. BasisIsStored' /\ GraftIsExact'
  BY <1>1 DEF BasisIsStored, GraftIsExact
<1> QED  BY <1>7, <1>8, <1>9, <1>10, <1>11

\* PromoteNothing only ends the run.
LEMMA PromoteNothingKeeps ==
    ASSUME IInv, PromoteNothing PROVE IInv'
<1> USE DEF IInv
<1>1. UNCHANGED <<mode, tmpl, issued, log, req, basis>> /\ drv' = IdleDrv
  BY DEF PromoteNothing
<1>2. drv'.pc = "idle" /\ drv' \in [pc : {"idle", "template", "promote"}, samples : SUBSET Prompts]
  BY <1>1 DEF IdleDrv
<1>3. TypeOK'
  BY <1>1, <1>2 DEF TypeOK
<1>4. Typed'
  BY <1>1, <1>2 DEF Typed
<1>5. Serving' /\ Sampled' /\ TemplateIsTheClients' /\ Readable'
  BY <1>1, <1>2 DEF Serving, Sampled, TemplateIsTheClients, Readable
<1>6. BasisIsStored' /\ GraftIsExact'
  BY <1>1 DEF BasisIsStored, GraftIsExact
<1> QED  BY <1>3, <1>4, <1>5, <1>6

\* What Tick and RedisRestart have in common: the Redis key may go, and requests
\* may be forgotten, but nothing is written.
LEMMA ForgettingKeeps ==
    ASSUME IInv, UNCHANGED <<mode, issued, req, drv, basis>>, log' \subseteq log,
           tmpl' \in [redis : Texts, ttl : 0 .. MaxAge, pg : Texts],
           tmpl'.pg = tmpl.pg, tmpl'.redis \in {tmpl.redis, Empty},
           tmpl'.redis = Empty <=> tmpl'.ttl = 0
    PROVE  IInv'
<1> USE DEF IInv
<1>1. IsTrimmed(tmpl'.redis)
  <2>1. Words(Empty) = {}
    BY DEF Words, Empty
  <2>2. IsTrimmed(Empty)
    BY <2>1 DEF IsTrimmed, TrimSpace
  <2> QED  BY <2>2 DEF TypeOK
<1>2. TypeOK'
  <2>1. tmpl'.ttl \in 0 .. MaxAge
    OBVIOUS
  <2> QED  BY <1>1, <2>1 DEF TypeOK
<1>3. Typed'
  BY DEF Typed
<1>4. Serving' /\ Sampled' /\ Readable'
  <2>1. LeftValid(Empty)
    BY DEF LeftValid, Empty
  <2>2. Readable'
    BY <2>1 DEF Readable
  <2> QED  BY <2>2 DEF Serving, Sampled
<1>5. TemplateIsTheClients'
  BY DEF TemplateIsTheClients
<1>6. BasisIsStored' /\ GraftIsExact'
  BY DEF BasisIsStored, GraftIsExact
<1> QED  BY <1>2, <1>3, <1>4, <1>5, <1>6

\* Tick: the key goes exactly when its time to live is over.
LEMMA TickKeeps ==
    ASSUME IInv, Tick PROVE IInv'
<1>1. tmpl \in [redis : Texts, ttl : 0 .. MaxAge, pg : Texts] /\ MaxAge \in Nat
  BY InjectionAssumption DEF IInv, Typed
<1>2. tmpl.redis = Empty <=> tmpl.ttl = 0
  BY DEF IInv, TypeOK
<1>3. tmpl.ttl > 0 /\ tmpl' = [tmpl EXCEPT !.ttl = @ - 1, !.redis = IF tmpl.ttl = 1 THEN Empty ELSE @]
  BY DEF Tick
<1>4. tmpl.ttl - 1 \in 0 .. MaxAge /\ Empty \in Texts
  BY <1>1, <1>3, PromptTexts
<1>5. /\ tmpl' \in [redis : Texts, ttl : 0 .. MaxAge, pg : Texts]
      /\ tmpl'.pg = tmpl.pg /\ tmpl'.ttl = tmpl.ttl - 1
      /\ tmpl'.redis = IF tmpl.ttl = 1 THEN Empty ELSE tmpl.redis
  BY <1>1, <1>3, <1>4
<1>6. tmpl'.redis = Empty <=> tmpl'.ttl = 0
  BY <1>1, <1>2, <1>3, <1>5
<1>7. UNCHANGED <<mode, issued, req, drv, basis>> /\ log' \subseteq log
  BY DEF Tick
<1> QED  BY <1>5, <1>6, <1>7, ForgettingKeeps

\* RedisRestart: the row in Postgres and the basis stay.
LEMMA RedisRestartKeeps ==
    ASSUME IInv, RedisRestart PROVE IInv'
<1>1. tmpl \in [redis : Texts, ttl : 0 .. MaxAge, pg : Texts] /\ MaxAge \in Nat /\ Empty \in Texts
  BY InjectionAssumption, PromptTexts DEF IInv, Typed
<1>2. tmpl' = [tmpl EXCEPT !.redis = Empty, !.ttl = 0]
  BY DEF RedisRestart
<1>3. /\ tmpl' \in [redis : Texts, ttl : 0 .. MaxAge, pg : Texts]
      /\ tmpl'.pg = tmpl.pg /\ tmpl'.ttl = 0 /\ tmpl'.redis = Empty
  <2>1. 0 \in 0 .. MaxAge
    BY <1>1
  <2> QED  BY <1>1, <1>2, <2>1
<1>4. UNCHANGED <<mode, issued, req, drv, basis>>
  BY DEF RedisRestart
<1>5. log' \subseteq log
  BY DEF RedisRestart
<1> QED  BY <1>3, <1>4, <1>5, ForgettingKeeps

-----------------------------------------------------------------------------
(* The theorems *)

\* A fresh deployment has no template, no variants and no requests.
LEMMA InitHolds == Init => IInv
<1> SUFFICES ASSUME Init PROVE IInv
  OBVIOUS
<1> USE DEF Init
<1>1. Words(Empty) = {}
  BY DEF Words, Empty
<1>2. IsTrimmed(Empty)
  BY <1>1 DEF IsTrimmed, TrimSpace
<1>3. Empty \in Texts /\ NoBody \in Bodies /\ MaxAge \in Nat
  BY InjectionAssumption, PromptTexts DEF NoBody, Bodies
<1>4. TypeOK
  BY <1>2, <1>3 DEF TypeOK, IdleReq, IdleDrv
<1>5. Typed
  <2>1. req \in [pc : {"idle", "chosen", "done"}, style : Styles, body : Bodies, chosen : Texts,
                 template : Texts, variant : Texts, out : Bodies]
    BY <1>3 DEF IdleReq, Baseline, Styles
  <2>2. tmpl \in [redis : Texts, ttl : 0 .. MaxAge, pg : Texts]
    BY <1>3
  <2>3. drv \in [pc : {"idle", "template", "promote"}, samples : SUBSET Prompts]
    BY DEF IdleDrv
  <2> QED  BY <2>1, <2>2, <2>3 DEF Typed
<1>6. Serving /\ Sampled /\ GraftIsExact /\ Readable
  <2>1. LeftValid(Empty)
    BY DEF LeftValid, Empty
  <2>2. Readable
    BY <2>1 DEF Readable
  <2> QED  BY <2>2 DEF Serving, Sampled, GraftIsExact, IdleReq, IdleDrv
<1>7. TemplateIsTheClients
  BY DEF TemplateIsTheClients
<1>8. BasisIsStored
  BY DEF BasisIsStored
<1> QED  BY <1>4, <1>5, <1>6, <1>7, <1>8 DEF IInv

\* The invariant holds in every state, for every set of requests and answers,
\* every output size and time to live, and every choice of faults.
THEOREM Inductive == Spec => []IInv
<1>1. Init => IInv
  BY InitHolds
<1>2. IInv /\ [Next]_vars => IInv'
  <2> SUFFICES ASSUME IInv, [Next]_vars PROVE IInv'
    OBVIOUS
  <2>1. CASE \E request \in Requests : Lookup(request)
    BY <2>1, LookupKeeps
  <2>2. CASE Graft
    BY <2>2, GraftKeeps
  <2>3. CASE LoadSamples
    BY <2>3, LoadSamplesKeeps
  <2>4. CASE StoreTemplate
    BY <2>4, StoreTemplateKeeps
  <2>5. CASE Promote
    BY <2>5, PromoteKeeps
  <2>6. CASE PromoteNothing
    BY <2>6, PromoteNothingKeeps
  <2>7. CASE Tick
    BY <2>7, TickKeeps
  <2>8. CASE RedisRestart
    BY <2>8, RedisRestartKeeps
  <2>9. CASE UNCHANGED vars
    <3> USE <2>9 DEF vars, IInv
    <3>1. TypeOK'
      BY DEF TypeOK
    <3>2. Typed'
      BY DEF Typed
    <3>3. (Readable /\ Serving /\ Sampled /\ TemplateIsTheClients)'
      BY DEF Readable, Serving, Sampled, TemplateIsTheClients
    <3>4. BasisIsStored' /\ GraftIsExact'
      BY DEF BasisIsStored, GraftIsExact
    <3> QED  BY <3>1, <3>2, <3>3, <3>4
  <2> QED  BY <2>1, <2>2, <2>3, <2>4, <2>5, <2>6, <2>7, <2>8, <2>9 DEF Next
<1> QED  BY <1>1, <1>2, PTL DEF Spec

\* Types; templates and variants are trimmed, and no variant is blank.
THEOREM TypeCorrect == Spec => []TypeOK
<1>1. IInv => TypeOK
  BY DEF IInv
<1> QED  BY <1>1, Inductive, PTL

\* Whatever fails, a stored template is a part of a prompt some client wrote.
THEOREM NoDrift == Spec => []TemplateIsTheClients
<1>1. IInv => TemplateIsTheClients
  BY DEF IInv
<1> QED  BY <1>1, Inductive, PTL

\* Once a template is in both tiers, the prompts it was inferred from can be
\* grafted into, whatever Redis loses afterwards.
THEOREM KeepsInjecting == Spec => []StaysInjectable
<1>1. IInv => StaysInjectable
  <2> SUFFICES ASSUME IInv, mode = "layered", basis # {},
                      FindReplacementSegment(DeriveTemplateFromSamples(basis), DeriveTemplateFromSamples(basis)) # Empty,
                      NEW p \in basis, NEW t \in GetSessionPrompt({})
               PROVE  FindReplacementSegment(p, t) # Empty
    BY DEF StaysInjectable
  <2> DEFINE d == DeriveTemplateFromSamples(basis)
  <2>1. basis \subseteq Texts /\ p \in Seq(Pieces) /\ Space \in Pieces
    BY PromptTexts DEF IInv, Typed, Texts
  <2>2. tmpl.pg = d /\ tmpl.redis \in {Empty, d}
    BY DEF IInv, BasisIsStored
  <2>3. t = d
    BY <2>2 DEF GetSessionPrompt, RedisPrompt, PgPrompt
  <2>4. d \in Seq(Pieces) /\ Occurs(d, p)
    <3>1. basis \in SUBSET Seq(Pieces)
      BY <2>1 DEF Texts
    <3> QED  BY <3>1, DeriveFacts
  <2>5. FindReplacementSegment(d, d) # Empty
    OBVIOUS
  <2> HIDE DEF d
  <2>6. FindReplacementSegment(p, d) # Empty
    BY <2>1, <2>4, <2>5, SegmentCarries
  <2> QED  BY <2>3, <2>6
<1> QED  BY <1>1, Inductive, PTL

\* What goes upstream differs from what came only by a whole variant in place of one
\* segment of the template, and by what is left of a character the segment cuts.
THEOREM GraftsExactly == Spec => []GraftIsExact
<1>1. IInv => GraftIsExact
  BY DEF IInv
<1> QED  BY <1>1, Inductive, PTL

=============================================================================
