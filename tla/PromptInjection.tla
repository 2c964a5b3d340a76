-------------------------- MODULE PromptInjection --------------------------
(***************************************************************************)
(* How a variant gets into a prompt, for one session.  The optimizer       *)
(* infers the session's prompt template from the prompts it samples and    *)
(* stores it in two tiers; the proxy finds a segment of that template in   *)
(* the prompt of a request, replaces it by a variant, and logs the request *)
(* whose prompt the optimizer will sample later on.                        *)
(*                                                                         *)
(* A text is a sequence of pieces.  A piece is a gap (white space) or a    *)
(* run of other characters that texts have in common or differ in: a word  *)
(* of which only the beginning is shared is two pieces.  Bytes that differ *)
(* are different pieces, so a common prefix of bytes is one of pieces.  It *)
(* may end inside a character in UTF-8: a character some prefix cuts is    *)
(* two pieces as well, a lead and a continuation, and writing JSON puts    *)
(* U+FFFD in the place of either one without the other.                    *)
(***************************************************************************)
EXTENDS Integers, Sequences, SequencesExt, FiniteSets

CONSTANTS
    Pieces,           \* what texts are made of
    Space, Newline,   \* the gaps
    Leads, Conts,     \* the two parts of characters a common prefix may cut
    Replacement,      \* U+FFFD
    Requests,         \* what clients send: X-PG-Api-Style and the body
    Dash, Backslash,  \* a leading "-", and the two characters of a written \n
    Answers,          \* what the LLM may answer to the generation prompt
    OutputSize,       \* PG_GEPA_OUTPUT_SIZE
    MaxAge,           \* PG_MAX_VARIANT_AGE in ticks
    MaxLogged,        \* bound: conversations the optimizer may still sample
    Modes,            \* the modes of this instance
    Faults            \* the faults this instance is exposed to

Gaps == {Space, Newline}
Empty == <<>>

\* A lead is followed by a continuation, a continuation follows a lead.
InCharacter(t, i) ==
    /\ t[i] \in Leads => i < Len(t) /\ t[i + 1] \in Conts
    /\ t[i] \in Conts => i > 1 /\ t[i - 1] \in Leads
Valid(t) == \A i \in DOMAIN t : InCharacter(t, i)

\* json.Marshal: the text a reader of the JSON decodes.
Marshal(t) == [i \in DOMAIN t |-> IF InCharacter(t, i) THEN t[i] ELSE Replacement]

\* A body is JSON with a string at input.prompt ("input"), at
\* messages[0].content ("messages") or at neither ("opaque"); or it is
\* "streamed" because of its type or size; or reading it fails ("broken").
Shapes == {"input", "messages", "opaque", "streamed", "broken"}
Styles == {"replicate", "openai-chat", "none"}

ASSUME InjectionAssumption ==
    /\ Gaps \subseteq Pieces /\ Space # Newline
    /\ Leads \cap Conts = {} /\ (Leads \cup Conts) \cap Gaps = {}
    /\ Replacement \in Pieces \ (Gaps \cup Leads \cup Conts)
    /\ Answers \subseteq [form : {"array", "text"}, items : Seq(Seq(Pieces)) \ {<<>>}]
    /\ OutputSize \in Nat \ {0}
    /\ MaxAge \in Nat \ {0} /\ MaxLogged \in Nat \ {0}
    /\ Requests \subseteq [style : Styles, body : [shape : Shapes, text : Seq(Pieces)]]
    /\ \A r \in Requests : r.body.text # Empty <=> r.body.shape \in {"input", "messages"}
    /\ \A r \in Requests : Valid(r.body.text)
    /\ Modes \subseteq {"layered", "redis"}
    /\ Faults \subseteq {"redis", "pg"}

VARIABLES
    mode,     \* whether there is a Postgres, fixed by the deployment
    tmpl,     \* session prompt: the Redis key, its time to live, the pg row
    issued,   \* the variants promotions have written
    log,      \* logged conversations: promptOriginal and prompt
    req,      \* the request the proxy is serving or served last
    drv,      \* where RunOnce is and the prompts it sampled
    basis     \* auxiliary: the prompts the stored template was last inferred
              \* from, {} before that and from a failed write to the next good one

vars == <<mode, tmpl, issued, log, req, drv, basis>>

NoBody == [shape |-> "empty", text |-> Empty]
Baseline == Empty
IdleReq == [pc |-> "idle", style |-> "none", body |-> NoBody, chosen |-> Baseline,
            template |-> Empty, variant |-> Baseline, out |-> NoBody]
IdleDrv == [pc |-> "idle", samples |-> {}]

Init ==
    /\ mode \in Modes
    /\ tmpl = [redis |-> Empty, ttl |-> 0, pg |-> Empty]
    /\ issued = {}
    /\ log = {}
    /\ req = IdleReq
    /\ drv = IdleDrv
    /\ basis = {}

-----------------------------------------------------------------------------
(* Texts: strings.TrimSpace, strings.Fields and strings.Join *)

Words(t) == {i \in DOMAIN t : t[i] \notin Gaps}
TrimSpace(t) ==
    IF Words(t) = {} THEN Empty
    ELSE SubSeq(t, CHOOSE i \in Words(t) : \A j \in Words(t) : i <= j,
                   CHOOSE i \in Words(t) : \A j \in Words(t) : i >= j)

\* A text cut at each of the pieces in C.
CutAt(C, t) ==
    LET cut[k \in 0 .. Len(t)] ==
            IF k = 0 THEN <<Empty>>
            ELSE IF t[k] \in C THEN Append(cut[k - 1], Empty)
            ELSE [cut[k - 1] EXCEPT ![Len(cut[k - 1])] = Append(@, t[k])]
    IN  cut[Len(t)]

Fields(t) ==
    LET words[k \in 0 .. Len(t)] ==
            IF k = 0 THEN <<>>
            ELSE IF t[k] \in Gaps THEN words[k - 1]
            ELSE IF k = 1 \/ t[k - 1] \in Gaps THEN Append(words[k - 1], <<t[k]>>)
            ELSE [words[k - 1] EXCEPT ![Len(words[k - 1])] = Append(@, t[k])]
    IN  words[Len(t)]

Join(ws) ==
    LET joined[k \in 0 .. Len(ws)] ==
            IF k = 0 THEN Empty
            ELSE IF k = 1 THEN ws[1]
            ELSE joined[k - 1] \o <<Space>> \o ws[k]
    IN  joined[Len(ws)]

Occurs(s, t) == \E i \in 0 .. Len(t) - Len(s) : SubSeq(t, i + 1, i + Len(s)) = s

-----------------------------------------------------------------------------
(* The session prompt in its two tiers *)

\* What a read of one tier may return; an error reads as nothing, and without
\* Postgres its row stays empty.
RedisPrompt(faults) == {tmpl.redis} \cup (IF "redis" \in faults THEN {Empty} ELSE {})
PgPrompt(faults) == {tmpl.pg} \cup (IF "pg" \in faults THEN {Empty} ELSE {})

\* Mutant of GetSessionPrompt: no fallback to Postgres.
GetSessionPromptRedisOnly(faults) == RedisPrompt(faults)

\* Redis, or, when that has nothing or fails, Postgres.
GetSessionPrompt(faults) ==
    LET redis == RedisPrompt(faults)
    IN  (redis \ {Empty}) \cup (IF Empty \in redis THEN PgPrompt(faults) ELSE {})

\* Redis SET with a time to live; the upsert in Postgres.
RedisSet(row, t) == [row EXCEPT !.redis = t, !.ttl = MaxAge]
PgUpsert(row, t) == [row EXCEPT !.pg = t]

\* Redis and then Postgres, whatever became of Redis.
SetSessionPrompt(t, redisOK, pgOK) ==
    LET row == IF redisOK THEN RedisSet(tmpl, t) ELSE tmpl
    IN  tmpl' = IF pgOK /\ mode = "layered" THEN PgUpsert(row, t) ELSE row

\* Time passes, and Redis expires the key.
Tick ==
    /\ tmpl.ttl > 0
    /\ tmpl' = [tmpl EXCEPT !.ttl = @ - 1, !.redis = IF tmpl.ttl = 1 THEN Empty ELSE @]
    /\ UNCHANGED <<mode, issued, log, req, drv, basis>>

\* Redis comes back empty; conversations the janitor has not copied are gone.
RedisRestart ==
    /\ "redis" \in Faults
    /\ tmpl' = [tmpl EXCEPT !.redis = Empty, !.ttl = 0]
    /\ log' \in IF mode = "layered" THEN SUBSET log ELSE {{}}
    /\ UNCHANGED <<mode, issued, req, drv, basis>>

-----------------------------------------------------------------------------
(* The adapters: where a request body keeps its prompt *)

\* StreamOrBuffer: the buffered body, and what is forwarded when it is not
\* replaced.  After a read error there is neither a buffer nor a stream.
Buffered(b) == IF b.shape \in {"streamed", "broken"} THEN NoBody ELSE b
Unchanged(b) == IF b.shape = "broken" THEN NoBody ELSE b

ReplicateExtract(b) == IF b.shape = "input" THEN b.text ELSE Empty
ReplicateInject(b, t) == [shape |-> "input", text |-> Marshal(t)]

OpenAIExtract(b) == IF b.shape = "messages" THEN b.text ELSE Empty
OpenAIInject(b, t) == IF b.shape = "messages" THEN [b EXCEPT !.text = Marshal(t)] ELSE b

GenericExtract(b) == Empty
GenericInject(b, t) == b

\* The adapter named by X-PG-Api-Style, else found by the host ("none": neither).
Extract(style, b) ==
    CASE style = "replicate"   -> ReplicateExtract(b)
      [] style = "openai-chat" -> OpenAIExtract(b)
      [] style = "none"        -> GenericExtract(b)
Inject(style, b, t) ==
    CASE style = "replicate"   -> ReplicateInject(b, t)
      [] style = "openai-chat" -> OpenAIInject(b, t)
      [] style = "none"        -> GenericInject(b, t)

-----------------------------------------------------------------------------
(* ServeHTTP *)

\* Mutant of FindReplacementSegment: the shortest prefix first, and no windows.
FindShortestSegment(prompt, template) ==
    LET ws == Fields(template)
        prefixes == [i \in 1 .. Len(ws) - 2 |-> Join(SubSeq(ws, 1, i + 2))]
        k == SelectInSeq(prefixes, LAMBDA s : Occurs(s, prompt))
    IN  IF k = 0 THEN Empty ELSE prefixes[k]

\* The template's words, joined by single spaces: the longest prefix of at least
\* three words that occurs in the prompt, else the first window of three.
FindReplacementSegment(prompt, template) ==
    LET ws == Fields(template)
        n == Len(ws)
        prefixes == [i \in 1 .. n - 2 |-> Join(SubSeq(ws, 1, n + 1 - i))]
        windows == [i \in 1 .. n - 2 |-> Join(SubSeq(ws, i, i + 2))]
        k == SelectInSeq(prefixes \o windows, LAMBDA s : Occurs(s, prompt))
    IN  IF k = 0 THEN Empty ELSE (prefixes \o windows)[k]

\* LogRequest writes JSON.  Without a prompt there is no conversation id, and the
\* entry is never paired with anything.  Older entries are trimmed off the list.
LogRequest(original, sent) ==
    IF original = Empty THEN UNCHANGED log
    ELSE \E kept \in SUBSET log :
           /\ Cardinality(kept) < MaxLogged
           /\ log' = kept \cup {[original |-> Marshal(original), sent |-> Marshal(sent)]}

\* The clock decides, and Promote gives all variants of a set the same positive
\* weight: any of them may be picked.
PickWeightedRandom(variants) == variants

\* The body is buffered, its prompt extracted and the variants looked up: the
\* answer is some promotion's set (VariantService), or none.
Lookup(request) ==
    /\ req.pc \in {"idle", "done"}
    /\ LET prompt == Extract(request.style, Buffered(request.body))
           r == [IdleReq EXCEPT !.style = request.style, !.body = request.body]
       IN  \/ /\ prompt # Empty
              /\ \E v \in PickWeightedRandom(issued) : req' = [r EXCEPT !.pc = "chosen", !.chosen = v]
              /\ UNCHANGED log
           \/ /\ req' = [r EXCEPT !.pc = "done", !.out = Unchanged(request.body)]
              /\ LogRequest(prompt, prompt)
    /\ UNCHANGED <<mode, tmpl, issued, drv, basis>>

\* The template is read, a segment of it replaced, and the request logged with
\* both prompts.  An error reading the template is an empty template.
Graft ==
    /\ req.pc = "chosen"
    /\ \E template \in GetSessionPrompt(Faults) :
         LET prompt == Extract(req.style, req.body)
             segment == FindReplacementSegment(prompt, template)
             newPrompt == ReplaceFirstSubSeq(req.chosen, segment, prompt)
             r == [req EXCEPT !.pc = "done", !.chosen = Baseline]
         IN  IF segment = Empty
               THEN /\ req' = [r EXCEPT !.out = req.body]
                    /\ LogRequest(prompt, prompt)
               ELSE /\ req' = [r EXCEPT !.out = Inject(req.style, req.body, newPrompt),
                                        !.variant = req.chosen, !.template = template]
                    /\ LogRequest(prompt, newPrompt)
    /\ UNCHANGED <<mode, tmpl, issued, drv, basis>>

-----------------------------------------------------------------------------
(* RunOnce, as far as it deals with the template *)

\* Mutant of SampledPrompt: the prompt that went upstream.
SampledSent(e) == e.sent

\* The prompt of a sample: promptOriginal when there is one.
SampledPrompt(e) == e.original

\* Any balanced selection of rated conversations.
LoadSamples ==
    /\ drv.pc = "idle"
    /\ \E S \in (SUBSET {SampledPrompt(e) : e \in log}) \ {{}} :
         drv' = [pc |-> "template", samples |-> S]
    /\ UNCHANGED <<mode, tmpl, issued, log, req, basis>>

CommonPrefix(samples) ==
    LET p == CHOOSE p \in samples : TRUE
    IN  SubSeq(p, 1, Max({k \in 0 .. Len(p) : \A q \in samples : IsPrefix(SubSeq(p, 1, k), q)}))

\* Mutant of DeriveTemplateFromSamples: the common prefix is not trimmed.
DeriveUntrimmed(samples) == CommonPrefix(samples)

DeriveTemplateFromSamples(samples) == TrimSpace(CommonPrefix(samples))

\* The template is written if there is one and it differs from what is stored,
\* and the run goes on whatever became of it.  Redis takes any bytes, Postgres
\* refuses a text that is not valid UTF-8.
StoreTemplate ==
    /\ drv.pc = "template"
    /\ LET inferred == DeriveTemplateFromSamples(drv.samples)
       IN  \E stored \in GetSessionPrompt(Faults) :
             IF inferred = Empty THEN UNCHANGED <<tmpl, basis>>
             ELSE IF inferred = stored
               THEN /\ basis' = IF basis = {} THEN {} ELSE drv.samples
                    /\ UNCHANGED tmpl
               ELSE \E redisOK, pgOK \in BOOLEAN :
                      /\ ~redisOK => "redis" \in Faults
                      /\ ~pgOK => mode = "layered" /\ ("pg" \in Faults \/ ~Valid(inferred))
                      /\ (pgOK /\ mode = "layered") => Valid(inferred)
                      /\ SetSessionPrompt(inferred, redisOK, pgOK)
                      /\ basis' = IF redisOK /\ pgOK THEN drv.samples ELSE {}
    /\ drv' = [IdleDrv EXCEPT !.pc = "promote"]
    /\ UNCHANGED <<mode, issued, log, req>>

\* A candidate without the dash of a list item.
Undashed(t) ==
    LET u == TrimSpace(t)
    IN  IF u # Empty /\ u[1] = Dash THEN TrimSpace(Tail(u)) ELSE u

\* Blank candidates are dropped: where in the list the others are.
CleanCandidates(list) == {i \in DOMAIN list : Undashed(list[i]) # Empty}

\* An answer is a JSON array of strings, or any other text.  That is cut at each
\* written \n, a backslash and an n, and not at its line breaks.
ParseCandidates(a) == IF a.form = "array" THEN a.items ELSE CutAt({Backslash}, a.items[1])

\* All samples were praised, or the LLM or the store fails: nothing is promoted.
PromoteNothing ==
    /\ drv.pc = "promote"
    /\ drv' = IdleDrv
    /\ UNCHANGED <<mode, tmpl, issued, log, req, basis>>

\* The first OutputSize candidates of the LLM's answer are promoted, as JSON.
Promote ==
    /\ drv.pc = "promote"
    /\ \E a \in Answers :
         LET list == ParseCandidates(a)
             clean == CleanCandidates(list)
             first == {i \in clean : Cardinality({k \in clean : k <= i}) <= OutputSize}
         IN  issued' = issued \cup {Marshal(Undashed(list[i])) : i \in first}
    /\ drv' = IdleDrv
    /\ UNCHANGED <<mode, tmpl, log, req, basis>>

Next ==
    \/ \E request \in Requests : Lookup(request)
    \/ Graft
    \/ LoadSamples
    \/ StoreTemplate
    \/ Promote
    \/ PromoteNothing
    \/ Tick
    \/ RedisRestart

Spec == Init /\ [][Next]_vars

-----------------------------------------------------------------------------
(* Properties *)

\* The prompts clients write.
Prompts == {r.body.text : r \in Requests} \ {Empty}
IsTrimmed(t) == t = TrimSpace(t)

\* The state keeps its types; a stored template is trimmed, as the proxy matches
\* it word by word and the optimizer compares it with a trimmed one, and so is a
\* variant, which is never blank: a graft would erase the template.
TypeOK ==
    /\ mode \in Modes
    /\ IsTrimmed(tmpl.redis) /\ IsTrimmed(tmpl.pg)
    /\ tmpl.ttl \in 0 .. MaxAge
    /\ tmpl.redis = Empty <=> tmpl.ttl = 0
    /\ mode = "redis" => tmpl.pg = Empty
    /\ \A v \in issued : v # Empty /\ IsTrimmed(v)
    /\ \A e \in log : e.original \in Prompts
    /\ req.pc \in {"idle", "chosen", "done"}
    /\ req.body \in {r.body : r \in Requests} \cup {NoBody}
    /\ req.chosen \in issued \cup {Baseline}
    /\ drv.pc \in {"idle", "template", "promote"}

\* Although requests are logged after variants were put into them, and
\* templates inferred from what was logged, and whatever fails: a stored
\* template is always a part of some prompt a client wrote.  Otherwise the
\* variants' own words would drift into the template and no prompt would match.
TemplateIsTheClients ==
    \A t \in {tmpl.redis, tmpl.pg} \ {Empty} : \E p \in Prompts : Occurs(t, p)

\* With Postgres, once a template was stored in both tiers, and however often
\* Redis expires it or loses it afterwards, each prompt it was inferred from is
\* one the proxy can put variants into, provided three of the template's words
\* stand next to each other with single spaces.
StaysInjectable ==
    (mode = "layered" /\ basis # {}) =>
        LET inferred == DeriveTemplateFromSamples(basis)
        IN  FindReplacementSegment(inferred, inferred) # Empty =>
                \A p \in basis, t \in GetSessionPrompt({}) :
                    FindReplacementSegment(p, t) # Empty

\* What followed a segment, as it goes upstream: if the segment ends inside a
\* character of the prompt, what is left of the character is unreadable.
After(segment, rest) ==
    IF segment[Len(segment)] \in Leads THEN <<Replacement>> \o Tail(rest) ELSE rest

\* What goes upstream: if no variant is reported, the body as it came (nothing,
\* when it could not be read); else the same kind of body, whose prompt has one
\* segment, three or more words of the template in a row, replaced by the whole
\* variant and is the same before and after it, but for a character that the
\* segment cuts.  If the prompt starts with the single-spaced template, that is
\* the segment.
GraftIsExact ==
    req.pc = "done" =>
        IF req.variant = Baseline THEN req.out = Unchanged(req.body)
        ELSE LET p == req.body.text
                 t == req.template
                 ws == Fields(t)
             IN  /\ req.out.shape = req.body.shape
                 /\ \E a, b \in 1 .. Len(ws) :
                      /\ a + 2 <= b
                      /\ LET segment == Join(SubSeq(ws, a, b))
                         IN  \E i \in 0 .. Len(p) - Len(segment) :
                               /\ SubSeq(p, i + 1, i + Len(segment)) = segment
                               /\ req.out.text =
                                    SubSeq(p, 1, i) \o req.variant \o
                                    After(segment, SubSeq(p, i + Len(segment) + 1, Len(p)))
                 /\ (t = Join(ws) /\ IsPrefix(t, p)) =>
                        req.out.text = req.variant \o After(t, SubSeq(p, Len(t) + 1, Len(p)))

=============================================================================
