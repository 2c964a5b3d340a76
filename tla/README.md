# A TLA+ model of prompt-graft

prompt-graft is a proxy that sits between a client and an LLM provider, logs
the conversations of a session, collects ratings for them, and lets an
optimizer generate better prompts ("variants") that the proxy then injects
into later requests. Redis is the fast tier, Postgres (optional) the durable
one. Nothing in the code is transactional across the two, every network call
may fail alone, and three processes (proxy, API, optimizer) work on the same
keys and rows. That is what these modules model, check and prove.

## 1. Inventory

| component | state it keeps | operations | hard behaviour |
|---|---|---|---|
| layered store (`internal/store/layered`, `redis`, `pg`) | Redis key with TTL and Postgres rows for the variants of a session | `GetVariant` (Redis, else Postgres and re-warm), `SetVariants` (both), `DeleteVariants` | a re-warm that races a promotion; a write that succeeds in one tier only; rows past their deadline |
| janitor (`internal/optimizer/janitor`) | none | `copyLogs` (Redis list to Postgres rows), `retireUnused` (evict the keys of sessions without feedback) | it works on a snapshot while proxies write; its query is old when it deletes |
| proxy (`internal/proxy`) | none but goroutines in flight | look up, inject, forward, log the request and the response asynchronously | two unordered log writes per request, lost on a crash |
| conversation log (`redis/log.go`, `pg` `conversation_logs`) | a list of 100 entries per session, one row per conversation | push and trim, pair by conversation, insert unless present | pairing of entries in any order; rows that can never be completed; a pipeline that breaks, and is sent again |
| feedback (`api/routes/feedback.go`, `redis/feedback.go`, `pg` `feedback_events`) | counters per conversation, session and variant; one event row per rating | `handleFeedback`, `RecordFeedback`, `GetSessionInfo`, `RollupConversationFeedback` | a roll-up of several commands while ratings arrive; commands that go-redis sends again; inferred ids |
| optimizer driver (`internal/optimizer/driver.go`, `promoter.go`) | `times_used` of events, `last_optimized` of the session | `RunOnce`: ready? sample, two LLM calls, consume, roll up, promote, mark | minutes between reading and consuming; consumption before promotion; dropped errors; crashes |
| LLM client (`gepa/llm.go`) | one prediction, two timers | `NewLLMClient`, `Complete` (POST, decode, poll until the deadline) | timers that do not add up to one; replies that are stale when read, have no id, or say an unknown status; a cancelled context |
| GEPA library (`internal/optimizer/gepa`) | candidate pool with scores on the Pareto set, budget | `New`, `Run`: split, seed, rollouts (sample a parent, mutate or cross, accept on a minibatch), rank | splits and minibatches at their edges; an LLM whose errors are dropped; acceptance on other points than the ranking; not called by the driver |
| session prompt template (`driver.go`, `layered`, `redis`, `pg` `session_prompts`) | Redis key with TTL, Postgres row without | `deriveTemplateFromSamples`, `SetSessionPrompt`, `GetSessionPrompt`, `findReplacementSegment` | a loop: what is injected is logged, sampled and becomes a template; a key that is never renewed |
| provider adapters and buffering (`internal/provider`, `pkg/body`) | none | buffer or stream, extract the prompt, put one in | bodies that are streamed, of another shape, or fail to read |
| configuration, CORS, startup, read-only routes | none over time | wire, read | no state of their own |

How they interact: the proxy reads variants through the layered store and
writes the log; the janitor moves the log to Postgres; the API writes ratings;
the driver joins ratings with logged conversations, and its promotions are what
the proxy reads next. All interaction is through Redis keys and Postgres rows.

What makes each correct, in one line: a lookup answers with a whole promoted
set or the baseline; a stored row tells the truth about its conversation and
becomes complete; a rating is counted, once unless a command was executed again,
and for the variant that earned it;
a rating is used for at most one promotion and a complaint is used for some;
what goes upstream is the client's request with template words, and nothing
else, replaced by a variant; a call to the LLM ends in bounded time with an
error or its own prediction's output; an evolution ends with a candidate not
worse than its seed.

## 2. Modules

| module | models | state and actions |
|---|---|---|
| `VariantService` | what `Store` promises about variants | `issued`, `answer`; `Issue`, `Answer` |
| `VariantStore` | `layered.GetVariant`, `SetVariants`, `pg.SetVariants`, `retireUnused` | `redis`, `status`/`until` (rows), one record per lookup in flight, `opt`, `janitor`, `mode` (with Postgres or without); one action per network statement, expiry by `Tick`, `RedisRestart`, `OptimizerCrash` |
| `ConversationLog` | `ServeHTTP` as far as it logs, `LogRequest`/`LogResponse`, `ReadConversationLogs`, `copyLogs`, `InsertConversationLog` | `phase` of requests with their inputs `conv` and `treated`, `sends` (pipelines on their way), `log`, `resent`, `copied` (a pass in progress), `rows` |
| `Feedback` | `handleFeedback`, `RecordFeedback`, `GetSessionInfo`, `RollupConversationFeedback` | `convs`, `session`, `totals`, `events`, `rating` (each `RecordFeedback` in progress), `roll` (a pass in progress), one Redis command per step; `given` and `repeated` (auxiliary) |
| `OptimizerDriver` | `RunOnce`, `Promote`, both `ReadySessions`, both `LoadConversationSamples`, `selectBalanced(PG)`, `MarkFeedbackUsed`, the main loop | `events` with their consumption state, `usable` conversations, `cool`, `drv` (where the run is and what it sampled) |
| `PromptInjection` | `ServeHTTP` up to the upstream call, `StreamOrBuffer`, the adapters, `findReplacementSegment`, `Get`/`SetSessionPrompt`, `deriveTemplateFromSamples`, `parseCandidates`, `cleanCandidates` | `tmpl` (both tiers), `issued` variants, `log` (original and sent prompt), `req` (lookup, then graft), `drv` (samples, template, promotion of what an LLM answer comes to) |
| `LLMService` | what `LLMClient.Complete` promises its caller | `answer` per call, `succeeded` predictions; `Ask`, `Return`, `Succeed` |
| `LLMClient` | `NewLLMClient`, the no-op and unimplemented clients, `ReplicateClient.Complete`, `poll`, `decodePrediction`, `statusString`; the provider (external) | `pc` (the statement `Complete` is at), `wire` (a reply on its way), `preds` (the provider's predictions), `ctx`, the timers; one action per request, reply, sleep, timeout and outcome |
| `Gepa` | `New`, `Run`, `Split`, `Minibatch`, `FeedbackScorer`, `ParetoFrontier`, `SampleFromFrontier`, `Mutate`, `Crossover`, `Best`, `topN` | `cfg`, `dataset`, `pareto`/`feedback` (the split), `pool`, `rollout`, `result`; one action per phase of `Run` and one per rollout |
| `VariantStoreProofs`, `ConversationLogProofs`, `FeedbackProofs`, `OptimizerDriverProofs`, `PromptInjectionProofs`, `LLMClientProofs`, `GepaProofs` | | inductive invariants and theorems, one module per component |
| `InductionLemmas` | | induction, recursion over an interval, and sums over finite sets, for the proof modules |
| `MC*` | | small instances of the above |

Every module is about one session: the keys and rows of different sessions are
disjoint, and `RunOnce` and the janitor treat sessions one after the other.
Texts are represented by what they are identified by: a variant by its id, a
prompt or response by the request it came from, a candidate set by the set of
its ids. Only two modules look into texts: `PromptInjection` takes them as sequences of
words, parts of words or of characters, and gaps (the constant `Pieces`), `Gepa` as sets of tokens, which is all its scorer
looks at. The output of a prediction is named by the call it belongs to. Time is counted down, one tick being a fraction of the shortest
deadline. Faults are actions or disjuncts guarded by the constant `Faults`, so
that a run says which faults it is exposed to: an error with or without the
write done, a Redis that restarts empty, a process that dies between any two
statements. Auxiliary variables (marked so) remember history for properties and
are read by no guard, but for the bound `MaxRepeated` of `Feedback`.

Where one module's detail is another's step: `OptimizerDriver` takes the
roll-up and `SetVariants` as one step each with every outcome they can have;
`Feedback` and `VariantStore` open them up.
`OptimizerDriver` also takes `RecordFeedback` as one step, after which `totalRated` may
have grown by 0, 1 or 2 if Redis may fail; a pipeline that go-redis sends again only
after a whole run has rolled the rating up would bring the rating back, and is left
out there. `PromptInjection` takes a lookup as
what `VariantService` promises, any promoted variant or none, and of a run only
what concerns the template and the answer it promotes. The LLM calls of a run are
steps with every outcome in `OptimizerDriver`; `LLMService` is what they promise
and `LLMClient` opens them up. `OptimizerDriver` leaves out the template, and the
best prompt and the history, which a run writes and no run reads back.

## 3. Runs

| run | instance | shows |
|---|---|---|
| `variantstore` | both modes, 3 ids, candidate sets {v1,v2} and {v2,v3}, one lookup, `MaxAge` 3, all faults, fair | `TypeOK`; `OnePromotionActive` (rows are one promotion's, with one deadline); `LifeBound` (a re-warm never stretches a set's life); `ImplementsService`; `Converges` (Redis heals when promotions stop); `AckedIsCachedAlone`, which holds without Postgres and which the layered store does not have |
| `variantstore_stale_rewarm` | layered, no fault | violated `AckedIsCached`: a late re-warm puts the superseded set back |
| `conversationlog` | 2 requests of any conversation or none, list of 3 so that trimming bites, one pipeline sent again, all faults, fair | `TypeOK`, `PairsAreNewest`, `RowsFromTheirConversation`, `LoggedIsStored` (what stays in the list gets a row, for every conversation) |
| `conversationlog_incomplete` | 2 requests, no fault, fair | violated `AnsweredBecomesUsable`: a pass between the two entries stores half a row for ever |
| `feedback` | 2 conversations, 2 ratings, clients with any headers, every command executed up to twice, all faults | `TypeOK`; `OvercountAccounted` (what is counted beyond the ratings given is what commands executed again and keys that outlived their pass counted twice, one for one); `NeverMisattributed` |
| `feedback_lost` | 3 ratings, two at a time, no fault | violated `NoRatingLost`: a rating between `HGETALL` and `DEL` disappears |
| `driver` | both modes, 3 ratings, 2 samples per variant, all faults | `TypeOK`, `NotLearntTwice` |
| `driver_heard` | layered, 3 ratings over 3 conversations, LLM failures and crashes, fair | `ComplaintsAreHeard` |
| `driver_unread` | layered, no fault | violated `UsedWasSampled`: a rating that arrives during the LLM calls is consumed unread |
| `promptinjection` | both modes, 4 prompts, 8 kinds of request, 1 variant, 2 conversations to sample, all faults | `TypeOK`; `TemplateIsTheClients` (no drift of variants into templates); `StaysInjectable` (with Postgres, across expiry and restart of Redis); `GraftIsExact` (one segment of template words is replaced, all else stays, but for a character which the segment cuts) |
| `llmclient` | every configuration, 2 calls, `Timeout` 3, `Sleep` 1, a provider that is late, wrong or silent, network errors, a SIGTERM, fair | `TypeOK` (no wait outlasts its timer); `CallBounded`; `CancelEndsCall`; `OnlyLateAnswersMissed` (a call gives up on a succeeded prediction only if that is too recent to be seen); `ImplementsLLMService`, with its liveness |
| `gepa` | 3 tokens, datasets of up to 3 points rated or not, 7 configurations (one with a negative `MinDelta`, one with a scorer of the caller's), up to 3 rollouts, any LLM answer, fair | `TypeOK`; `FrontierCovers`; `RatedDataTeachesNothing`; `ResultIsRanked` (`topN` and `Best` against a sort); `BestOnlyImproves`; `Terminates` |

Bounds. The candidate sets overlap, because the transaction of `SetVariants`
is only interesting when a promotion keeps an id of the one before it and drops
another; two sets and three ids are the smallest such instance. One lookup per
session suffices for TLC because the safety properties are proved for any set
of readers. `MaxAge` 3 with `MinTTL` 1 and `LookupTicks` 1 lets rows be young,
within the last minute and past their deadline while a lookup is under way.
Two requests with two conversation ids or none are all the ways two requests can
relate; the list cap 3 is below their four entries, `ReadCap` 4 (200 in the code, where
the list has 100) above it, and `MaxResent` 1 lets one entry be in the list twice. Since
requests and conversations differ by name only, the action constraint `Named` fixes
which is the first, and gives a variant to the first request only and an empty answer
not to the second.
Two conversations and two ratings (three where no fault multiplies the states)
let a rating come before, inside and after a roll-up pass of its own and of the
other conversation. `MaxSends` 2 (4 in the code: go-redis retries three times) has every
command executed not at all, once or twice, and every pipeline cut off at any command
and sent again; `MaxRepeated` and `MaxRolled` only cut off repeated over-counting. In `OptimizerDriver` three ratings are
what it takes for praise to fill both samples of a variant (two comments on one
conversation) and for a rating to arrive between two runs and within one;
`Buffer` is 2 instead of 10, `MinSamples` 2 instead of 20; ratings are counted up to
`Enough`, beyond which `ReadySessions` does not tell numbers apart. In `PromptInjection`
two prompts differ in the second byte of a character (C3 A9 and C3 A8), the third has a
double gap with a newline and the fourth has another last word, so that templates are
whole prompts, end within a word or within a character, have one word only, or match by
a window; two conversations that may still be sampled have different prompts, one of
them the first (the action constraint `OneOfP1`), and requests without a prompt, which
are not logged as a conversation, come while nothing is logged (`PromptlessFirst`);
the two answers are the array that was asked for and prose; one variant is enough for it
to be logged and sampled again,
and `MaxAge` 1 for the key to expire between any two steps. In `LLMClient` a
timeout of three ticks and a sleep of one (120 s and 2 s in the code) leave room for
several polls before the deadline, and both time bounds are reached; two calls
let a prediction outlive its call. In `Gepa` scores are counted in 1/300, so that
shares of up to three tokens, the floor 0.1 and `MinDelta` 0.01 are exact;
`DefaultBudget` is 3 instead of 50, which lets a child have a child and a third
candidate displace either; the points are rated up, down or not at all, and one
has an empty input; the configurations have a dataset without a feedback set, a
minibatch of all points, of one and of none, no crossover, no LLM, a negative
`MinDelta` and a scorer that wants short prompts.

Deadlock is checked everywhere but in `conversationlog`, where all requests may
be over and the list lost, in `llmclient`, whose last call may be over, and in
`gepa`, where `Run` returns.

Fairness. `VariantStore`: time passes, and a lookup that has left Redis ends,
since its context has the deadline `ForwardPassTimeout`; nothing forces the
optimizer, the janitor or clients to act. `ConversationLog`: the janitor's ticker
fires again, and an insert that is tried again and again is not refused for ever. `OptimizerDriver`: the main loop of
`cmd/optimizer` goes on, and no store, LLM or process fails for ever (strong
fairness of the successful step). `LLMClient`: the goroutine that runs `Complete` is
scheduled and time passes; nothing is asked of the provider or the network, which
is the point. `Gepa`: `Run` is one goroutine and its calls return. `Feedback` and
`PromptInjection` need none.

## 4. What is proved

Every safety invariant and every action property a passing run checks is also a
theorem of the specification, for every value of the constants that the named
assumptions of its module allow (times and bounds positive, candidate sets not
empty, requests and answers of the right shape, clients' prompts valid UTF-8, finitely
many tokens, `Unit` a multiple of each of their numbers, scores between 0 and 1; TLC
evaluates them on every run).
Nothing is assumed about which faults a deployment meets: `Faults` is any set of
them. The pattern is the same everywhere: a module defines `IInv`, shows
`Init => IInv` and that each action keeps it, one lemma or case per action, and
draws the theorems from `Spec => []IInv`.

| module | theorems (the property each states) |
|---|---|
| `VariantStoreProofs` | `TypeCorrect` (`TypeOK`), `NeverMixed` (`OnePromotionActive`), `RewarmNeverStretches` (`LifeBound`), `AloneKeepsItsWord` (`AckedIsCachedAlone`), `Refinement` (`ImplementsService`) |
| `ConversationLogProofs` | `TypeCorrect` (`TypeOK`), `PairingIsNewest` (`PairsAreNewest`), `RowsAreBacked` (`RowsFromTheirConversation`) |
| `FeedbackProofs` | `TypeCorrect` (`TypeOK`), `OvercountExplained` (`OvercountAccounted`), `CreditedToTheServing` (`NeverMisattributed`) |
| `OptimizerDriverProofs` | `TypeCorrect` (`TypeOK`), `RatingsTeachOnce` (`NotLearntTwice`) |
| `PromptInjectionProofs` | `TypeCorrect` (`TypeOK`), `NoDrift` (`TemplateIsTheClients`), `KeepsInjecting` (`StaysInjectable`), `GraftsExactly` (`GraftIsExact`) |
| `LLMClientProofs` | `TypeCorrect` (`TypeOK`), `CallsAreBounded` (`CallBounded`), `CancelIsPrompt` (`CancelEndsCall`), `MissesOnlyLateAnswers` (`OnlyLateAnswersMissed`), `Refinement` (the safety part of `ImplementsLLMService`) |
| `GepaProofs` | `TypeCorrect` (`TypeOK`), `FrontierIsEnough` (`FrontierCovers`), `RatedOnlyKeepsTheSeed` (`RatedDataTeachesNothing`), `ReturnsTheRanking` (`ResultIsRanked`), `BestImproves` (`BestOnlyImproves`) |

What the inductive invariants add, and why:

* `VariantStore`. `Promoted`: what Redis holds, and what any reader holds in its
  hands, is a set some promotion wrote; without it an answer could be anything a
  reader remembers. `WithinLife`: the rows' deadline is not later than the set's
  own, and a reader that waits holds a TTL that was right at most its own age ago;
  without it the re-warm of a TTL computed ticks ago could not be bounded.
  `RedisAlone`, for deployments without Postgres: no lookup and no promotion gets
  as far as Postgres, and nothing is acknowledged while a promotion writes.
* `ConversationLog`. `EntriesAreReal`: an entry on its way or in the list was written
  by a request that has got so far. `Backed`: what a pass has copied, and not only
  what is stored, tells of requests of its own conversation, so that a pass older
  than the list stores nothing else.
  The pairing loop is proved to compute what `Newest` states without a loop, for the
  k newest entries by induction on k.
* `Feedback`. `ReadIsBehind`: the key the pass has read has only grown since.
  `AddedInOrder`: what the pass has added of it, while the key still waits.
  `KnownWasGiven`: what is sent again was given before, so that a repeated command
  credits nobody new. `RatingsAreHonest`: a rating on its way names the variant that
  served its conversation or none, unless ids were inferred.
  `KeysAreHonest`: a key, or the copy of one in the pass's hands, names the variant
  that served its conversation or none. Sums over conversations are compared with
  lemmas about `SumFunction`.
* `OptimizerDriver`. What a run holds taught nothing yet (`HeldAreNew`), is consumed
  before it is promoted (`HeldAreConsumed`: by `MarkFeedbackUsed` in Postgres, by the
  roll-up in Redis), and what was learnt from cannot be sampled again
  (`LearntAreConsumed`).
* `PromptInjection`. `Serving`: between lookup and graft the request has a prompt, in
  the place the adapter writes to, and a real variant. `Sampled`: a template is
  inferred from at least one prompt. `Readable`: what is logged and issued went through
  `json.Marshal` and is valid UTF-8, so that a graft can only cut a character at the end
  of its segment (`MarshalSplice`). `BasisIsStored`: with Postgres, the row is what
  the last good write inferred, and the Redis key is that or gone; `StaysInjectable`
  follows from it with `SegmentCarries`, which says that a segment found in the
  template is found wherever the template occurs. The lemmas about texts say what
  `TrimSpace`, `strings.Fields`, `strings.Join`, the common prefix, the search for a
  segment and `strings.Replace` return, for texts of any length.
* `LLMClient`. `TimeOK` says where the time has gone at each statement: the POST takes
  at most a `Timeout` outside the polled time, the loop is entered only while the
  polled time is at most `Timeout`, and a GET and the sleep before it are bounded by
  their own timers. `CancelOK` says that time after the cancelling passes only in a
  sleep, and that no reply is read after it. `WireOK`, `CallsOK` and `UnheardOK` tie
  a reply to the prediction it speaks of, and the age of an unheard success to the
  timer that hides it.
* `Gepa`. The scores of all candidates are on the same Pareto set and `agg` is their
  sum, so that what dominates has the larger mean. That every candidate off the
  frontier is dominated by one on it is proved by going up a chain of domination,
  along which the sums grow.

Induction. Theorems that take an operator as a parameter cannot be used with these
provers. `InductionLemmas` therefore derives, from `<` being well founded on `Nat`,
induction over sets of naturals (`SetInduction`) and of subsets of a finite set
(`SubsetInduction`), and that recursion over an interval has a solution
(`IntervalRecursion`). With them the recursive functions of the models (the pairing
loop, `CutAt`, `Fields`, `Join`) and sums over sets are reasoned about; for that the
models write such loops as recursive functions or as sets with a least element, and
not as folds with an operator.

Some properties had to be corrected because their proofs failed or because the code
does something a small instance does not show. `TemplateIsTheClients` as it first stood
is false of a deployment whose requests have no prompt at all, where the absent template
would have to be a part of some prompt. That a graft keeps every piece not in the
template is false of white space (a segment is joined by spaces, and the template may
have line breaks where it matches a single-spaced prompt) and of what is left of a
character which the segment cuts. `GraftIsExact` therefore says where the segment is,
that it is words of the template in a row, and what becomes of the rest on both sides.
That no rating is counted twice is false under faults, since go-redis sends a command
again when only its reply is lost; `OvercountAccounted` says what it is true up to.

Only model-checked: `Converges`, `LoggedIsStored`, `ComplaintsAreHeard`, `Terminates`
and the liveness part of `ImplementsLLMService`, since the prover has no rules for
fairness and `ENABLED`. The four violated properties are counterexamples and need no
proof.

## 5. Disagreements found

Four violation runs show behaviour that the code's own comments or documents
exclude: `variantstore_stale_rewarm`, `conversationlog_incomplete`,
`feedback_lost`, `driver_unread` (see `findings` in `PROJECT.json`). Some more
were met while modelling, and have no run of their own: sets past
`MaxVariantAge` are served as long as requests come; the janitor's eviction is
undone by the next lookup, as `RetireVariants` is commented out; ratings that
name no variant are counted twice in the session's counters; go-redis' three retries, which
`redis/client.go:17-22` does not switch off, send a command or a pipeline again when its
reply is lost, so that a rating is counted, and an entry logged, more than once;
the common prefix is taken byte by byte (`driver.go:241`) and may end inside a
character: what is left of it then goes upstream as U+FFFD, since both adapters end in
`json.Marshal`, and such a template, which is no valid UTF-8, is refused by Postgres
every time and is gone when Redis expires it; `X-PG-Variant-Id`
is documented and `X-PG-Variant` read; prompts that differ in dynamic tokens are
said to be grouped, by `stripDynamic`, which nothing calls; Postgres waits ten windows where
`docs/optimizer-container.md` says one.

About the LLM: "120s timeout" (`docs/optimizer-container.md:44`, `self-host.md:131`)
is the timeout of each request and of the look at the deadline, so that a call may
last three of them and a sleep, which `CallBounded` allows and the run reaches;
without a key the documents promise the no-op client, but the default provider
`replicate` gets a client that returns errors; candidates that are no JSON array are
said to be separated by newlines, and are cut at a backslash followed by an n; a
prediction that succeeds with a null output becomes the text `null`, and that a
candidate. About GEPA (`docs/optimizer-container.md:146`, `:191`, `:205`): it is said
to be used by the driver, which never calls it; the sampling weight is the number
of accepted children and not how often a candidate was seen; an unrated point is
scored by similarity and not 0.5. `datasetFromSession` (`redis/feedback.go`) walks
the list from the newest entry and so pairs a request with the response of an
older one; nothing calls it on the optimizer's path.

## 6. Not modelled

`ExtractOutputText` of the adapters and `extractTextOutput` of the LLM client, early
returns of `ServeHTTP` (health, wrong token), forwarding headers, configuration
(but for the choice of store and of LLM client), logging, CORS, start-up, the studio
page and the read-only API routes: no state over time. The best prompt and the
history, which a run writes and only a route reads. Of GEPA, the wording of the
reflection prompts, the notes `Reflect` makes for them, and `ExactMatchScorer`,
`LoadDataset` and `DatasetLoader`, which nothing calls. A `Timeout` of zero, which
would switch the HTTP timeout off; the configuration's default is 120 seconds.
Weights, of a variant in a set or a parent on the frontier: every member may be
chosen. Scores that are not numbers, or not between 0 and 1, from a scorer of the caller's (the
repository has no such scorer). Bytes of a prompt that are no valid UTF-8 when they come:
`encoding/json` replaces them before the proxy looks at them. Sessions whose ids contain `:`. Deployments in which the optimizer lost its
Postgres connection at start while proxy and API kept theirs.

## 7. Plan

1. Proofs: more of what the text operators compute (that `Join` undoes `Fields` on a
   single-spaced text, that `deriveTemplateFromSamples` is the longest common prefix),
   and a refinement that connects `Feedback` to the roll-up step of `OptimizerDriver`.
2. Redis-only deployments: the template that expires before the variants.
3. Routing and headers of the proxy and of the API, mixed deployments.
