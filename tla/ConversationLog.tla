--------------------------- MODULE ConversationLog ---------------------------
(***************************************************************************)
(* From a proxied request to the row the optimizer learns from, for one    *)
(* session.  The proxy forwards a request and writes two entries to the    *)
(* session's Redis list, each from a goroutine of its own; the janitor's   *)
(* copyLogs reads the list, pairs the entries by conversation and inserts  *)
(* one Postgres row per conversation.                                      *)
(*                                                                         *)
(* A text (prompt, response) is represented by the request it came from.   *)
(***************************************************************************)
EXTENDS Integers, Sequences

CONSTANTS
    Requests,   \* the proxied requests of the session
    Convs,      \* conversation ids: hashes of the first 5000 characters
    NoConv,     \* the id of a request whose prompt could not be extracted
    None,       \* no text, no variant, no row (SQL NULL)
    LogCap,     \* length the list is trimmed to
    ReadCap,    \* how many entries copyLogs reads
    MaxResent,  \* how many pipelines go-redis sends again, in all
    Faults      \* the faults this instance is exposed to

ASSUME RequestsAssumption ==
    /\ NoConv \notin Convs
    /\ None \notin Requests
ASSUME LogAssumption ==
    /\ LogCap \in Nat \ {0} /\ ReadCap \in Nat \ {0} /\ MaxResent \in Nat
    /\ Faults \subseteq {"upstream", "redis", "pg", "proxy", "optimizer"}

VARIABLES
    phase,     \* how far the proxy is with each request
    conv,      \* the conversation id of each forwarded request
    treated,   \* the requests a variant was injected into
    sends,     \* log entries whose pipeline is still to be sent, or sent again
    log,       \* pg:log:<key>:<session>, newest entry first
    resent,    \* how many pipelines were sent again
    copied,    \* what copyLogs has paired and not yet inserted, per conversation
    rows       \* conversation_logs, per conversation

list == <<log, resent>>
vars == <<phase, conv, treated, sends, list, copied, rows>>

Phases == {"new", "forwarded", "failed", "empty", "answered"}
Entry == [req : Requests, role : {"request", "response"}]
Part == Requests \cup {None}
Row == [prompt : Part, response : Part, variant : Part]
NoRow == [prompt |-> None, response |-> None, variant |-> None]
Empty == [c \in Convs |-> NoRow]

Init ==
    /\ phase = [r \in Requests |-> "new"]
    /\ conv = [r \in Requests |-> NoConv]
    /\ treated = {}
    /\ sends = {}
    /\ log = <<>>
    /\ resent = 0
    /\ copied = Empty
    /\ rows = Empty

-----------------------------------------------------------------------------
(* Handler.ServeHTTP *)

\* Mutant of Forward: the variant is injected whatever the extraction found.
ForwardUnextracted(r) ==
    /\ phase[r] = "new"
    /\ phase' = [phase EXCEPT ![r] = "forwarded"]
    /\ \E c \in Convs \cup {NoConv} : conv' = [conv EXCEPT ![r] = c]
    /\ treated' \in {treated, treated \cup {r}}
    /\ sends' = sends \cup {[req |-> r, role |-> "request"]}
    /\ UNCHANGED <<list, copied, rows>>

\* The request is logged by a goroutine of its own while it is forwarded.  Its
\* prompt is anything: it opens or repeats a conversation, or has no text the
\* adapter can extract, and then no variant is injected either.
Forward(r) ==
    /\ phase[r] = "new"
    /\ phase' = [phase EXCEPT ![r] = "forwarded"]
    /\ \E c \in Convs \cup {NoConv} : conv' = [conv EXCEPT ![r] = c]
    /\ treated' \in {treated} \cup (IF conv'[r] = NoConv THEN {} ELSE {treated \cup {r}})
    /\ sends' = sends \cup {[req |-> r, role |-> "request"]}
    /\ UNCHANGED <<list, copied, rows>>

\* The upstream answers, perhaps with an empty body: the response is logged by
\* another goroutine.
Respond(r) ==
    /\ phase[r] = "forwarded"
    /\ \E p \in {"answered", "empty"} : phase' = [phase EXCEPT ![r] = p]
    /\ sends' = sends \cup {[req |-> r, role |-> "response"]}
    /\ UNCHANGED <<conv, treated, list, copied, rows>>

\* The forwarder fails: 502, and no response entry.
UpstreamError(r) ==
    /\ "upstream" \in Faults
    /\ phase[r] = "forwarded"
    /\ phase' = [phase EXCEPT ![r] = "failed"]
    /\ UNCHANGED <<conv, treated, sends, list, copied, rows>>

\* LogRequest, LogResponse: a pipeline of LPUSH and LTRIM, between which other
\* clients' commands may come.  When the connection breaks before the last reply
\* go-redis sends all of it again, and the entry is in the list once more.
LogPush(e) ==
    /\ e \in sends
    /\ log' = <<e>> \o log
    /\ \/ sends' = sends \ {e} /\ UNCHANGED resent
       \/ /\ "redis" \in Faults /\ resent < MaxResent
          /\ resent' = resent + 1 /\ UNCHANGED sends
    /\ UNCHANGED <<phase, conv, treated, copied, rows>>

\* LTRIM, if it comes: only a pipeline whose LTRIM is not yet executed leaves
\* the list longer than this, and when that pipeline breaks its LTRIM may be lost
\* or late.  On a shorter list it does nothing.
LogTrim ==
    /\ Len(log) > LogCap
    /\ log' = SubSeq(log, 1, LogCap)
    /\ UNCHANGED <<phase, conv, treated, sends, resent, copied, rows>>

\* The pipeline fails before LPUSH; nobody looks at the error of the goroutine.
LogWriteFails(e) ==
    /\ "redis" \in Faults
    /\ e \in sends
    /\ sends' = sends \ {e}
    /\ UNCHANGED <<phase, conv, treated, list, copied, rows>>

ProxyCrash ==
    /\ "proxy" \in Faults
    /\ sends # {} \/ \E r \in Requests : phase[r] = "forwarded"
    /\ phase' = [r \in Requests |-> IF phase[r] = "forwarded" THEN "failed" ELSE phase[r]]
    /\ sends' = {}
    /\ UNCHANGED <<conv, treated, list, copied, rows>>

\* Redis restarts empty, or the list's 30 days are over.
LogLost ==
    /\ "redis" \in Faults
    /\ log # <<>>
    /\ log' = <<>>
    /\ UNCHANGED <<phase, conv, treated, sends, resent, copied, rows>>

-----------------------------------------------------------------------------
(* Janitor.copyLogs *)

\* What an entry offers to its conversation's row.
PromptIn(e) == IF e.role = "request" THEN e.req ELSE None
ResponseIn(e) == IF e.role = "response" /\ phase[e.req] = "answered" THEN e.req ELSE None
VariantIn(e) == IF e.req \in treated THEN e.req ELSE None
Or(x, y) == IF x # None THEN x ELSE y

\* Mutant of Merge: an older entry overwrites a newer one.
MergeOldest(m, e) ==
    IF conv[e.req] = NoConv THEN m
    ELSE [m EXCEPT ![conv[e.req]] =
            [prompt   |-> Or(PromptIn(e), @.prompt),
             response |-> Or(ResponseIn(e), @.response),
             variant  |-> Or(VariantIn(e), @.variant)]]

\* Mutant of Merge: the conversation of an entry is not looked at.
MergeAll(m, e) ==
    [c \in Convs |->
        [prompt   |-> Or(m[c].prompt, PromptIn(e)),
         response |-> Or(m[c].response, ResponseIn(e)),
         variant  |-> Or(m[c].variant, VariantIn(e))]]

\* One turn of the loop of ReadConversationLogs: an entry without a
\* conversation is skipped, the first part found for a conversation stays.
Merge(m, e) ==
    IF conv[e.req] = NoConv THEN m
    ELSE [m EXCEPT ![conv[e.req]] =
            [prompt   |-> Or(@.prompt, PromptIn(e)),
             response |-> Or(@.response, ResponseIn(e)),
             variant  |-> Or(@.variant, VariantIn(e))]]

\* LRANGE: as many of the newest entries as there are and as are read.
Read == IF Len(log) > ReadCap THEN ReadCap ELSE Len(log)

\* What the loop has merged after the k newest entries.
Merged[k \in 0 .. Len(log)] == IF k = 0 THEN Empty ELSE Merge(Merged[k - 1], log[k])
ReadConversationLogs == Merged[Read]

\* Mutant of WorthStoring: only complete pairs are stored.
WorthStoringPairs(row) == row.prompt # None /\ row.response # None

\* Neither prompt nor response: nothing worth storing yet.
WorthStoring(row) == row.prompt # None \/ row.response # None

\* The list is read; the pairs are then inserted one by one, in the order Go
\* iterates over a map.
CopyRead ==
    /\ copied = Empty
    /\ log # <<>>
    /\ copied' = [c \in Convs |-> IF WorthStoring(ReadConversationLogs[c])
                                  THEN ReadConversationLogs[c] ELSE NoRow]
    /\ UNCHANGED <<phase, conv, treated, sends, list, rows>>

\* INSERT ... ON CONFLICT DO NOTHING.
InsertConversationLog(c, row) ==
    rows' = IF rows[c] = NoRow THEN [rows EXCEPT ![c] = row] ELSE rows

CopyInsert(c) ==
    /\ copied[c] # NoRow
    /\ InsertConversationLog(c, copied[c])
    /\ copied' = [copied EXCEPT ![c] = NoRow]
    /\ UNCHANGED <<phase, conv, treated, sends, list>>

\* The error is logged; the loop goes on with the next pair.
CopyInsertFails(c) ==
    /\ "pg" \in Faults
    /\ copied[c] # NoRow
    /\ copied' = [copied EXCEPT ![c] = NoRow]
    /\ UNCHANGED <<phase, conv, treated, sends, list, rows>>

OptimizerCrash ==
    /\ "optimizer" \in Faults
    /\ copied # Empty
    /\ copied' = Empty
    /\ UNCHANGED <<phase, conv, treated, sends, list, rows>>

-----------------------------------------------------------------------------
Proxy == \E r \in Requests : Forward(r) \/ Respond(r) \/ UpstreamError(r)
Logging == LogTrim \/ \E e \in Entry : LogPush(e) \/ LogWriteFails(e)
Copying == CopyRead \/ \E c \in Convs : CopyInsert(c) \/ CopyInsertFails(c)

Next == Proxy \/ Logging \/ Copying \/ ProxyCrash \/ LogLost \/ OptimizerCrash

Spec == Init /\ [][Next]_vars

\* The janitor's ticker fires again and again, and its loop goes on.  That
\* an INSERT is not refused for ever is the assumption that Postgres comes back.
Fairness ==
    /\ WF_vars(CopyRead)
    /\ \A c \in Convs : SF_vars(CopyInsert(c))

FairSpec == Spec /\ Fairness

-----------------------------------------------------------------------------
(* Properties *)

\* The state keeps its types; a variant is injected only into a request whose
\* prompt could be extracted.
TypeOK ==
    /\ phase \in [Requests -> Phases]
    /\ conv \in [Requests -> Convs \cup {NoConv}]
    /\ treated \subseteq {r \in Requests : conv[r] # NoConv}
    /\ sends \subseteq Entry
    /\ log \in Seq(Entry) /\ resent \in 0 .. MaxResent
    /\ copied \in [Convs -> Row]
    /\ rows \in [Convs -> Row]

\* The newest entry of a conversation that offers a part supplies it: what the
\* loop of ReadConversationLogs is meant to compute, stated without a loop.
Newest(c, offer) ==
    LET I == {i \in 1 .. Read : conv[log[i].req] = c /\ offer[log[i]] # None}
    IN  IF I = {} THEN None
        ELSE offer[log[CHOOSE i \in I : \A j \in I : i <= j]]
PairsAreNewest ==
    \A c \in Convs :
        /\ ReadConversationLogs[c].prompt = Newest(c, [e \in Entry |-> PromptIn(e)])
        /\ ReadConversationLogs[c].response = Newest(c, [e \in Entry |-> ResponseIn(e)])
        /\ ReadConversationLogs[c].variant = Newest(c, [e \in Entry |-> VariantIn(e)])

\* A stored row speaks of its own conversation only: its prompt was forwarded,
\* its response was really produced, its variant really injected, all by
\* requests of that conversation, in whatever order the goroutines wrote.
RowsFromTheirConversation ==
    \A c \in Convs :
        LET row == rows[c]
        IN  /\ row.prompt # None => conv[row.prompt] = c /\ phase[row.prompt] # "new"
            /\ row.response # None => conv[row.response] = c /\ phase[row.response] = "answered"
            /\ row.variant # None => conv[row.variant] = c /\ row.variant \in treated

Logged(r, role) == \E i \in 1 .. Read : log[i] = [req |-> r, role |-> role]
PromptLogged(c) == \E r \in Requests : conv[r] = c /\ Logged(r, "request")

\* A conversation with a logged prompt reaches Postgres, unless its prompts are
\* all trimmed or lost first.
LoggedIsStored ==
    \A c \in Convs : PromptLogged(c) ~> (rows[c] # NoRow \/ ~PromptLogged(c))

\* LoadConversationSamples and ReadySessions use a row with both texts only.
Usable(c) == rows[c].prompt # None /\ rows[c].response # None

PairLogged(c) ==
    \E r \in Requests : /\ conv[r] = c /\ phase[r] = "answered"
                       /\ Logged(r, "request") /\ Logged(r, "response")
\* A conversation logged with its prompt and its response becomes usable to the
\* optimizer, unless an entry is trimmed or lost first.
AnsweredBecomesUsable ==
    \A c \in Convs : PairLogged(c) ~> (Usable(c) \/ ~PairLogged(c))

=============================================================================
