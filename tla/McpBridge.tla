------------------------------ MODULE McpBridge ------------------------------
(* The MCP server's stdio bridge. The host's lines arrive in chunks; each     *)
(* chunk starts a loop of its own over the one shared buffer, and a loop that *)
(* meets a call awaits its dispatch before it takes the next line. Answers to *)
(* the server's own sampling requests come on the same stream, in any order,  *)
(* late or never.                                                             *)
EXTENDS Integers, Sequences, FiniteSets

CONSTANTS
    Asked,        \* bound: the calls the host may make first, second, ...
    MaxTicks,     \* bound: the periodic drain loop ticks until it has sampled that often
    DrainBatch,   \* drainBatch: the events one drain claims at most
    MaxSamples    \* bound: sampling requests; a drain that met it finds the rest in the cache

-----------------------------------------------------------------------------
(* The tools: their required arguments, and the request each becomes.         *)

searchTools ==
    [mem_search |-> {"query"}, mem_timeline |-> {"near_id"}, mem_get |-> {"ids"},
     mem_drain |-> {}, mem_why |-> {"kind", "id"}, mem_pin |-> {"summary_id"},
     mem_unpin |-> {"summary_id"}, mem_pinned |-> {}, mem_prune |-> {}, mem_retry |-> {}]
storeTools ==
    [mem_doctor |-> {}, mem_export |-> {}, mem_import |-> {"ndjson"}, mem_sweep_expired |-> {},
     mem_thread |-> {"session_id"}, mem_federate_search |-> {"query"},
     mem_symbol_search |-> {"query"}, mem_stats |-> {}, mem_replay |-> {"session_id"},
     mem_capture |-> {"session_id", "payload"}, mem_context_budget |-> {"query", "max_tokens"},
     mem_compact |-> {}]
insightTools ==
    [mem_patterns |-> {}, mem_session_digest |-> {"session_id"}, mem_auto_pin_patterns |-> {},
     mem_as_of |-> {"ts"}, mem_dashboard |-> {}, mem_sessions |-> {},
     mem_graph_subgraph |-> {"kind", "id"}, mem_graph_hubs |-> {},
     mem_graph_path |-> {"from_kind", "from_id", "to_kind", "to_id"}]

Tool == DOMAIN searchTools \cup DOMAIN storeTools \cup DOMAIN insightTools
required(t) ==
    IF t \in DOMAIN searchTools THEN searchTools[t]
    ELSE IF t \in DOMAIN storeTools THEN storeTools[t] ELSE insightTools[t]

\* These two drain first, through the host if it lets itself be sampled.
DrainingTools == {"mem_search", "mem_drain"}

\* One request to the daemon, whose answer is the result.
CurationCases == {"mem_timeline", "mem_get", "mem_why", "mem_pin", "mem_unpin", "mem_pinned", "mem_prune"}
StoreCases ==
    {"mem_retry", "mem_doctor", "mem_export", "mem_import", "mem_sweep_expired", "mem_thread",
     "mem_federate_search", "mem_symbol_search", "mem_stats", "mem_replay", "mem_capture"}
InsightCases ==
    {"mem_context_budget", "mem_compact", "mem_patterns", "mem_session_digest",
     "mem_auto_pin_patterns", "mem_as_of", "mem_dashboard", "mem_sessions"}

\* The same, once the types of the arguments have been looked at.
TypedCases == {"mem_graph_subgraph", "mem_graph_hubs", "mem_graph_path"}

ForwardingTools == CurationCases \cup StoreCases \cup InsightCases \cup TypedCases

\* What the host may ask: a tool with its arguments or without, one nobody knows, the handshake.
AnyCall == [tool : Tool \cup {"unknown", "initialize", "tools/list"}, bare : BOOLEAN]

ASSUME BridgeAssumption ==
    Asked \in Seq(SUBSET AnyCall) /\ MaxTicks \in Nat /\ DrainBatch \in Nat /\ MaxSamples \in Nat

-----------------------------------------------------------------------------
VARIABLES
    calls,        \* the calls written so far; a call is named by its place
    stdin, cut,   \* lines written and not read; half of the first one is in the buffer
    buffer,       \* the complete lines of the shared buffer
    stage,        \* what each dispatch awaits; 0 is the periodic drain loop
    sampling,     \* the host let itself be sampled when a dispatch began, per caller
    available,    \* samplingAvailable
    waiter,       \* the caller of each sampling request so far
    waiting,      \* the requests with a waiter in the map
    unanswered,   \* the requests the host has not answered
    responses,    \* the calls answered, in the order written
    left,         \* the events of each caller's batch that are not done
    wokenBy       \* history: the answer each caller was woken with

bridgeVars == <<calls, stdin, cut, buffer, stage, sampling, available, waiter, waiting,
                unanswered, responses, left, wokenBy>>

Caller == 0..Len(calls)
Members(s) == {s[n] : n \in 1..Len(s)}

BridgeInit ==
    /\ calls = <<>> /\ stdin = <<>> /\ cut = FALSE /\ buffer = <<>>
    /\ stage = [c \in {0} |-> "off"] /\ sampling = [c \in {0} |-> TRUE] /\ available = FALSE
    /\ waiter = <<>> /\ waiting = {} /\ unanswered = {}
    /\ responses = <<>> /\ left = [c \in {0} |-> 0] /\ wokenBy = [c \in {0} |-> 0]

\* The host makes a call, or answers a sampling request.
HostCalls ==
    /\ Len(calls) < Len(Asked)
    /\ \E k \in Asked[Len(calls) + 1] :
          /\ calls' = Append(calls, k)
          /\ LET c == Len(calls) + 1 IN
             /\ stdin' = Append(stdin, [is |-> "call", n |-> c])
             /\ stage' = [x \in 0..c |-> IF x = c THEN "written" ELSE stage[x]]
             /\ sampling' = [x \in 0..c |-> IF x = c THEN FALSE ELSE sampling[x]]
             /\ wokenBy' = [x \in 0..c |-> IF x = c THEN 0 ELSE wokenBy[x]]
             /\ left' = [x \in 0..c |-> IF x = c THEN 0 ELSE left[x]]
    /\ UNCHANGED <<cut, buffer, available, waiter, waiting, unanswered, responses>>

HostAnswers ==
    /\ \E i \in unanswered :
          /\ unanswered' = unanswered \ {i}
          /\ stdin' = Append(stdin, [is |-> "answer", n |-> i])
    /\ UNCHANGED <<calls, cut, buffer, stage, sampling, available, waiter, waiting, responses, left, wokenBy>>

-----------------------------------------------------------------------------
(* The loop over the buffer.                                                  *)

\* The place of the first call of b, 0 for none.
FirstCall(b) ==
    LET places == {n \in 1..Len(b) : b[n].is = "call"} IN
    IF places = {} THEN {0} ELSE {n \in places : \A m \in places : n <= m}

\* this.buf without the lines up to the n-th
Leaves(b, n) == SubSeq(b, n + 1, Len(b))

\* Mutant: an answer wakes whoever asked first.
WakesFirst(ids) ==
    [c \in DOMAIN wokenBy |->
        LET first == {i \in waiting : waiter[i] = c /\ \A j \in waiting : i <= j} IN
        IF ids # {} /\ first # {} THEN CHOOSE i \in ids : TRUE ELSE 0]

\* The answer each waiter is woken with; one that nobody waits for is passed over.
Wakes(ids) ==
    [c \in DOMAIN wokenBy |->
        LET own == {i \in ids \cap waiting : waiter[i] = c} IN
        IF own = {} THEN 0 ELSE CHOOSE i \in own : TRUE]

\* What a dispatch begins with.
Begins(c) ==
    LET k == calls[c] IN
    IF k.tool \in Tool /\ required(k.tool) # {} /\ k.bare THEN "reply"
    ELSE IF k.tool = "mem_search" THEN "status"
    ELSE IF k.tool = "mem_drain" THEN IF available THEN "claim" ELSE "drain"
    ELSE IF k.tool \in ForwardingTools THEN "request"
    ELSE IF k.tool = "initialize" THEN "handshake" ELSE "reply"

\* The loop runs over b from the buffer: answers wake their waiters; at the first call it stops and awaits.
Run(b, stages) ==
    \E n \in FirstCall(b) :
    LET answers == {b[m].n : m \in {j \in 1..Len(b) : b[j].is = "answer" /\ (n = 0 \/ j < n)}}
        woken == Wakes(answers)
    IN  /\ buffer' = IF n = 0 THEN <<>> ELSE Leaves(b, n)
        /\ wokenBy' = [c \in DOMAIN wokenBy |-> IF woken[c] = 0 THEN wokenBy[c] ELSE woken[c]]
        /\ waiting' = waiting \ answers
        /\ stage' = [c \in DOMAIN stages |->
                       IF n > 0 /\ c = b[n].n THEN IF stages[c] = "written" THEN Begins(c) ELSE "again"
                       ELSE IF woken[c] # 0 THEN "write" ELSE stages[c]]
        /\ sampling' = IF n > 0 THEN [sampling EXCEPT ![b[n].n] = available] ELSE sampling

\* A chunk: the rest of a cut line, more lines, half of the next.
LinesArrive ==
    \E lines \in 0..Len(stdin), half \in BOOLEAN :
        /\ lines > 0 \/ (half /\ ~cut)
        /\ half => lines < Len(stdin)
        /\ stdin' = Leaves(stdin, lines) /\ cut' = half
        /\ Run(buffer \o SubSeq(stdin, 1, lines), stage)
        /\ UNCHANGED <<calls, available, waiter, unanswered, responses, left>>

-----------------------------------------------------------------------------
(* A dispatch, an await at a time; each either gives an answer or fails.      *)

Awaited(c, next) ==
    /\ stage' = [stage EXCEPT ![c] = next]
    /\ UNCHANGED <<calls, stdin, cut, buffer, sampling, available, waiter, waiting,
                   unanswered, responses, left, wokenBy>>

\* After the drain: the search itself, or the answer; the loop goes back to sleep.
AfterDrain(c) ==
    IF c = 0 THEN "asleep" ELSE IF calls[c].tool = "mem_search" THEN "request" ELSE "reply"

\* The handler throws: dispatch answers an error, the loop's tick logs it.
Thrown(c) == IF c = 0 THEN "asleep" ELSE "reply"

\* The backlog for the size of the batch: a failure is swallowed.
GetStatus(c) ==
    /\ stage[c] = "status"
    /\ Awaited(c, IF c = 0 THEN "claim" ELSE IF sampling[c] THEN "claim" ELSE "drain")

\* Nothing to drain, or no daemon: the tick ends.
LoopTickEnds == stage[0] = "status" /\ Awaited(0, "asleep")

\* drain: the daemon's own, whatever becomes of it.
DaemonDrains(c) == stage[c] = "drain" /\ Awaited(c, AfterDrain(c))

\* claim_for_summary: none, a failure that leaves the handler, or a batch.
ClaimNone(c) == stage[c] = "claim" /\ Awaited(c, AfterDrain(c))
ClaimFails(c) == stage[c] = "claim" /\ Awaited(c, Thrown(c))
Claim(c) ==
    /\ stage[c] = "claim"
    /\ \E n \in 1..DrainBatch : left' = [left EXCEPT ![c] = n]
    /\ stage' = [stage EXCEPT ![c] = "event"]
    /\ UNCHANGED <<calls, stdin, cut, buffer, sampling, available, waiter, waiting, unanswered, responses, wokenBy>>

\* cache_get: the summary of an input seen before, or a failure, to be released.
TakeCached(c) == stage[c] = "event" /\ Awaited(c, "write")

\* requestSampling: the next id, a waiter, a line to the host.
Sample(c) ==
    /\ stage[c] = "event" /\ Len(waiter) < MaxSamples
    /\ waiter' = Append(waiter, c)
    /\ waiting' = waiting \cup {Len(waiter) + 1}
    /\ unanswered' = unanswered \cup {Len(waiter) + 1}
    /\ stage' = [stage EXCEPT ![c] = "sampling"]
    /\ UNCHANGED <<calls, stdin, cut, buffer, sampling, available, responses, left, wokenBy>>

\* 60 s: the waiter is rejected, and the event will be released.
SamplingTimesOut(i) ==
    /\ i \in waiting
    /\ waiting' = waiting \ {i}
    /\ stage' = [stage EXCEPT ![waiter[i]] = "write"]
    /\ UNCHANGED <<calls, stdin, cut, buffer, sampling, available, waiter, unanswered, responses, left, wokenBy>>

\* record_summary or release_summary, and the next event; a release that fails is thrown.
Recorded(c) ==
    /\ stage[c] = "write"
    /\ left' = [left EXCEPT ![c] = left[c] - 1]
    /\ stage' = [stage EXCEPT ![c] = IF left[c] > 1 THEN "event" ELSE AfterDrain(c)]
    /\ UNCHANGED <<calls, stdin, cut, buffer, sampling, available, waiter, waiting, unanswered, responses, wokenBy>>
RecordFails(c) == stage[c] = "write" /\ Awaited(c, Thrown(c))

\* The request of the tool: answered or failed, the host is told.
Requested(c) == stage[c] = "request" /\ Awaited(c, "reply")

\* initialize: the handshake starts the periodic loop if the host can be sampled.
Handshake(c) ==
    /\ stage[c] = "handshake"
    /\ available' \in BOOLEAN
    /\ stage' = [stage EXCEPT ![c] = "reply", ![0] = IF available' THEN "asleep" ELSE "off"]
    /\ UNCHANGED <<calls, stdin, cut, buffer, sampling, waiter, waiting, unanswered, responses, left, wokenBy>>

\* Mutant: the loop over the buffer ends with its first call.
ReplyAndReturn(c) ==
    /\ stage[c] = "reply"
    /\ responses' = Append(responses, c)
    /\ stage' = [stage EXCEPT ![c] = "done"]
    /\ UNCHANGED <<calls, stdin, cut, buffer, sampling, available, waiter, waiting, unanswered, left, wokenBy>>

\* The answer is written, and the loop that awaited it takes the next line.
Reply(c) ==
    /\ stage[c] = "reply"
    /\ responses' = Append(responses, c)
    /\ Run(buffer, [stage EXCEPT ![c] = "done"])
    /\ UNCHANGED <<calls, stdin, cut, available, waiter, unanswered, left>>

LoopTick ==
    /\ stage[0] = "asleep" /\ Cardinality({i \in DOMAIN waiter : waiter[i] = 0}) < MaxTicks
    /\ Awaited(0, "status")

Dispatch(c) ==
    \/ GetStatus(c) \/ DaemonDrains(c) \/ ClaimNone(c) \/ ClaimFails(c) \/ Claim(c) \/ TakeCached(c) \/ Sample(c)
    \/ Recorded(c) \/ RecordFails(c) \/ Requested(c)

\* What arrives is read; a request to the daemon ends, if only by its timeout; a sampling request times out.
Serve ==
    \/ LinesArrive
    \/ \E i \in waiting : SamplingTimesOut(i)
    \/ \E c \in Caller \ {0} : Dispatch(c) \/ Handshake(c) \/ Reply(c)

BridgeNext == HostCalls \/ HostAnswers \/ LoopTick \/ LoopTickEnds \/ Dispatch(0) \/ Serve

BridgeSpec == BridgeInit /\ [][BridgeNext]_bridgeVars /\ WF_bridgeVars(Serve)

-----------------------------------------------------------------------------
(* Properties                                                                 *)

\* Although loops meet in one buffer, each call is dispatched once and answered once; and a dispatch is only ever
\* woken with the answer to its own sampling request, however late and in whatever order the answers come.
LinesAnsweredOnce ==
    /\ \A c \in Caller : stage[c] # "again"
    /\ Cardinality(Members(responses)) = Len(responses)
    /\ \A c \in Caller : wokenBy[c] # 0 => waiter[wokenBy[c]] = c

\* The inductive strengthening of LinesAnsweredOnce.

Stage ==
    {"off", "asleep", "written", "handshake", "status", "drain", "claim", "event", "sampling",
     "write", "request", "reply", "done"}
Line == [is : {"call", "answer"}, n : Nat]

BridgeTypeOK ==
    /\ calls \in Seq(AnyCall) /\ stdin \in Seq(Line) /\ cut \in BOOLEAN /\ buffer \in Seq(Line)
    /\ stage \in [Caller -> Stage] /\ sampling \in [Caller -> BOOLEAN] /\ available \in BOOLEAN
    /\ waiter \in Seq(Caller)
    /\ waiting \subseteq 1..Len(waiter) /\ unanswered \subseteq 1..Len(waiter)
    /\ responses \in Seq(Caller \ {0}) /\ left \in [Caller -> Int]
    /\ wokenBy \in [Caller -> 0..Len(waiter)]

\* The calls of a list of lines, and that none is there twice.
CallsIn(s) == {s[n].n : n \in {m \in 1..Len(s) : s[m].is = "call"}}
OnceIn(s) ==
    \A m, n \in 1..Len(s) : s[m].is = "call" /\ s[n].is = "call" /\ s[m].n = s[n].n => m = n

\* A call not yet dispatched is in one place.
LinesOnce ==
    /\ OnceIn(stdin) /\ OnceIn(buffer) /\ CallsIn(stdin) \cap CallsIn(buffer) = {}
    /\ \A c \in CallsIn(stdin) \cup CallsIn(buffer) : c \in 1..Len(calls) /\ stage[c] = "written"

\* An answered one has one response.
AnsweredOnce ==
    /\ \A m, n \in 1..Len(responses) : responses[m] = responses[n] => m = n
    /\ \A n \in 1..Len(responses) : stage[responses[n]] = "done"

\* A dispatch awaits one sampling request at a time.
AwaitsOne ==
    \A i \in waiting : waiter[i] # 0 =>
        stage[waiter[i]] = "sampling" /\ \A j \in waiting : waiter[i] = waiter[j] => i = j

WokenByOwn == \A c \in Caller : wokenBy[c] # 0 => waiter[wokenBy[c]] = c

BridgeInv == BridgeTypeOK /\ LinesOnce /\ AnsweredOnce /\ AwaitsOne /\ WokenByOwn

\* Every call the host writes is answered in the end, though it answers no sampling request itself and goes
\* on writing until it has no more to ask.
EveryCallAnswered == <>[](Members(responses) = 1..Len(calls))
=============================================================================
