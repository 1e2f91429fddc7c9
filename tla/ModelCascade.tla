---------------------------- MODULE ModelCascade ------------------------------
(* Summarizer.summarize: the cheap model first, the better one when the first *)
(* is not sure, and a cache of what each model answered for each input. Jobs  *)
(* of several drains run at once; every cache access, request and write is an *)
(* await. The client of the backend tries a request again, and the drain      *)
(* decides by the text of the last error whether the event may come back.     *)
(*                                                                            *)
(* Of an answer only its confidence is kept, above or below the threshold,    *)
(* and the input it was given for.                                            *)
EXTENDS Naturals

CONSTANTS
    Event,
    Input,        \* the input hashes
    input,        \* the input hash of each event
    NoAnswer,
    MaxModelRetries,    \* opts.maxRetries of the model clients
    MaxFaults     \* bound: failing requests, writes and stops

ASSUME CascadeAssumption ==
    input \in [Event -> Input] /\ MaxModelRetries \in Nat /\ MaxFaults \in Nat

ModelAnswer == [sure : BOOLEAN, of : Input]
ASSUME NoAnswerAssumption == NoAnswer \notin ModelAnswer

Model == {"haiku", "sonnet"}

\* The clients: how often each tries again, and what the last error may say. A status of the
\* 4xx is tried again as any other error is; Ollama is asked once and cut off in time.
Failures == {"429", "400", "500", "503", "fetch failed"}
GlmClient == [retries |-> MaxModelRetries, fails |-> Failures]
GeminiClient == [retries |-> MaxModelRetries, fails |-> Failures]
AnthropicClient == [retries |-> MaxModelRetries, fails |-> Failures \cup {"overloaded"}]
OllamaClient == [retries |-> 0, fails |-> Failures \cup {"aborted"}]
Client == {GlmClient, GeminiClient, AnthropicClient, OllamaClient}

\* Neither fetch's own "fetch failed" nor the abort of a slow Ollama nor a plain 500 is in
\* the list of words.
isRetryableError == {"429", "503", "overloaded"}

VARIABLES
    client,       \* the client of the backend in use
    cache,        \* summary_cache
    job,          \* where the summarize() of each event is
    summary,      \* the summary recorded for each event
    faults,
    paid,         \* history: answers each event obtained from each model
    spoilt        \* history: answers of a model each event could no longer look up: its own
                  \* was lost before it was cached, or the row of its input was dropped

cascadeVars == <<client, cache, job, summary, faults, paid, spoilt>>

Pc == {"idle", "first", "ask", "store", "second", "record", "done", "skipped"}
NoJob == [pc |-> "idle", model |-> "haiku", try |-> 0, out |-> NoAnswer]

CascadeInit ==
    /\ client \in Client
    /\ cache = [m \in Model |-> [i \in Input |-> NoAnswer]]
    /\ job = [e \in Event |-> NoJob]
    /\ summary = [e \in Event |-> NoAnswer]
    /\ faults = 0
    /\ paid = [m \in Model |-> [e \in Event |-> 0]]
    /\ spoilt = [m \in Model |-> [e \in Event |-> 0]]

Fault == faults < MaxFaults /\ faults' = faults + 1
To(e, pc) == job' = [job EXCEPT ![e].pc = pc]
Hold(e, pc, model, out) ==
    job' = [job EXCEPT ![e] = [pc |-> pc, model |-> model, try |-> 0, out |-> out]]
History == UNCHANGED <<client, paid, spoilt>>

\* A drain has claimed the event.
Begin(e) ==
    /\ job[e].pc = "idle" /\ To(e, "first")
    /\ UNCHANGED <<cache, summary, faults>> /\ History

\* getCachedSummary for the first model: a hit is recorded as it is.
LookUpFirst(e) ==
    /\ job[e].pc = "first"
    /\ LET hit == cache["haiku"][input[e]] IN
           IF hit = NoAnswer THEN Hold(e, "ask", "haiku", NoAnswer)
           ELSE Hold(e, "record", "haiku", hit)
    /\ UNCHANGED <<cache, summary, faults>> /\ History

\* The request is answered.
Generated(e) ==
    /\ job[e].pc = "ask"
    /\ \E sure \in BOOLEAN : Hold(e, "store", job[e].model, [sure |-> sure, of |-> input[e]])
    /\ paid' = [paid EXCEPT ![job[e].model][e] = @ + 1]
    /\ UNCHANGED <<client, cache, summary, faults, spoilt>>

\* The request fails and is tried again, or the last error leaves summarize: the event goes
\* back to the queue or is skipped.
TryFails(e) ==
    /\ job[e].pc = "ask" /\ Fault
    /\ \/ job[e].try < client.retries /\ job' = [job EXCEPT ![e].try = @ + 1]
       \/ /\ job[e].try = client.retries
          /\ \E f \in client.fails :
                IF f \in isRetryableError THEN job' = [job EXCEPT ![e] = NoJob]
                ELSE To(e, "skipped")
    /\ UNCHANGED <<cache, summary>> /\ History

\* Where a stored answer goes: a sure one, or the better model's, is recorded.
AfterStore(e) == IF job[e].model = "sonnet" \/ job[e].out.sure THEN "record" ELSE "second"

\* Mutant: an answer that is not sure is not worth caching.
StoreSure(e) ==
    /\ job[e].pc = "store"
    /\ cache' = IF job[e].out.sure
                THEN [cache EXCEPT ![job[e].model][input[e]] = job[e].out] ELSE cache
    /\ To(e, AfterStore(e))
    /\ UNCHANGED <<summary, faults>> /\ History

\* putCachedSummary.
StoreAnswer(e) ==
    /\ job[e].pc = "store"
    /\ cache' = [cache EXCEPT ![job[e].model][input[e]] = job[e].out]
    /\ To(e, AfterStore(e))
    /\ UNCHANGED <<summary, faults>> /\ History

\* Mutant: the second cache key leaves the input out.
LookUpAnySecond(e) ==
    /\ job[e].pc = "second"
    /\ LET hits == {cache["sonnet"][i] : i \in Input} \ {NoAnswer} IN
           IF hits = {} THEN Hold(e, "ask", "sonnet", NoAnswer)
           ELSE \E hit \in hits : Hold(e, "record", "sonnet", hit)
    /\ UNCHANGED <<cache, summary, faults>> /\ History

LookUpSecond(e) ==
    /\ job[e].pc = "second"
    /\ LET hit == cache["sonnet"][input[e]] IN
           IF hit = NoAnswer THEN Hold(e, "ask", "sonnet", NoAnswer)
           ELSE Hold(e, "record", "sonnet", hit)
    /\ UNCHANGED <<cache, summary, faults>> /\ History

\* recordSummary: ON CONFLICT(event_id) DO NOTHING.
Record(e) ==
    /\ job[e].pc = "record"
    /\ summary' = [summary EXCEPT ![e] =
           IF @ # NoAnswer THEN @
           ELSE [model |-> job[e].model, sure |-> job[e].out.sure, of |-> job[e].out.of]]
    /\ To(e, "done")
    /\ UNCHANGED <<cache, faults>> /\ History

\* A write of summarize throws, its text is none the drain retries; or the process stops, and
\* the event, requeued by hand, starts over.
WriteFails(e) ==
    /\ job[e].pc \in {"store", "record"} /\ Fault
    /\ \/ To(e, "skipped")
       \/ job' = [job EXCEPT ![e] = NoJob]
    /\ spoilt' = IF job[e].pc = "store" THEN [spoilt EXCEPT ![job[e].model][e] = @ + 1]
                 ELSE spoilt
    /\ UNCHANGED <<client, cache, summary, paid>>

\* retry_skipped.
Requeue(e) ==
    /\ job[e].pc = "skipped" /\ Fault
    /\ job' = [job EXCEPT ![e] = NoJob]
    /\ UNCHANGED <<cache, summary>> /\ History

\* compact: an old cache row is dropped.
DropCached(m, i) ==
    /\ cache[m][i] # NoAnswer /\ Fault
    /\ cache' = [cache EXCEPT ![m][i] = NoAnswer]
    /\ spoilt' = [spoilt EXCEPT ![m] =
           [e \in Event |-> IF input[e] = i THEN @[e] + 1 ELSE @[e]]]
    /\ UNCHANGED <<client, job, summary, paid>>

Summarize(e) ==
    \/ Begin(e) \/ LookUpFirst(e) \/ Generated(e) \/ TryFails(e) \/ StoreAnswer(e)
    \/ LookUpSecond(e) \/ Record(e) \/ WriteFails(e)

CascadeNext ==
    \/ \E e \in Event : Summarize(e) \/ Requeue(e)
    \/ \E m \in Model, i \in Input : DropCached(m, i)

\* Every await of summarize returns: the requests time out in fetch.
CascadeSpec ==
    CascadeInit /\ [][CascadeNext]_cascadeVars /\ \A e \in Event : WF_cascadeVars(Summarize(e))

-----------------------------------------------------------------------------

\* A summary was given for its own event's input, whichever cache row it came through.
SummaryOfOwnInput == \A e \in Event : summary[e] # NoAnswer => summary[e].of = input[e]

\* "Identical re-runs are zero-cost" (summarizer.ts:3): each event pays each model at most once,
\* however often its requests fail, it is requeued and jobs of the same input race, and once
\* more for every answer that was lost before it was cached or whose row was dropped.
PaidOnce == \A m \in Model, e \in Event : paid[m][e] <= 1 + spoilt[m][e]

-----------------------------------------------------------------------------
(* The inductive strengthening of both.                                       *)

CascadeTypeOK ==
    /\ client \in Client
    /\ cache \in [Model -> [Input -> ModelAnswer \cup {NoAnswer}]]
    /\ job \in [Event -> [pc : Pc, model : Model, try : Nat, out : ModelAnswer \cup {NoAnswer}]]
    /\ summary \in [Event -> [model : Model, sure : BOOLEAN, of : Input] \cup {NoAnswer}]
    /\ paid \in [Model -> [Event -> Nat]] /\ spoilt \in [Model -> [Event -> Nat]]

\* A cached answer, and the one a job holds, are of the input they are kept under.
AnswersOwnInput ==
    /\ \A m \in Model, i \in Input : cache[m][i] # NoAnswer => cache[m][i].of = i
    /\ \A e \in Event : job[e].pc \in {"store", "record"} =>
          job[e].out # NoAnswer /\ job[e].out.of = input[e]

Asking(m, e) == job[e].pc = "ask" /\ job[e].model = m
Holding(m, e) == job[e].pc = "store" /\ job[e].model = m

\* Every answer paid for is lost, or is the one in the job's hands or in the cache, and a job
\* that asks has none.
PaidIsKept ==
    \A m \in Model, e \in Event :
        \/ paid[m][e] <= spoilt[m][e]
        \/ /\ paid[m][e] = 1 + spoilt[m][e] /\ ~Asking(m, e)
           /\ Holding(m, e) \/ cache[m][input[e]] # NoAnswer

CascadeInv == CascadeTypeOK /\ AnswersOwnInput /\ SummaryOfOwnInput /\ PaidIsKept
=============================================================================
