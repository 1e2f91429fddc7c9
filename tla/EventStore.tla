----------------------------- MODULE EventStore -----------------------------
(***************************************************************************)
(* The rows of the memory database the summarisation queue works on        *)
(* (src/memory/storage/storage.ts over the schema of storage/schema.ts):   *)
(* the status and attempts columns of `events', the rows of `summaries'    *)
(* (UNIQUE on event_id, so an event id names at most one) and the rows of  *)
(* `summary_embeddings'.  Each operator below is ONE SQL statement of the  *)
(* code: that is the grain at which the asynchronous callers interleave.   *)
(*                                                                         *)
(* Abstracted: payloads, texts, sessions, timestamps, FTS and vec0 shadow  *)
(* tables.  A summary row is named by the event it summarises; summary ids *)
(* only matter as the handle recordSummary returns (see DrainWorkers).     *)
(***************************************************************************)
EXTENDS Naturals, FiniteSets

CONSTANTS
    MaxEvents,    (* bound: how many events are ever captured               *)
    MaxAttempts   (* releaseClaimed's maxAttempts (3 in the code)           *)

ASSUME StoreAssumption == MaxEvents \in Nat /\ MaxAttempts \in Nat \ {0}

Event == 1..MaxEvents     \* ids handed out by AUTOINCREMENT: ascending, never reused
None  == 0                \* no row

Status == {"absent", "raw", "claimed", "summarized", "skipped"}

VARIABLES
    nextId,     \* the next id AUTOINCREMENT hands out
    status,     \* events.status; "absent" when there is no such row
    attempts,   \* events.attempts
    summaries,  \* the events that have a row in summaries
    vector      \* vector[s]: the event whose text the embedding row of s's summary encodes

storeVars == <<nextId, status, attempts, summaries, vector>>

StoreTypeOK ==
    /\ nextId \in 1..(MaxEvents + 1)
    /\ status \in [Event -> Status]
    /\ attempts \in [Event -> 0..MaxAttempts]
    /\ summaries \in SUBSET Event
    /\ vector \in [Event -> Event \cup {None}]

StoreInit ==
    /\ nextId = 1
    /\ status = [e \in Event |-> "absent"]
    /\ attempts = [e \in Event |-> 0]
    /\ summaries = {}
    /\ vector = [e \in Event |-> None]

-----------------------------------------------------------------------------
Rows == {e \in Event : status[e] # "absent"}
WithStatus(s) == {e \in Event : status[e] = s}

\* The n smallest ids of S: ORDER BY id ASC LIMIT n.
Oldest(S, n) == {e \in S : Cardinality({f \in S : f < e}) < n}

\* UPDATE events SET status = s WHERE id IN S: rows deleted meanwhile are not touched.
StatusSet(S, s) == [e \in Event |-> IF e \in S \cap Rows THEN s ELSE status[e]]

-----------------------------------------------------------------------------
\* recordEvent of a payload not seen before; a duplicate (session, hash) inserts nothing.
RecordEvent ==
    /\ nextId \in Event
    /\ status' = [status EXCEPT ![nextId] = "raw"]
    /\ nextId' = nextId + 1
    /\ UNCHANGED <<attempts, summaries, vector>>

\* markEventStatus, and the UPDATE of claimPending.
SetStatus(S, s) ==
    /\ status' = StatusSet(S, s)
    /\ UNCHANGED <<nextId, attempts, summaries, vector>>

\* Mutant: a retryable failure is not counted.
ReleaseUncounted(e, seen) ==
    /\ status' = StatusSet({e}, IF seen + 1 >= MaxAttempts THEN "skipped" ELSE "raw")
    /\ UNCHANGED <<nextId, attempts, summaries, vector>>

\* The two UPDATEs of releaseClaimed; seen is the attempts value its SELECT returned.
WriteRelease(e, seen) ==
    /\ status' = StatusSet({e}, IF seen + 1 >= MaxAttempts THEN "skipped" ELSE "raw")
    /\ attempts' = IF e \in Rows THEN [attempts EXCEPT ![e] = seen + 1] ELSE attempts
    /\ UNCHANGED <<nextId, summaries, vector>>

\* recordSummary's INSERT: the foreign key demands the event row, a second row is ignored.
InsertSummary(e) ==
    /\ e \in Rows
    /\ summaries' = summaries \cup {e}
    /\ UNCHANGED <<nextId, status, attempts, vector>>

\* putEmbedding's INSERT OR REPLACE: the foreign key demands the summary row of s.
PutVector(s, e) ==
    /\ s \in summaries
    /\ vector' = [vector EXCEPT ![s] = e]
    /\ UNCHANGED <<nextId, status, attempts, summaries>>

\* DELETE FROM events: summaries and embeddings go with the row (ON DELETE CASCADE).
DeleteEvents(S) ==
    /\ status' = [e \in Event |-> IF e \in S THEN "absent" ELSE status[e]]
    /\ attempts' = [e \in Event |-> IF e \in S THEN 0 ELSE attempts[e]]
    /\ summaries' = summaries \ S
    /\ vector' = [e \in Event |-> IF e \in S THEN None ELSE vector[e]]
    /\ UNCHANGED nextId

\* Mutant: claimed rows are taken for stuck ones and re-queued as well.
RetryClaimed(n) ==
    LET S == Oldest(WithStatus("skipped") \cup WithStatus("claimed"), n) IN
    /\ S # {}
    /\ status' = StatusSet(S, "raw")
    /\ attempts' = [e \in Event |-> IF e \in S THEN 0 ELSE attempts[e]]
    /\ UNCHANGED <<nextId, summaries, vector>>

\* retrySkipped: skipped rows, all of them or the `limit' oldest, are raw again.
RetrySkipped(n) ==
    LET S == Oldest(WithStatus("skipped"), n) IN
    /\ S # {}
    /\ status' = StatusSet(S, "raw")
    /\ attempts' = [e \in Event |-> IF e \in S THEN 0 ELSE attempts[e]]
    /\ UNCHANGED <<nextId, summaries, vector>>

\* sweepExpired: the rows whose expires_at has passed, whatever their status.
SweepExpired(S) ==
    /\ S # {}
    /\ S \subseteq Rows
    /\ DeleteEvents(S)

\* prune, first statement: skipped rows older than the cutoff.
Prune(S) ==
    /\ S # {}
    /\ S \subseteq WithStatus("skipped")
    /\ DeleteEvents(S)

\* prune, second statement, with `superseded': the summaries the consolidator has marked as
\* near-duplicates of a newer one go, their events keep their status.  Only a summary with
\* an embedding is ever marked, and never the newest of its kind.
PruneSuperseded(S) ==
    LET embedded == {s \in summaries : vector[s] # None} IN
    /\ S # {}
    /\ S \subseteq embedded
    /\ S # embedded
    /\ summaries' = summaries \ S
    /\ vector' = [e \in Event |-> IF e \in S THEN None ELSE vector[e]]
    /\ UNCHANGED <<nextId, status, attempts>>
=============================================================================
