---------------------------- MODULE DrainWorkers ----------------------------
(***************************************************************************)
(* The drains that turn raw events into summaries with a local model       *)
(* client: runDrain of src/memory/daemon/server.ts, started by the `drain' *)
(* RPC and by the periodic loop, and the same loop written out in          *)
(* bin/siftcoder.mjs, which another process runs on the same file when the *)
(* daemon does not answer.  Several run at once; each await of the code is *)
(* a step boundary here, so they interleave with each other, with captures *)
(* and with the housekeeping that deletes or re-queues rows under them.    *)
(*                                                                         *)
(* SQLite admits one writing process: while a drain is inside its claim    *)
(* transaction the other processes' writes wait.  Writes of its OWN        *)
(* process share the connection, and with it the open transaction.         *)
(*                                                                         *)
(* A process may stop at any step: process.exit in the shutdown of         *)
(* daemon/index.ts waits for no drain, exactly like a kill.  Only a stop   *)
(* inside a claim transaction is left out: alone, its rollback amounts to  *)
(* a stop just before the claim.                                           *)
(***************************************************************************)
EXTENDS EventStore

CONSTANTS
    Drainer,      (* drain invocations that may run at the same time        *)
    Procs,        (* the processes, each the set of the drainers it runs    *)
    Daemon,       (* the one of them that captures and keeps house          *)
    Batch,        (* the largest batch a caller asks for                    *)
    Expiring,     (* the events captured with a ttl: the sweeper takes them *)
    Repeated,     (* the events a later one nearly repeats: their summaries *)
                  (* are the ones the consolidator marks as superseded      *)
    MaxCrashes    (* bound: how often a process stops                       *)

ASSUME DrainAssumption ==
    /\ Procs \subseteq SUBSET Drainer
    /\ Daemon \in Procs
    /\ Batch \in Nat \ {0}
    /\ Expiring \subseteq Event
    /\ Repeated \subseteq Event
    /\ MaxCrashes \in Nat
    /\ None \notin Drainer

PC == {"idle", "claim", "next", "record", "embed", "put", "mark",
       "release", "rewrite", "skip"}

VARIABLES
    lock,      \* the writer inside BEGIN IMMEDIATE .. COMMIT, or None
    pc,        \* where each drain is
    todo,      \* the rows its claim returned that it has not settled yet
    cur,       \* the event of the current loop iteration
    rid,       \* the summary the id returned by recordSummary names
    seen,      \* the attempts value releaseClaimed read
    orphaned,  \* history: events some drainer held when its process stopped
    pruned,    \* history: events whose superseded summary was pruned
    crashes    \* history: how many stops, for the bound

drainVars == <<lock, pc, todo, cur, rid, seen, orphaned, pruned, crashes>>
vars == <<storeVars, drainVars>>

\* Every variable has its type: no status is written that the code does not know, and no
\* counter of failures passes the limit of releaseClaimed.
TypeOK ==
    /\ StoreTypeOK
    /\ lock \in Drainer \cup {None}
    /\ pc \in [Drainer -> PC]
    /\ todo \in [Drainer -> SUBSET Event]
    /\ cur \in [Drainer -> Event \cup {None}]
    /\ rid \in [Drainer -> Event \cup {None}]
    /\ seen \in [Drainer -> 0..MaxAttempts]
    /\ orphaned \in SUBSET Event /\ pruned \in SUBSET Event
    /\ crashes \in 0..MaxCrashes

Init ==
    /\ StoreInit
    /\ lock = None
    /\ pc = [d \in Drainer |-> "idle"]
    /\ todo = [d \in Drainer |-> {}]
    /\ cur = [d \in Drainer |-> None]
    /\ rid = [d \in Drainer |-> None]
    /\ seen = [d \in Drainer |-> 0]
    /\ orphaned = {} /\ pruned = {}
    /\ crashes = 0

-----------------------------------------------------------------------------
Goto(d, step) == pc' = [pc EXCEPT ![d] = step]

\* A process writes when no other process is inside a transaction.
ProcWrites(p) == lock \in p \cup {None}
MayWrite(d) == \E p \in Procs : d \in p /\ ProcWrites(p)

\* Mutant: an error ends the drain instead of the loop body.
SettleStopsAtError(d) ==
    /\ todo' = [todo EXCEPT ![d] = IF pc[d] = "mark" THEN @ \ {cur[d]} ELSE {}]
    /\ Goto(d, IF pc[d] # "mark" \/ todo[d] \subseteq {cur[d]} THEN "idle" ELSE "next")
    /\ cur' = [cur EXCEPT ![d] = None]
    /\ rid' = [rid EXCEPT ![d] = None]
    /\ seen' = [seen EXCEPT ![d] = 0]
    /\ UNCHANGED <<lock, orphaned, pruned, crashes>>

\* The loop body is over for cur[d]: the next claimed event, or the drain returns.
Settle(d) ==
    /\ todo' = [todo EXCEPT ![d] = @ \ {cur[d]}]
    /\ Goto(d, IF todo[d] \subseteq {cur[d]} THEN "idle" ELSE "next")
    /\ cur' = [cur EXCEPT ![d] = None]
    /\ rid' = [rid EXCEPT ![d] = None]
    /\ seen' = [seen EXCEPT ![d] = 0]
    /\ UNCHANGED <<lock, orphaned, pruned, crashes>>

\* Mutant: the claim is not serialised by the write lock.
ClaimUnlocked(d) ==
    /\ pc[d] = "idle"
    /\ WithStatus("raw") # {}
    /\ \E n \in 1..Batch : todo' = [todo EXCEPT ![d] = Oldest(WithStatus("raw"), n)]
    /\ lock' = d
    /\ Goto(d, "claim")
    /\ UNCHANGED <<storeVars, cur, rid, seen, orphaned, pruned, crashes>>

\* claimPending, first half: BEGIN IMMEDIATE and the SELECT, under the write lock.
ClaimSelect(d) ==
    /\ pc[d] = "idle"
    /\ lock = None
    /\ WithStatus("raw") # {}
    /\ \E n \in 1..Batch : todo' = [todo EXCEPT ![d] = Oldest(WithStatus("raw"), n)]
    /\ lock' = d
    /\ Goto(d, "claim")
    /\ UNCHANGED <<storeVars, cur, rid, seen, orphaned, pruned, crashes>>

\* claimPending, second half: the UPDATE of the selected ids and the COMMIT.
ClaimCommit(d) ==
    /\ pc[d] = "claim"
    /\ SetStatus(todo[d], "claimed")
    /\ lock' = None
    /\ Goto(d, "next")
    /\ UNCHANGED <<todo, cur, rid, seen, orphaned, pruned, crashes>>

\* Mutant: a cached text counts as a recorded summary.
SummarizeCached(d) ==
    /\ pc[d] = "next"
    /\ \E e \in todo[d] :
        /\ \A f \in todo[d] : e <= f
        /\ cur' = [cur EXCEPT ![d] = e]
    /\ \E step \in {"record", "mark", "release", "skip"} : Goto(d, step)
    /\ UNCHANGED <<storeVars, lock, todo, rid, seen, orphaned, pruned, crashes>>

\* The model answers for the next claimed event: text, a retryable error, or another error.
Summarize(d) ==
    /\ pc[d] = "next"
    /\ \E e \in todo[d] :
        /\ \A f \in todo[d] : e <= f
        /\ cur' = [cur EXCEPT ![d] = e]
    /\ \E step \in {"record", "release", "skip"} : Goto(d, step)
    /\ UNCHANGED <<storeVars, lock, todo, rid, seen, orphaned, pruned, crashes>>

\* Mutant: the insert is not awaited, and a failure of it goes unnoticed.
RecordUnawaited(d) ==
    /\ pc[d] = "record"
    /\ MayWrite(d)
    /\ \/ InsertSummary(cur[d])
       \/ UNCHANGED storeVars
    /\ rid' = [rid EXCEPT ![d] = cur[d]]
    /\ Goto(d, "embed")
    /\ UNCHANGED <<lock, todo, cur, seen, orphaned, pruned, crashes>>

\* recordSummary.  A new row yields its own id.  On a conflict the statement inserts
\* nothing and lastInsertRowid keeps the value of an earlier insert of the connection,
\* into whatever table: the id handed back may name any summary, or none.
Record(d) ==
    /\ pc[d] = "record"
    /\ MayWrite(d)
    /\ \/ /\ cur[d] \in Rows \ summaries
          /\ InsertSummary(cur[d])
          /\ rid' = [rid EXCEPT ![d] = cur[d]]
          /\ Goto(d, "embed")
       \/ /\ cur[d] \in Rows \cap summaries
          /\ InsertSummary(cur[d])
          /\ \E s \in Event : rid' = [rid EXCEPT ![d] = s]
          /\ Goto(d, "embed")
       \/ /\ cur[d] \notin Rows          \* FOREIGN KEY constraint failed
          /\ Goto(d, "skip")
          /\ UNCHANGED <<storeVars, rid>>
    /\ UNCHANGED <<lock, todo, cur, seen, orphaned, pruned, crashes>>

\* embedder.embed of the text: a vector, a retryable error, or another error.
Embed(d) ==
    /\ pc[d] = "embed"
    /\ \E step \in {"put", "release", "skip"} : Goto(d, step)
    /\ UNCHANGED <<storeVars, lock, todo, cur, rid, seen, orphaned, pruned, crashes>>

\* putEmbedding under the id recordSummary returned; without that summary row it throws.
PutEmbedding(d) ==
    /\ pc[d] = "put"
    /\ MayWrite(d)
    /\ \/ /\ PutVector(rid[d], cur[d])
          /\ Goto(d, "mark")
       \/ /\ rid[d] \notin summaries     \* FOREIGN KEY constraint failed
          /\ Goto(d, "skip")
          /\ UNCHANGED storeVars
    /\ UNCHANGED <<lock, todo, cur, rid, seen, orphaned, pruned, crashes>>

MarkSummarized(d) ==
    /\ pc[d] = "mark"
    /\ MayWrite(d)
    /\ SetStatus({cur[d]}, "summarized")
    /\ Settle(d)

MarkSkipped(d) ==
    /\ pc[d] = "skip"
    /\ MayWrite(d)
    /\ SetStatus({cur[d]}, "skipped")
    /\ Settle(d)

\* releaseClaimed reads attempts in one statement and writes it back in another.
ReleaseRead(d) ==
    /\ pc[d] = "release"
    /\ seen' = [seen EXCEPT ![d] = attempts[cur[d]]]
    /\ Goto(d, "rewrite")
    /\ UNCHANGED <<storeVars, lock, todo, cur, rid, orphaned, pruned, crashes>>

ReleaseWrite(d) ==
    /\ pc[d] = "rewrite"
    /\ MayWrite(d)
    /\ WriteRelease(cur[d], seen[d])
    /\ Settle(d)

-----------------------------------------------------------------------------
\* The events a drain has claimed and not settled.
Held(d) == IF pc[d] \in {"idle", "claim"} THEN {} ELSE todo[d]

\* Mutant: a stopped process comes back and puts every claimed row back in the queue.
StopAndReset(p) ==
    /\ crashes < MaxCrashes
    /\ lock \notin p
    /\ crashes' = crashes + 1
    /\ orphaned' = orphaned \cup UNION {Held(d) : d \in p}
    /\ pc' = [d \in Drainer |-> IF d \in p THEN "idle" ELSE pc[d]]
    /\ todo' = [d \in Drainer |-> IF d \in p THEN {} ELSE todo[d]]
    /\ cur' = [d \in Drainer |-> IF d \in p THEN None ELSE cur[d]]
    /\ rid' = [d \in Drainer |-> IF d \in p THEN None ELSE rid[d]]
    /\ seen' = [d \in Drainer |-> IF d \in p THEN 0 ELSE seen[d]]
    /\ SetStatus(WithStatus("claimed"), "raw")
    /\ UNCHANGED <<lock, pruned>>

\* A process stops: its drains are gone and what they held stays as it is.  No boot step of
\* the daemon looks at claimed rows.
Stop(p) ==
    /\ crashes < MaxCrashes
    /\ lock \notin p
    /\ crashes' = crashes + 1
    /\ orphaned' = orphaned \cup UNION {Held(d) : d \in p}
    /\ pc' = [d \in Drainer |-> IF d \in p THEN "idle" ELSE pc[d]]
    /\ todo' = [d \in Drainer |-> IF d \in p THEN {} ELSE todo[d]]
    /\ cur' = [d \in Drainer |-> IF d \in p THEN None ELSE cur[d]]
    /\ rid' = [d \in Drainer |-> IF d \in p THEN None ELSE rid[d]]
    /\ seen' = [d \in Drainer |-> IF d \in p THEN 0 ELSE seen[d]]
    /\ UNCHANGED <<storeVars, lock, pruned>>

DrainStep(d) ==
    \/ ClaimCommit(d)
    \/ Summarize(d)
    \/ Record(d)
    \/ Embed(d)
    \/ PutEmbedding(d)
    \/ MarkSummarized(d)
    \/ MarkSkipped(d)
    \/ ReleaseRead(d)
    \/ ReleaseWrite(d)

Capture == RecordEvent
Retry == \E n \in Event : RetrySkipped(n)
Sweep == \E S \in SUBSET Expiring : SweepExpired(S)
PruneSkipped == \E S \in SUBSET WithStatus("skipped") : Prune(S)

\* The requests and timers of the daemon that touch event rows.
DaemonWrites ==
    /\ ProcWrites(Daemon)
    /\ Capture \/ Retry \/ Sweep \/ PruneSkipped
    /\ UNCHANGED drainVars

\* The request that drops superseded summaries, also under a drain that has yet to mark
\* the event.
PruneSummaries ==
    /\ ProcWrites(Daemon)
    /\ \E S \in SUBSET Repeated :
        /\ PruneSuperseded(S)
        /\ pruned' = pruned \cup S
    /\ UNCHANGED <<lock, pc, todo, cur, rid, seen, orphaned, crashes>>

Next ==
    \/ DaemonWrites
    \/ PruneSummaries
    \/ \E d \in Drainer : ClaimSelect(d) \/ DrainStep(d)
    \/ \E p \in Procs : Stop(p)

Spec == Init /\ [][Next]_vars

\* An answer of the model and of the embedder always arrives, if only as an error: the
\* local clients abort their fetch after a timeout, the hosted ones end with the limits of
\* Node's fetch.  The periodic loop re-arms itself after each tick, so the daemon always
\* comes back to claim (a stopped daemon when the next hook or command starts it again;
\* MaxCrashes bounds how often that is).
FairSpec ==
    /\ Spec
    /\ \A d \in Drainer : WF_vars(DrainStep(d))
    /\ \A d \in Daemon : WF_vars(ClaimSelect(d))

-----------------------------------------------------------------------------
\* The comment of claimPending, "concurrent claimers will not see overlapping rows": no
\* two drains ever hold the same event, in one process or in two.
ClaimExclusive ==
    \A c, d \in Drainer : c # d => Held(c) \cap Held(d) = {}

\* An event marked summarized has its summary row, or had one that was pruned as
\* superseded, in spite of sweeps, retries and drains that lose the row they work on.
SummarizedIsBacked == WithStatus("summarized") \subseteq summaries \cup pruned

\* A claimed row is always either in some drain's hands or was dropped by a process that
\* stopped: no path through the loop forgets a claimed event.
ClaimedHasOwner == WithStatus("claimed") \subseteq orphaned \cup UNION {Held(d) : d \in Drainer}

\* releaseClaimed's give-up rule holds across drains and retries: no event with its
\* attempts used up is queued or being worked on, so nothing loops forever.
AttemptsLeft ==
    \A e \in WithStatus("raw") \cup WithStatus("claimed") : attempts[e] < MaxAttempts

\* No step turns a summarized event back: it stays so until the row is deleted.
SummarizedStays ==
    [][\A e \in WithStatus("summarized") : status'[e] \in {"summarized", "absent"}]_vars

\* The strengthening that makes the invariants above inductive.  One drain at most is
\* inside the claim transaction; what a drain has picked or holds was captured and no
\* other drain has it; the rows it works on keep their status until it settles them;
\* past recordSummary the summary is there as long as the row is.
LockHeld == \A d \in Drainer : pc[d] = "claim" <=> lock = d
IdleEmpty == \A d \in Drainer : pc[d] = "idle" => todo[d] = {}
CurInTodo == \A d \in Drainer : pc[d] \notin {"idle", "claim", "next"} => cur[d] \in todo[d]
TodoCaptured == \A d \in Drainer : \A e \in todo[d] : e < nextId
TodoDisjoint == \A c, d \in Drainer : c # d => todo[c] \cap todo[d] = {}
TodoStatus ==
    \A d \in Drainer : \A e \in todo[d] :
        status[e] \in {IF pc[d] = "claim" THEN "raw" ELSE "claimed", "absent"}
Recorded ==
    \A d \in Drainer :
        pc[d] \in {"embed", "put", "mark"} =>
            status[cur[d]] = "absent" \/ cur[d] \in summaries \cup pruned
Uncaptured == \A e \in Event : e >= nextId => status[e] = "absent"
AbsentFresh == \A e \in Event : status[e] = "absent" => attempts[e] = 0
SeenLow == \A d \in Drainer : pc[d] = "rewrite" => seen[d] < MaxAttempts

\* The inductive invariant of the drains: the strengthening above with the three safety
\* invariants it supports.
IInv ==
    /\ TypeOK
    /\ LockHeld /\ IdleEmpty /\ CurInTodo
    /\ TodoCaptured /\ TodoDisjoint /\ TodoStatus
    /\ Recorded /\ Uncaptured /\ AbsentFresh /\ SeenLow
    /\ SummarizedIsBacked /\ ClaimedHasOwner /\ AttemptsLeft

\* The event rows as a work queue: claimed is taken, by the drain that has the row in hand.
StageOf ==
    [absent |-> "gone", raw |-> "pending", claimed |-> "taken",
     summarized |-> "done", skipped |-> "retired"]
Stage(e) == IF e < nextId THEN StageOf[status[e]] ELSE "new"

Owners(e) == {d \in Drainer : status[e] = "claimed" /\ e \in Held(d)}
HolderOf(e) == IF Owners(e) = {} THEN None ELSE CHOOSE d \in Owners(e) : TRUE

QStage == [e \in Event |-> Stage(e)]
QHolder == [e \in Event |-> HolderOf(e)]

Queue == INSTANCE WorkQueue WITH
    Item <- Event, Worker <- Drainer, Nobody <- None, stage <- QStage, holder <- QHolder

\* The drains, the housekeeping and the stops together implement the work queue.
ImplementsWorkQueue == Queue!QueueSpec

\* Once nobody re-queues skipped events any more, every raw event is settled, deleted, or
\* in the hands of a process that stopped: the retry loop of one event starves no other.
RetriesEnd == <>[][~ (ProcWrites(Daemon) /\ Retry)]_vars
Drained ==
    \A e \in Event :
        status[e] = "raw" ~> status[e] \in {"summarized", "skipped", "absent"} \/ e \in orphaned
EventuallyDrained == RetriesEnd => Drained

-----------------------------------------------------------------------------
\* What the documentation says and the code does not do (see the README's findings).

\* storage.ts, recordSummary: a second summary of an event "returns the existing id", so
\* the embedding of a text always lands on the summary of the same event.
VectorsMatch == \A s \in Event : vector[s] \in {None, s}
=============================================================================
