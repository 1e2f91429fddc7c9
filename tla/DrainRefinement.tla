-------------------------- MODULE DrainRefinement ---------------------------
EXTENDS DrainProofs

\* Who holds an event in the work queue's sense: the one drain that owns it.
LEMMA HolderIsOwner ==
  ASSUME ClaimExclusive, NEW e \in Event
  PROVE  /\ \A d \in Drainer : HolderOf(e) = d <=> d \in Owners(e)
         /\ HolderOf(e) = None <=> Owners(e) = {}
<1>1. \A c, d \in Owners(e) : c = d
  BY DEF ClaimExclusive, Owners
<1>2. Owners(e) \subseteq Drainer /\ None \notin Drainer
  BY DrainAssumption DEF Owners
<1>3. CASE Owners(e) = {}
  BY <1>2, <1>3 DEF HolderOf
<1>4. CASE Owners(e) # {}
  <2>1. HolderOf(e) \in Owners(e)
    BY <1>4 DEF HolderOf
  <2> QED
    BY <1>1, <1>2, <1>4, <2>1
<1> QED
  BY <1>3, <1>4

LEMMA ExclusiveOfIInv ==
  ASSUME IInv
  PROVE  ClaimExclusive
BY DEF IInv, TodoDisjoint, ClaimExclusive, Held

\* The holder follows from the owners, before and after a step.
LEMMA SameOwners ==
  ASSUME NEW e \in Event, Owners(e)' = Owners(e)
  PROVE  HolderOf(e)' = HolderOf(e)
BY DEF HolderOf

\* A step that changes neither the rows nor what the drains hold is a stutter of the queue.
LEMMA QueueStutter ==
  ASSUME UNCHANGED <<nextId, status>>, \A d \in Drainer : Held(d)' = Held(d)
  PROVE  UNCHANGED <<QStage, QHolder>>
<1>1. \A e \in Event : Stage(e)' = Stage(e)
  BY DEF Stage
<1>2. \A e \in Event : Owners(e)' = Owners(e)
  BY DEF Owners
<1>3. \A e \in Event : HolderOf(e)' = HolderOf(e)
  BY <1>2, SameOwners
<1> QED
  BY <1>1, <1>3 DEF QStage, QHolder

LEMMA QueueInitially == Init => Queue!QueueInit
<1> SUFFICES ASSUME Init PROVE Queue!QueueInit
  OBVIOUS
<1>1. \A e \in Event : Stage(e) = "new"
  BY DEF Init, StoreInit, Stage, Event
<1>2. \A e \in Event : HolderOf(e) = None
  BY DEF Init, StoreInit, HolderOf, Owners
<1> QED
  BY <1>1, <1>2 DEF Queue!QueueInit, QStage, QHolder

\* The steps of a drain between its claim and its settling.
LEMMA QuietSteps ==
  ASSUME IInv, NEW d \in Drainer,
         \/ ClaimSelect(d) \/ Summarize(d) \/ Record(d)
         \/ Embed(d) \/ PutEmbedding(d) \/ ReleaseRead(d)
  PROVE  UNCHANGED <<QStage, QHolder>>
<1> USE DEF IInv, TypeOK, Goto, storeVars
<1>1. UNCHANGED <<nextId, status>>
  BY DEF ClaimSelect, Summarize, Record, Embed, PutEmbedding, ReleaseRead,
         InsertSummary, PutVector
<1>2. \A c \in Drainer : Held(c)' = Held(c)
  BY DEF ClaimSelect, Summarize, Record, Embed, PutEmbedding, ReleaseRead, Held
<1> QED
  BY <1>1, <1>2, QueueStutter

\* A claim takes the rows that are still there when its transaction commits.
LEMMA ClaimTakes ==
  ASSUME IInv, IInv', NEW d \in Drainer, ClaimCommit(d)
  PROVE  \/ \E S \in SUBSET Event : Queue!Take(d, S)
         \/ UNCHANGED <<QStage, QHolder>>
<1> DEFINE S == todo[d] \cap Rows
<1> USE DEF IInv, TypeOK, StoreTypeOK, ClaimCommit, SetStatus, Goto
<1>1. S \in SUBSET Event /\ \A e \in S : status[e] = "raw" /\ e < nextId
  BY DEF TodoStatus, TodoCaptured, Rows
<1>2. \A e \in Event : status'[e] = IF e \in S THEN "claimed" ELSE status[e]
  BY DEF StatusSet
<1>3. Held(d)' = todo[d] /\ \A c \in Drainer : c # d => Held(c)' = Held(c)
  BY DEF Held
<1>4. Held(d) = {} /\ \A c \in Drainer : c # d => Held(c) \cap todo[d] = {}
  BY DEF Held, TodoDisjoint
<1>5. \A e \in Event : Stage(e)' = IF e \in S THEN "taken" ELSE Stage(e)
  BY <1>1, <1>2 DEF Stage, StageOf, Event
<1>6. \A e \in S : Stage(e) = "pending"
  BY <1>1 DEF Stage, StageOf, Event
<1>7. \A e \in Event : Owners(e)' = IF e \in S THEN {d} ELSE Owners(e)
  BY <1>1, <1>2, <1>3, <1>4 DEF Owners, Rows
<1>8. \A e \in Event : HolderOf(e)' = IF e \in S THEN d ELSE HolderOf(e)
  <2>1. ASSUME NEW e \in S
        PROVE  HolderOf(e)' = d
    <3>1. Owners(e)' = {d}
      BY <1>1, <1>7
    <3>2. (CHOOSE c \in {d} : TRUE) = d
      OBVIOUS
    <3> QED
      BY <3>1, <3>2 DEF HolderOf
  <2>2. ASSUME NEW e \in Event, e \notin S
        PROVE  HolderOf(e)' = HolderOf(e)
    BY <1>7, <2>2, SameOwners
  <2> QED
    BY <2>1, <2>2
<1>9. CASE S = {}
  BY <1>5, <1>8, <1>9 DEF QStage, QHolder
<1>10. CASE S # {}
  <2>1. Queue!Move(S, {"pending"}, "taken")
    BY <1>1, <1>5, <1>6, <1>10 DEF Queue!Move, QStage
  <2>2. Queue!Hold(S, d)
    BY <1>8 DEF Queue!Hold, QHolder
  <2> QED
    BY <1>1, <2>1, <2>2 DEF Queue!Take
<1> QED
  BY <1>9, <1>10

\* Settling an event decides it; when its row is gone the queue does not notice.
LEMMA SettleDecides ==
  ASSUME IInv, IInv', NEW d \in Drainer, NEW s \in {"raw", "summarized", "skipped"},
         pc[d] \in {"mark", "skip", "rewrite"},
         status' = StatusSet({cur[d]}, s), UNCHANGED nextId, Settle(d)
  PROVE  \/ \E i \in Event, to \in {"pending", "done", "retired"} : Queue!Decide(d, i, to)
         \/ UNCHANGED <<QStage, QHolder>>
<1> USE DEF IInv, TypeOK, StoreTypeOK, Settle, Goto
<1>0. PICK i \in Event : i = cur[d]
  BY DEF CurInTodo
<1>1. i \in todo[d] /\ i \in Event /\ status[i] \in {"claimed", "absent"} /\ i < nextId
  BY <1>0 DEF CurInTodo, TodoStatus, TodoCaptured
<1>2. \A e \in Event : status'[e] = IF e = i /\ status[i] = "claimed" THEN s ELSE status[e]
  BY <1>0, <1>1 DEF StatusSet, Rows
<1>3. \A e \in Event : e # i =>
        \A c \in Drainer : e \in Held(c)' <=> e \in Held(c)
  BY <1>0 DEF Held
<1>4. \A e \in Event : e # i => Stage(e)' = Stage(e) /\ Owners(e)' = Owners(e)
  BY <1>2, <1>3 DEF Stage, Owners
<1>5. \A e \in Event : e # i => HolderOf(e)' = HolderOf(e)
  BY <1>4, SameOwners
<1>6. CASE status[i] = "absent"
  <2>1. Stage(i)' = Stage(i)
    BY <1>1, <1>2, <1>6 DEF Stage
  <2>2. Owners(i)' = {} /\ Owners(i) = {}
    BY <1>1, <1>2, <1>6 DEF Owners
  <2>3. HolderOf(i)' = HolderOf(i)
    BY <1>1, <2>2, SameOwners
  <2> QED
    BY <1>4, <1>5, <2>1, <2>3 DEF QStage, QHolder
<1>7. CASE status[i] = "claimed"
  <2>1. d \in Owners(i)
    BY <1>1, <1>7 DEF Owners, Held
  <2>2. HolderOf(i) = d
    BY <1>1, <2>1, HolderIsOwner, ExclusiveOfIInv
  <2>3. Owners(i)' = {}
    BY <1>1, <1>2, <1>7 DEF Owners
  <2>4. HolderOf(i)' = None
    BY <2>3 DEF HolderOf
  <2>5. Stage(i) = "taken" /\ Stage(i)' = StageOf[s]
    <3>1. status'[i] = s /\ i < nextId'
      BY <1>1, <1>2, <1>7
    <3> QED
      BY <1>1, <1>7, <3>1 DEF Stage, StageOf
  <2>6. Queue!Decide(d, i, StageOf[s])
    <3>1. QStage' = [e \in Event |-> IF e \in {i} THEN StageOf[s] ELSE QStage[e]]
      BY <1>4, <2>5 DEF QStage
    <3>2. QStage[i] = "taken"
      BY <1>1, <2>5 DEF QStage
    <3>3. Queue!Move({i}, {"taken"}, StageOf[s])
      BY <3>1, <3>2 DEF Queue!Move
    <3>4. Queue!Hold({i}, None)
      BY <1>1, <1>5, <2>4 DEF Queue!Hold, QHolder
    <3> QED
      BY <1>1, <2>2, <3>3, <3>4 DEF Queue!Decide, QHolder
  <2>7. StageOf[s] \in {"pending", "done", "retired"}
    BY DEF StageOf
  <2> QED
    BY <1>1, <2>6, <2>7
<1> QED
  BY <1>1, <1>6, <1>7

LEMMA DrainStepQueue ==
  ASSUME IInv, IInv', NEW d \in Drainer, ClaimSelect(d) \/ DrainStep(d)
  PROVE  Queue!QueueNext \/ UNCHANGED <<QStage, QHolder>>
<1>1. CASE \/ ClaimSelect(d) \/ Summarize(d) \/ Record(d)
           \/ Embed(d) \/ PutEmbedding(d) \/ ReleaseRead(d)
  BY <1>1, QuietSteps
<1>2. CASE ClaimCommit(d)
  BY <1>2, ClaimTakes DEF Queue!QueueNext
<1>3. CASE MarkSummarized(d)
  BY <1>3, SettleDecides DEF MarkSummarized, SetStatus, Queue!QueueNext
<1>4. CASE MarkSkipped(d)
  BY <1>4, SettleDecides DEF MarkSkipped, SetStatus, Queue!QueueNext
<1>5. CASE ReleaseWrite(d)
  <2>1. PICK s \in {"raw", "skipped"} : status' = StatusSet({cur[d]}, s)
    BY <1>5 DEF ReleaseWrite, WriteRelease
  <2> QED
    BY <1>5, <2>1, SettleDecides DEF ReleaseWrite, WriteRelease, Queue!QueueNext
<1> QED
  BY <1>1, <1>2, <1>3, <1>4, <1>5 DEF DrainStep

LEMMA CaptureSubmits ==
  ASSUME IInv, Capture, UNCHANGED drainVars
  PROVE  \E i \in Event : Queue!Submit(i)
<1> USE DEF IInv, TypeOK, StoreTypeOK, Capture, RecordEvent, drainVars
<1>0. PICK i \in Event : i = nextId
  OBVIOUS
<1>1. Stage(i) = "new" /\ Stage(i)' = "pending"
  BY <1>0 DEF Stage, StageOf, Event
<1>2. \A e \in Event : e # i => Stage(e)' = Stage(e)
  <2>1. ASSUME NEW e \in Event, e # i
        PROVE  status'[e] = status[e] /\ (e < nextId' <=> e < nextId)
    BY <1>0, <2>1 DEF Event
  <2> QED
    BY <2>1 DEF Stage
<1>3. \A e \in Event : Owners(e)' = Owners(e)
  <2>1. \A d \in Drainer : Held(d)' = Held(d)
    BY DEF Held
  <2>2. status[i] = "absent" /\ status'[i] = "raw"
    BY <1>0 DEF Uncaptured, Event
  <2> QED
    BY <1>0, <2>1, <2>2 DEF Owners
<1>4. UNCHANGED QHolder
  BY <1>3, SameOwners DEF QHolder
<1>5. QStage[i] = "new" /\ QStage' = [e \in Event |-> IF e \in {i} THEN "pending" ELSE QStage[e]]
  BY <1>1, <1>2 DEF QStage
<1> QED
  BY <1>4, <1>5 DEF Queue!Submit, Queue!Move

LEMMA RetryRequeues ==
  ASSUME IInv, Retry, UNCHANGED drainVars
  PROVE  \E S \in SUBSET Event : Queue!Requeue(S)
<1> USE DEF IInv, TypeOK, StoreTypeOK, drainVars
<1>1. PICK S \in SUBSET WithStatus("skipped") :
        S # {} /\ status' = StatusSet(S, "raw") /\ UNCHANGED nextId
  BY DEF Retry, RetrySkipped, Oldest
<1>2. S \in SUBSET Event /\ \A e \in S : status[e] = "skipped"
  BY DEF WithStatus
<1>3. \A e \in Event : status'[e] = IF e \in S THEN "raw" ELSE status[e]
  BY <1>1, <1>2 DEF StatusSet, Rows
<1>4. \A e \in S : e < nextId
  BY <1>2 DEF Uncaptured, Event
<1>5. \A e \in Event : Stage(e)' = IF e \in S THEN "pending" ELSE Stage(e)
  BY <1>1, <1>3, <1>4 DEF Stage, StageOf
<1>6. \A e \in S : Stage(e) = "retired"
  BY <1>2, <1>4 DEF Stage, StageOf
<1>7. \A e \in Event : Owners(e)' = Owners(e)
  BY <1>2, <1>3 DEF Owners, Held
<1>8. UNCHANGED QHolder
  BY <1>7, SameOwners DEF QHolder
<1>9. /\ \A e \in S : QStage[e] = "retired"
      /\ QStage' = [e \in Event |-> IF e \in S THEN "pending" ELSE QStage[e]]
  BY <1>2, <1>5, <1>6 DEF QStage
<1>10. Queue!Requeue(S)
  BY <1>1, <1>8, <1>9 DEF Queue!Requeue, Queue!Move
<1> QED
  BY <1>2, <1>10

LEMMA DeleteRemoves ==
  ASSUME IInv, NEW S \in SUBSET Rows, S # {}, DeleteEvents(S), UNCHANGED drainVars
  PROVE  \E R \in SUBSET Event : Queue!Remove(R)
<1> USE DEF IInv, TypeOK, StoreTypeOK, DeleteEvents, drainVars
<1>1. S \in SUBSET Event /\ \A e \in S : status[e] \in Status \ {"absent"}
  BY DEF Rows
<1>2. \A e \in S : e < nextId
  BY <1>1 DEF Uncaptured, Event
<1>3. \A e \in Event : Stage(e)' = IF e \in S THEN "gone" ELSE Stage(e)
  BY <1>2 DEF Stage, StageOf
<1>4. \A e \in S : Stage(e) \in {"pending", "taken", "done", "retired"}
  BY <1>1, <1>2 DEF Stage, StageOf, Status
<1>5. \A e \in Event : Owners(e)' = IF e \in S THEN {} ELSE Owners(e)
  BY DEF Owners, Held
<1>6. \A e \in Event : HolderOf(e)' = IF e \in S THEN None ELSE HolderOf(e)
  <2>1. ASSUME NEW e \in S
        PROVE  HolderOf(e)' = None
    <3>1. Owners(e)' = {}
      BY <1>1, <1>5
    <3> QED
      BY <3>1 DEF HolderOf
  <2>2. ASSUME NEW e \in Event, e \notin S
        PROVE  HolderOf(e)' = HolderOf(e)
    BY <1>5, <2>2, SameOwners
  <2> QED
    BY <2>1, <2>2
<1>7. /\ \A e \in S : QStage[e] \in {"pending", "taken", "done", "retired"}
      /\ QStage' = [e \in Event |-> IF e \in S THEN "gone" ELSE QStage[e]]
      /\ QHolder' = [e \in Event |-> IF e \in S THEN None ELSE QHolder[e]]
  BY <1>1, <1>3, <1>4, <1>6 DEF QStage, QHolder
<1>8. Queue!Remove(S)
  BY <1>7 DEF Queue!Remove, Queue!Move, Queue!Hold, Queue!Stage
<1> QED
  BY <1>1, <1>8

LEMMA DaemonWritesQueue ==
  ASSUME IInv, DaemonWrites
  PROVE  Queue!QueueNext
<1>1. UNCHANGED drainVars
  BY DEF DaemonWrites
<1>2. CASE Capture
  BY <1>1, <1>2, CaptureSubmits DEF Queue!QueueNext
<1>3. CASE Retry
  BY <1>1, <1>3, RetryRequeues DEF Queue!QueueNext
<1>4. CASE Sweep \/ PruneSkipped
  <2>1. PICK S \in SUBSET Rows : S # {} /\ DeleteEvents(S)
    BY <1>4 DEF Sweep, SweepExpired, PruneSkipped, Prune, WithStatus, Rows
  <2> QED
    BY <1>1, <2>1, DeleteRemoves DEF Queue!QueueNext
<1> QED
  BY <1>2, <1>3, <1>4 DEF DaemonWrites

\* The queue does not know of summaries.
LEMMA PruneSummariesQueue ==
  ASSUME PruneSummaries
  PROVE  UNCHANGED <<QStage, QHolder>>
<1>1. UNCHANGED <<nextId, status>> /\ \A d \in Drainer : Held(d)' = Held(d)
  BY DEF PruneSummaries, PruneSuperseded, Held
<1> QED
  BY <1>1, QueueStutter

LEMMA StopIsDeath ==
  ASSUME IInv, NEW p \in Procs, Stop(p)
  PROVE  Queue!QueueNext
<1> USE DEF IInv, TypeOK, StoreTypeOK, Stop, storeVars
<1>1. p \subseteq Drainer /\ None \notin Drainer
  BY DrainAssumption
<1>2. \A e \in Event : Stage(e)' = Stage(e)
  BY DEF Stage
<1>3. \A e \in Event : Owners(e)' = Owners(e) \ p
  BY <1>1 DEF Owners, Held
<1>4. ASSUME NEW e \in Event
      PROVE  HolderOf(e)' = IF HolderOf(e) \in p THEN None ELSE HolderOf(e)
  <2>1. \A d \in Drainer : HolderOf(e) = d <=> d \in Owners(e)
    BY HolderIsOwner, ExclusiveOfIInv
  <2>2. Owners(e) \subseteq Drainer
    BY DEF Owners
  <2>3. CASE HolderOf(e) \in p
    <3>1. Owners(e)' = {}
      BY <1>1, <1>3, <2>1, <2>2, <2>3
    <3> QED
      BY <2>3, <3>1 DEF HolderOf
  <2>4. CASE HolderOf(e) \notin p
    <3>1. \A d \in Owners(e) : d \notin p
      BY <2>1, <2>2, <2>4
    <3>2. Owners(e)' = Owners(e)
      BY <1>3, <3>1
    <3> QED
      BY <2>4, <3>2, SameOwners
  <2> QED
    BY <2>3, <2>4
<1>5. /\ QStage' = QStage
      /\ QHolder' = [e \in Event |-> IF e \in {i \in Event : QHolder[i] \in p}
                                     THEN None ELSE QHolder[e]]
  BY <1>2, <1>4 DEF QStage, QHolder
<1>6. Queue!Die(p)
  BY <1>5 DEF Queue!Die, Queue!Hold
<1> QED
  BY <1>1, <1>6 DEF Queue!QueueNext

LEMMA QueueStep ==
  ASSUME IInv, IInv', [Next]_vars
  PROVE  [Queue!QueueNext]_<<QStage, QHolder>>
<1>1. CASE DaemonWrites \/ PruneSummaries
  BY <1>1, DaemonWritesQueue, PruneSummariesQueue
<1>2. CASE \E d \in Drainer : ClaimSelect(d) \/ DrainStep(d)
  BY <1>2, DrainStepQueue
<1>3. CASE \E p \in Procs : Stop(p)
  BY <1>3, StopIsDeath
<1>4. CASE UNCHANGED vars
  <2>1. \A d \in Drainer : Held(d)' = Held(d)
    BY <1>4 DEF vars, drainVars, Held
  <2> QED
    BY <1>4, <2>1, QueueStutter DEF vars, storeVars
<1> QED
  BY <1>1, <1>2, <1>3, <1>4 DEF Next

\* The drains, the daemon's housekeeping and the stops implement the work queue: an event
\* is taken by one drain at a time, and only that drain decides what becomes of it.
THEOREM QueueImplemented == Spec => ImplementsWorkQueue
<1>1. Init => Queue!QueueInit
  BY QueueInitially
<1>2. IInv /\ IInv' /\ [Next]_vars => [Queue!QueueNext]_<<QStage, QHolder>>
  BY QueueStep
<1> QED
  BY <1>1, <1>2, Invariance, PTL DEF Spec, ImplementsWorkQueue, Queue!QueueSpec
=============================================================================
