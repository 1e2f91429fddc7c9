----------------------------- MODULE DrainProofs ----------------------------
EXTENDS DrainWorkers, TLAPS

LEMMA InitIInv == Init => IInv
<1> SUFFICES ASSUME Init PROVE IInv
  OBVIOUS
<1> USE StoreAssumption, DrainAssumption DEF Init, StoreInit
<1>1. TypeOK
  BY DEF TypeOK, StoreTypeOK, PC, Status, Event, None
<1>2. LockHeld /\ IdleEmpty /\ CurInTodo
  BY DEF LockHeld, IdleEmpty, CurInTodo
<1>3. TodoCaptured /\ TodoDisjoint /\ TodoStatus
  BY DEF TodoCaptured, TodoDisjoint, TodoStatus
<1>4. Recorded /\ Uncaptured /\ AbsentFresh /\ SeenLow
  BY DEF Recorded, Uncaptured, AbsentFresh, SeenLow
<1>5. SummarizedIsBacked /\ ClaimedHasOwner /\ AttemptsLeft
  BY DEF SummarizedIsBacked, ClaimedHasOwner, AttemptsLeft, WithStatus
<1> QED
  BY <1>1, <1>2, <1>3, <1>4, <1>5 DEF IInv

LEMMA ClaimSelectStep ==
  ASSUME IInv, NEW d \in Drainer, ClaimSelect(d)
  PROVE  IInv'
<1> USE StoreAssumption, DrainAssumption DEF IInv, ClaimSelect, Goto, storeVars
<1>1. PICK S \in SUBSET WithStatus("raw") : todo' = [todo EXCEPT ![d] = S]
  BY DEF Oldest
<1>2. TypeOK'
  BY <1>1 DEF TypeOK, StoreTypeOK, PC, WithStatus
<1>3. LockHeld' /\ IdleEmpty' /\ CurInTodo'
  BY <1>1 DEF LockHeld, IdleEmpty, CurInTodo, TypeOK
<1>4. TodoCaptured'
  BY <1>1 DEF TodoCaptured, TypeOK, StoreTypeOK, Uncaptured, WithStatus, Event
<1>5. TodoStatus'
  BY <1>1 DEF TodoStatus, TypeOK, WithStatus
<1>6. TodoDisjoint'
  <2>1. \A c \in Drainer : todo[c] \cap S = {}
    BY <1>1 DEF TodoStatus, WithStatus, LockHeld
  <2> QED
    BY <1>1, <2>1 DEF TodoDisjoint, TypeOK
<1>7. Recorded' /\ Uncaptured' /\ AbsentFresh' /\ SeenLow'
  BY DEF Recorded, Uncaptured, AbsentFresh, SeenLow, TypeOK
<1>8. SummarizedIsBacked' /\ AttemptsLeft'
  BY DEF SummarizedIsBacked, AttemptsLeft, WithStatus
<1>9. ClaimedHasOwner'
  <2>1. \A c \in Drainer : Held(c)' = Held(c)
    BY <1>1 DEF Held, TypeOK
  <2> QED
    BY <2>1 DEF ClaimedHasOwner, WithStatus
<1> QED
  BY <1>2, <1>3, <1>4, <1>5, <1>6, <1>7, <1>8, <1>9

LEMMA ClaimCommitStep ==
  ASSUME IInv, NEW d \in Drainer, ClaimCommit(d)
  PROVE  IInv'
<1> USE StoreAssumption, DrainAssumption DEF IInv, ClaimCommit, Goto, SetStatus, StatusSet, Rows
<1>1. TypeOK'
  BY DEF TypeOK, StoreTypeOK, PC, Status
<1>2. LockHeld' /\ IdleEmpty' /\ CurInTodo'
  BY DEF LockHeld, IdleEmpty, CurInTodo, TypeOK
<1>3. TodoCaptured' /\ TodoDisjoint'
  BY DEF TodoCaptured, TodoDisjoint
<1>4. TodoStatus'
  BY DEF TodoStatus, TodoDisjoint, TypeOK, StoreTypeOK
<1>5. Recorded'
  BY DEF Recorded, TypeOK, StoreTypeOK, CurInTodo, TodoStatus
<1>6. Uncaptured' /\ AbsentFresh' /\ SeenLow'
  BY DEF Uncaptured, AbsentFresh, SeenLow, TypeOK, StoreTypeOK
<1>7. SummarizedIsBacked'
  BY DEF SummarizedIsBacked, WithStatus, TypeOK, StoreTypeOK
<1>8. AttemptsLeft'
  <2>1. \A e \in todo[d] : status[e] \in {"raw", "absent"}
    BY DEF TodoStatus
  <2> QED
    BY <2>1 DEF AttemptsLeft, WithStatus, TypeOK, StoreTypeOK
<1>9. ClaimedHasOwner'
  <2>1. Held(d)' = todo[d]
    BY DEF Held, TypeOK
  <2>2. \A c \in Drainer : Held(c) \subseteq Held(c)'
    BY DEF Held, TypeOK
  <2> QED
    BY <2>1, <2>2 DEF ClaimedHasOwner, WithStatus, TypeOK, StoreTypeOK
<1> QED
  BY <1>1, <1>2, <1>3, <1>4, <1>5, <1>6, <1>7, <1>8, <1>9

LEMMA SummarizeStep ==
  ASSUME IInv, NEW d \in Drainer, Summarize(d)
  PROVE  IInv'
<1> USE StoreAssumption, DrainAssumption DEF IInv, Summarize, Goto, storeVars
<1>1. PICK e \in todo[d], step \in {"record", "release", "skip"} :
        cur' = [cur EXCEPT ![d] = e] /\ pc' = [pc EXCEPT ![d] = step]
  OBVIOUS
<1>2. TypeOK'
  BY <1>1 DEF TypeOK, StoreTypeOK, PC
<1>3. LockHeld' /\ IdleEmpty' /\ CurInTodo'
  BY <1>1 DEF LockHeld, IdleEmpty, CurInTodo, TypeOK
<1>4. TodoCaptured' /\ TodoDisjoint' /\ TodoStatus'
  BY <1>1 DEF TodoCaptured, TodoDisjoint, TodoStatus, TypeOK
<1>5. Recorded' /\ Uncaptured' /\ AbsentFresh' /\ SeenLow'
  BY <1>1 DEF Recorded, Uncaptured, AbsentFresh, SeenLow, TypeOK
<1>6. SummarizedIsBacked' /\ AttemptsLeft'
  BY DEF SummarizedIsBacked, AttemptsLeft, WithStatus
<1>7. ClaimedHasOwner'
  <2>1. \A c \in Drainer : Held(c)' = Held(c)
    BY <1>1 DEF Held, TypeOK
  <2> QED
    BY <2>1 DEF ClaimedHasOwner, WithStatus
<1> QED
  BY <1>2, <1>3, <1>4, <1>5, <1>6, <1>7

LEMMA RecordStep ==
  ASSUME IInv, NEW d \in Drainer, Record(d)
  PROVE  IInv'
<1> USE StoreAssumption, DrainAssumption DEF IInv, Record, Goto, storeVars, InsertSummary
<1>1. cur[d] \in todo[d] /\ cur[d] \in Event
  BY DEF CurInTodo, TypeOK
<1>2. PICK step \in {"embed", "skip"} :
        /\ pc' = [pc EXCEPT ![d] = step]
        /\ step = "embed" => cur[d] \in summaries'
  OBVIOUS
<1>3. summaries \subseteq summaries' /\ UNCHANGED <<nextId, status, attempts>>
  OBVIOUS
<1>4. TypeOK'
  BY <1>1 DEF TypeOK, StoreTypeOK, PC
<1>5. LockHeld' /\ IdleEmpty' /\ CurInTodo'
  BY <1>2 DEF LockHeld, IdleEmpty, CurInTodo, TypeOK
<1>6. TodoCaptured' /\ TodoDisjoint' /\ TodoStatus'
  BY <1>2, <1>3 DEF TodoCaptured, TodoDisjoint, TodoStatus, TypeOK
<1>7. Recorded'
  BY <1>2, <1>3 DEF Recorded, TypeOK
<1>8. Uncaptured' /\ AbsentFresh' /\ SeenLow'
  BY <1>2, <1>3 DEF Uncaptured, AbsentFresh, SeenLow, TypeOK
<1>9. SummarizedIsBacked' /\ AttemptsLeft'
  BY <1>3 DEF SummarizedIsBacked, AttemptsLeft, WithStatus
<1>10. ClaimedHasOwner'
  <2>1. \A c \in Drainer : Held(c)' = Held(c)
    BY <1>2 DEF Held, TypeOK
  <2> QED
    BY <1>3, <2>1 DEF ClaimedHasOwner, WithStatus
<1> QED
  BY <1>4, <1>5, <1>6, <1>7, <1>8, <1>9, <1>10

LEMMA EmbedStep ==
  ASSUME IInv, NEW d \in Drainer, Embed(d)
  PROVE  IInv'
<1> USE StoreAssumption, DrainAssumption DEF IInv, Embed, Goto, storeVars
<1>1. PICK step \in {"put", "release", "skip"} : pc' = [pc EXCEPT ![d] = step]
  OBVIOUS
<1>2. TypeOK'
  BY <1>1 DEF TypeOK, StoreTypeOK, PC
<1>3. LockHeld' /\ IdleEmpty' /\ CurInTodo'
  BY <1>1 DEF LockHeld, IdleEmpty, CurInTodo, TypeOK
<1>4. TodoCaptured' /\ TodoDisjoint' /\ TodoStatus'
  BY <1>1 DEF TodoCaptured, TodoDisjoint, TodoStatus, TypeOK
<1>5. Recorded' /\ Uncaptured' /\ AbsentFresh' /\ SeenLow'
  BY <1>1 DEF Recorded, Uncaptured, AbsentFresh, SeenLow, TypeOK
<1>6. SummarizedIsBacked' /\ AttemptsLeft'
  BY DEF SummarizedIsBacked, AttemptsLeft, WithStatus
<1>7. ClaimedHasOwner'
  <2>1. \A c \in Drainer : Held(c)' = Held(c)
    BY <1>1 DEF Held, TypeOK
  <2> QED
    BY <2>1 DEF ClaimedHasOwner, WithStatus
<1> QED
  BY <1>2, <1>3, <1>4, <1>5, <1>6, <1>7

LEMMA PutEmbeddingStep ==
  ASSUME IInv, NEW d \in Drainer, PutEmbedding(d)
  PROVE  IInv'
<1> USE StoreAssumption, DrainAssumption DEF IInv, PutEmbedding, Goto, storeVars, PutVector
<1>1. cur[d] \in Event
  BY DEF CurInTodo, TypeOK
<1>2. PICK step \in {"mark", "skip"} : pc' = [pc EXCEPT ![d] = step]
  OBVIOUS
<1>3. UNCHANGED <<nextId, status, attempts, summaries>>
  OBVIOUS
<1>4. TypeOK'
  BY <1>1, <1>2 DEF TypeOK, StoreTypeOK, PC
<1>5. LockHeld' /\ IdleEmpty' /\ CurInTodo'
  BY <1>2 DEF LockHeld, IdleEmpty, CurInTodo, TypeOK
<1>6. TodoCaptured' /\ TodoDisjoint' /\ TodoStatus'
  BY <1>2, <1>3 DEF TodoCaptured, TodoDisjoint, TodoStatus, TypeOK
<1>7. Recorded' /\ Uncaptured' /\ AbsentFresh' /\ SeenLow'
  BY <1>2, <1>3 DEF Recorded, Uncaptured, AbsentFresh, SeenLow, TypeOK
<1>8. SummarizedIsBacked' /\ AttemptsLeft'
  BY <1>3 DEF SummarizedIsBacked, AttemptsLeft, WithStatus
<1>9. ClaimedHasOwner'
  <2>1. \A c \in Drainer : Held(c)' = Held(c)
    BY <1>2 DEF Held, TypeOK
  <2> QED
    BY <1>3, <2>1 DEF ClaimedHasOwner, WithStatus
<1> QED
  BY <1>4, <1>5, <1>6, <1>7, <1>8, <1>9

LEMMA ReleaseReadStep ==
  ASSUME IInv, NEW d \in Drainer, ReleaseRead(d)
  PROVE  IInv'
<1> USE StoreAssumption, DrainAssumption DEF IInv, ReleaseRead, Goto, storeVars
<1>1. attempts[cur[d]] \in 0..MaxAttempts /\ attempts[cur[d]] < MaxAttempts
  <2>1. cur[d] \in Event /\ status[cur[d]] \in {"claimed", "absent"}
    BY DEF CurInTodo, TodoStatus, TypeOK
  <2> QED
    BY <2>1 DEF AbsentFresh, AttemptsLeft, WithStatus, TypeOK, StoreTypeOK
<1>2. TypeOK'
  BY <1>1 DEF TypeOK, StoreTypeOK, PC
<1>3. LockHeld' /\ IdleEmpty' /\ CurInTodo'
  BY DEF LockHeld, IdleEmpty, CurInTodo, TypeOK
<1>4. TodoCaptured' /\ TodoDisjoint' /\ TodoStatus'
  BY DEF TodoCaptured, TodoDisjoint, TodoStatus, TypeOK
<1>5. Recorded' /\ Uncaptured' /\ AbsentFresh'
  BY DEF Recorded, Uncaptured, AbsentFresh, TypeOK
<1>6. SeenLow'
  BY <1>1 DEF SeenLow, TypeOK
<1>7. SummarizedIsBacked' /\ AttemptsLeft'
  BY DEF SummarizedIsBacked, AttemptsLeft, WithStatus
<1>8. ClaimedHasOwner'
  <2>1. \A c \in Drainer : Held(c)' = Held(c)
    BY DEF Held, TypeOK
  <2> QED
    BY <2>1 DEF ClaimedHasOwner, WithStatus
<1> QED
  BY <1>2, <1>3, <1>4, <1>5, <1>6, <1>7, <1>8

LEMMA SettleLeaves ==
  ASSUME IInv, NEW d \in Drainer, NEW s \in {"raw", "summarized", "skipped"},
         pc[d] \in {"mark", "skip", "rewrite"},
         status' = StatusSet({cur[d]}, s), UNCHANGED <<nextId, summaries, vector>>,
         Settle(d)
  PROVE  /\ LockHeld' /\ IdleEmpty' /\ CurInTodo'
         /\ TodoCaptured' /\ TodoDisjoint' /\ TodoStatus'
         /\ Recorded' /\ Uncaptured' /\ SeenLow' /\ ClaimedHasOwner'
<1> USE StoreAssumption, DrainAssumption DEF IInv, Settle, Goto, StatusSet, Rows
<1>1. cur[d] \in todo[d] /\ cur[d] \in Event
  BY DEF CurInTodo, TypeOK
<1>2. \A c \in Drainer : c # d => cur[d] \notin todo[c]
  BY <1>1 DEF TodoDisjoint
<1>3. LockHeld' /\ IdleEmpty' /\ CurInTodo'
  BY DEF LockHeld, IdleEmpty, CurInTodo, TypeOK
<1>4. TodoCaptured' /\ TodoDisjoint'
  BY DEF TodoCaptured, TodoDisjoint, TypeOK
<1>5. TodoStatus'
  <2>1. ASSUME NEW c \in Drainer, NEW e \in todo'[c]
        PROVE  e \in todo[c] /\ e # cur[d] /\ (pc'[c] = "claim" <=> pc[c] = "claim")
    BY <2>1, <1>2 DEF TypeOK
  <2>2. ASSUME NEW c \in Drainer, NEW e \in todo'[c]
        PROVE  status'[e] = status[e]
    BY <2>1, <2>2 DEF TypeOK, StoreTypeOK
  <2> QED
    BY <2>1, <2>2 DEF TodoStatus
<1>6. Recorded'
  <2>1. ASSUME NEW c \in Drainer, pc'[c] \in {"embed", "put", "mark"}
        PROVE  /\ c # d /\ pc[c] = pc'[c] /\ cur'[c] = cur[c]
               /\ cur[c] \in Event /\ cur[c] # cur[d]
    BY <2>1, <1>2 DEF TypeOK, CurInTodo
  <2>2. ASSUME NEW c \in Drainer, pc'[c] \in {"embed", "put", "mark"}
        PROVE  status'[cur'[c]] = status[cur[c]]
    BY <2>1, <2>2 DEF TypeOK, StoreTypeOK
  <2> QED
    BY <2>1, <2>2 DEF Recorded
<1>7. Uncaptured'
  BY <1>1 DEF Uncaptured, TypeOK, StoreTypeOK
<1>8. SeenLow'
  BY DEF SeenLow, TypeOK
<1>9. ClaimedHasOwner'
  <2>1. SUFFICES ASSUME NEW e \in Event, status'[e] = "claimed", e \notin orphaned
                 PROVE  \E c \in Drainer : e \in Held(c)'
    BY DEF ClaimedHasOwner, WithStatus
  <2>2. status[e] = "claimed" /\ e # cur[d]
    BY <2>1, <1>1 DEF TypeOK, StoreTypeOK
  <2>3. PICK c \in Drainer : e \in Held(c)
    BY <2>1, <2>2 DEF ClaimedHasOwner, WithStatus
  <2>4. e \in Held(c)'
    BY <2>2, <2>3 DEF Held, TypeOK
  <2> QED
    BY <2>4
<1> QED
  BY <1>3, <1>4, <1>5, <1>6, <1>7, <1>8, <1>9

LEMMA MarkSummarizedStep ==
  ASSUME IInv, NEW d \in Drainer, MarkSummarized(d)
  PROVE  IInv'
<1> USE StoreAssumption, DrainAssumption DEF IInv, MarkSummarized, SetStatus
<1>1. cur[d] \in Event
  BY DEF CurInTodo, TypeOK
<1>2. TypeOK'
  BY DEF TypeOK, StoreTypeOK, PC, Status, Settle, Goto, StatusSet
<1>3. AbsentFresh'
  BY DEF AbsentFresh, StatusSet, Rows, TypeOK, StoreTypeOK
<1>4. SummarizedIsBacked'
  BY <1>1 DEF SummarizedIsBacked, Recorded, Settle, WithStatus, StatusSet, Rows,
               TypeOK, StoreTypeOK
<1>5. AttemptsLeft'
  BY DEF AttemptsLeft, WithStatus, StatusSet, TypeOK, StoreTypeOK
<1> QED
  BY <1>2, <1>3, <1>4, <1>5, SettleLeaves

LEMMA MarkSkippedStep ==
  ASSUME IInv, NEW d \in Drainer, MarkSkipped(d)
  PROVE  IInv'
<1> USE StoreAssumption, DrainAssumption DEF IInv, MarkSkipped, SetStatus
<1>1. TypeOK'
  BY DEF TypeOK, StoreTypeOK, PC, Status, Settle, Goto, StatusSet
<1>2. AbsentFresh'
  BY DEF AbsentFresh, StatusSet, Rows, TypeOK, StoreTypeOK
<1>3. SummarizedIsBacked'
  BY DEF SummarizedIsBacked, Settle, WithStatus, StatusSet, TypeOK, StoreTypeOK
<1>4. AttemptsLeft'
  BY DEF AttemptsLeft, WithStatus, StatusSet, TypeOK, StoreTypeOK
<1> QED
  BY <1>1, <1>2, <1>3, <1>4, SettleLeaves

LEMMA ReleaseWriteStep ==
  ASSUME IInv, NEW d \in Drainer, ReleaseWrite(d)
  PROVE  IInv'
<1> USE StoreAssumption, DrainAssumption DEF IInv, ReleaseWrite, WriteRelease
<1> DEFINE to == IF seen[d] + 1 >= MaxAttempts THEN "skipped" ELSE "raw"
<1>1. cur[d] \in Event /\ seen[d] \in Nat /\ seen[d] + 1 \in 0..MaxAttempts
  BY DEF CurInTodo, TypeOK, SeenLow
<1>2. TypeOK'
  BY <1>1 DEF TypeOK, StoreTypeOK, PC, Status, Settle, Goto, StatusSet
<1>3. AbsentFresh'
  BY <1>1 DEF AbsentFresh, StatusSet, Rows, TypeOK, StoreTypeOK
<1>4. SummarizedIsBacked'
  BY DEF SummarizedIsBacked, Settle, WithStatus, StatusSet, TypeOK, StoreTypeOK
<1>5. AttemptsLeft'
  BY <1>1 DEF AttemptsLeft, WithStatus, StatusSet, Rows, TypeOK, StoreTypeOK
<1>6. to \in {"raw", "summarized", "skipped"} /\ status' = StatusSet({cur[d]}, to)
  OBVIOUS
<1> HIDE DEF to
<1> QED
  BY <1>2, <1>3, <1>4, <1>5, <1>6, SettleLeaves

LEMMA CaptureStep ==
  ASSUME IInv, Capture, UNCHANGED drainVars
  PROVE  IInv'
<1> USE StoreAssumption, DrainAssumption DEF IInv, Capture, RecordEvent, drainVars
<1>1. status[nextId] = "absent"
  BY DEF Uncaptured, TypeOK, StoreTypeOK
<1>2. \A d \in Drainer : nextId \notin todo[d]
  BY DEF TodoCaptured, TypeOK, StoreTypeOK
<1>3. TypeOK'
  BY DEF TypeOK, StoreTypeOK, Status, Event
<1>4. LockHeld' /\ IdleEmpty' /\ CurInTodo' /\ TodoDisjoint' /\ SeenLow'
  BY DEF LockHeld, IdleEmpty, CurInTodo, TodoDisjoint, SeenLow
<1>5. TodoCaptured'
  BY DEF TodoCaptured, TypeOK, StoreTypeOK, Event
<1>6. TodoStatus'
  BY <1>2 DEF TodoStatus, TypeOK, StoreTypeOK
<1>7. Recorded'
  BY <1>2 DEF Recorded, CurInTodo, TypeOK, StoreTypeOK
<1>8. Uncaptured'
  BY DEF Uncaptured, TypeOK, StoreTypeOK, Event
<1>9. AbsentFresh'
  BY DEF AbsentFresh, TypeOK, StoreTypeOK
<1>10. SummarizedIsBacked'
  BY DEF SummarizedIsBacked, WithStatus, TypeOK, StoreTypeOK
<1>11. AttemptsLeft'
  BY <1>1 DEF AttemptsLeft, AbsentFresh, WithStatus, TypeOK, StoreTypeOK
<1>12. ClaimedHasOwner'
  BY DEF ClaimedHasOwner, Held, WithStatus, TypeOK, StoreTypeOK
<1> QED
  BY <1>3, <1>4, <1>5, <1>6, <1>7, <1>8, <1>9, <1>10, <1>11, <1>12

LEMMA RetryStep ==
  ASSUME IInv, Retry, UNCHANGED drainVars
  PROVE  IInv'
<1> USE StoreAssumption, DrainAssumption DEF IInv, drainVars
<1>1. PICK S \in SUBSET WithStatus("skipped") :
        /\ status' = StatusSet(S, "raw")
        /\ attempts' = [e \in Event |-> IF e \in S THEN 0 ELSE attempts[e]]
        /\ UNCHANGED <<nextId, summaries, vector>>
  BY DEF Retry, RetrySkipped, Oldest
<1>2. \A e \in Event : status'[e] = IF e \in S THEN "raw" ELSE status[e]
  BY <1>1 DEF StatusSet, Rows, WithStatus
<1>3. \A e \in S : e \in Event /\ status[e] = "skipped"
  BY DEF WithStatus
<1>4. TypeOK'
  BY <1>1 DEF TypeOK, StoreTypeOK, Status, StatusSet
<1>5. LockHeld' /\ IdleEmpty' /\ CurInTodo' /\ TodoDisjoint' /\ SeenLow' /\ TodoCaptured'
  BY <1>1 DEF LockHeld, IdleEmpty, CurInTodo, TodoDisjoint, SeenLow, TodoCaptured
<1>6. TodoStatus'
  BY <1>2, <1>3 DEF TodoStatus, TypeOK
<1>7. Recorded'
  BY <1>1, <1>2, <1>3 DEF Recorded, CurInTodo, TodoStatus, TypeOK
<1>8. Uncaptured' /\ AbsentFresh'
  BY <1>1, <1>2, <1>3 DEF Uncaptured, AbsentFresh
<1>9. SummarizedIsBacked'
  BY <1>1, <1>2 DEF SummarizedIsBacked, WithStatus
<1>10. AttemptsLeft'
  BY <1>1, <1>2 DEF AttemptsLeft, WithStatus
<1>11. ClaimedHasOwner'
  BY <1>2 DEF ClaimedHasOwner, Held, WithStatus
<1> QED
  BY <1>4, <1>5, <1>6, <1>7, <1>8, <1>9, <1>10, <1>11

LEMMA DeleteStep ==
  ASSUME IInv, NEW S \in SUBSET Event, DeleteEvents(S), UNCHANGED drainVars
  PROVE  IInv'
<1> USE StoreAssumption, DrainAssumption DEF IInv, DeleteEvents, drainVars
<1>1. TypeOK'
  BY DEF TypeOK, StoreTypeOK, Status
<1>2. LockHeld' /\ IdleEmpty' /\ CurInTodo' /\ TodoDisjoint' /\ SeenLow' /\ TodoCaptured'
  BY DEF LockHeld, IdleEmpty, CurInTodo, TodoDisjoint, SeenLow, TodoCaptured
<1>3. TodoStatus'
  BY DEF TodoStatus, TypeOK
<1>4. Recorded'
  BY DEF Recorded, CurInTodo, TypeOK
<1>5. Uncaptured' /\ AbsentFresh'
  BY DEF Uncaptured, AbsentFresh
<1>6. SummarizedIsBacked' /\ AttemptsLeft'
  BY DEF SummarizedIsBacked, AttemptsLeft, WithStatus
<1>7. ClaimedHasOwner'
  BY DEF ClaimedHasOwner, Held, WithStatus
<1> QED
  BY <1>1, <1>2, <1>3, <1>4, <1>5, <1>6, <1>7

LEMMA DaemonWritesStep ==
  ASSUME IInv, DaemonWrites
  PROVE  IInv'
<1>1. UNCHANGED drainVars
  BY DEF DaemonWrites
<1>2. CASE Capture
  BY <1>1, <1>2, CaptureStep
<1>3. CASE Retry
  BY <1>1, <1>3, RetryStep
<1>4. CASE Sweep
  <2>1. PICK S \in SUBSET Event : DeleteEvents(S)
    BY <1>4, DrainAssumption DEF Sweep, SweepExpired
  <2> QED
    BY <1>1, <2>1, DeleteStep
<1>5. CASE PruneSkipped
  <2>1. PICK S \in SUBSET Event : DeleteEvents(S)
    BY <1>5 DEF PruneSkipped, Prune, WithStatus
  <2> QED
    BY <1>1, <2>1, DeleteStep
<1> QED
  BY <1>2, <1>3, <1>4, <1>5 DEF DaemonWrites

LEMMA PruneSummariesStep ==
  ASSUME IInv, PruneSummaries
  PROVE  IInv'
<1> USE StoreAssumption, DrainAssumption DEF IInv, PruneSummaries, PruneSuperseded
<1>1. PICK S \in SUBSET Event :
        /\ summaries' = summaries \ S
        /\ pruned' = pruned \cup S
        /\ vector' = [e \in Event |-> IF e \in S THEN None ELSE vector[e]]
  OBVIOUS
<1>2. UNCHANGED <<nextId, status, attempts, lock, pc, todo, cur, rid, seen, orphaned, crashes>>
  OBVIOUS
<1>3. TypeOK'
  BY <1>1 DEF TypeOK, StoreTypeOK
<1>4. LockHeld' /\ IdleEmpty' /\ CurInTodo' /\ TodoDisjoint' /\ SeenLow' /\ TodoCaptured'
  BY DEF LockHeld, IdleEmpty, CurInTodo, TodoDisjoint, SeenLow, TodoCaptured
<1>5. TodoStatus' /\ Uncaptured' /\ AbsentFresh'
  BY <1>2 DEF TodoStatus, Uncaptured, AbsentFresh
<1>6. Recorded'
  BY <1>1, <1>2 DEF Recorded
<1>7. SummarizedIsBacked' /\ AttemptsLeft'
  BY <1>1, <1>2 DEF SummarizedIsBacked, AttemptsLeft, WithStatus
<1>8. ClaimedHasOwner'
  BY <1>2 DEF ClaimedHasOwner, Held, WithStatus
<1> QED
  BY <1>3, <1>4, <1>5, <1>6, <1>7, <1>8

LEMMA StopStep ==
  ASSUME IInv, NEW p \in Procs, Stop(p)
  PROVE  IInv'
<1> USE StoreAssumption, DrainAssumption DEF IInv, Stop, storeVars
<1>1. TypeOK'
  <2>1. \A d \in Drainer : Held(d) \subseteq Event
    BY DEF Held, TypeOK
  <2>2. UNION {Held(d) : d \in p} \subseteq Event
    BY <2>1
  <2> QED
    BY <2>2 DEF TypeOK, StoreTypeOK, PC
<1>2. LockHeld' /\ IdleEmpty' /\ CurInTodo' /\ TodoDisjoint' /\ SeenLow' /\ TodoCaptured'
  BY DEF LockHeld, IdleEmpty, CurInTodo, TodoDisjoint, SeenLow, TodoCaptured
<1>3. TodoStatus' /\ Recorded'
  BY DEF TodoStatus, Recorded
<1>4. Uncaptured' /\ AbsentFresh' /\ SummarizedIsBacked' /\ AttemptsLeft'
  BY DEF Uncaptured, AbsentFresh, SummarizedIsBacked, AttemptsLeft, WithStatus
<1>5. ClaimedHasOwner'
  <2>1. \A d \in Drainer : d \notin p => Held(d)' = Held(d)
    BY DEF Held
  <2> QED
    BY <2>1 DEF ClaimedHasOwner, WithStatus
<1> QED
  BY <1>1, <1>2, <1>3, <1>4, <1>5

LEMMA StutterStep ==
  ASSUME IInv, UNCHANGED vars
  PROVE  IInv'
<1> USE DEF IInv, vars, storeVars, drainVars
<1>1. TypeOK'
  BY DEF TypeOK, StoreTypeOK
<1>2. LockHeld' /\ IdleEmpty' /\ CurInTodo' /\ TodoDisjoint' /\ SeenLow' /\ TodoCaptured'
  BY DEF LockHeld, IdleEmpty, CurInTodo, TodoDisjoint, SeenLow, TodoCaptured
<1>3. TodoStatus' /\ Recorded' /\ Uncaptured' /\ AbsentFresh'
  BY DEF TodoStatus, Recorded, Uncaptured, AbsentFresh
<1>4. SummarizedIsBacked' /\ AttemptsLeft' /\ ClaimedHasOwner'
  BY DEF SummarizedIsBacked, AttemptsLeft, ClaimedHasOwner, Held, WithStatus
<1> QED
  BY <1>1, <1>2, <1>3, <1>4

LEMMA DrainStepStep ==
  ASSUME IInv, NEW d \in Drainer, DrainStep(d)
  PROVE  IInv'
BY ClaimCommitStep, SummarizeStep, RecordStep, EmbedStep, PutEmbeddingStep,
   MarkSummarizedStep, MarkSkippedStep, ReleaseReadStep, ReleaseWriteStep DEF DrainStep

LEMMA NextIInv ==
  ASSUME IInv, [Next]_vars
  PROVE  IInv'
<1>1. CASE DaemonWrites \/ PruneSummaries
  BY <1>1, DaemonWritesStep, PruneSummariesStep
<1>2. CASE \E d \in Drainer : ClaimSelect(d) \/ DrainStep(d)
  BY <1>2, ClaimSelectStep, DrainStepStep
<1>3. CASE \E p \in Procs : Stop(p)
  BY <1>3, StopStep
<1>4. CASE UNCHANGED vars
  BY <1>4, StutterStep
<1> QED
  BY <1>1, <1>2, <1>3, <1>4 DEF Next

\* The strengthened invariant holds in every behaviour of the drains, whatever their
\* number, the processes they run in, the batch sizes and how often processes stop.
THEOREM Invariance == Spec => []IInv
<1>1. Init => IInv
  BY InitIInv
<1>2. IInv /\ [Next]_vars => IInv'
  BY NextIInv
<1> QED
  BY <1>1, <1>2, PTL DEF Spec

\* No two drains ever hold the same event, in one process or in two (claimPending).
THEOREM ExclusiveClaims == Spec => []ClaimExclusive
<1>1. IInv => ClaimExclusive
  BY DEF IInv, TodoDisjoint, ClaimExclusive, Held
<1> QED
  BY <1>1, Invariance, PTL

\* A summarized event has its summary row, or that row was pruned as superseded (runDrain,
\* recordSummary, the cascades).
THEOREM BackedSummaries == Spec => []SummarizedIsBacked
<1>1. IInv => SummarizedIsBacked
  BY DEF IInv
<1> QED
  BY <1>1, Invariance, PTL

\* A claimed row is in a drain's hands unless its process stopped (the loop of runDrain).
THEOREM NoForgottenClaim == Spec => []ClaimedHasOwner
<1>1. IInv => ClaimedHasOwner
  BY DEF IInv
<1> QED
  BY <1>1, Invariance, PTL

\* Queued and claimed events have attempts left (releaseClaimed, retrySkipped).
THEOREM AttemptsBounded == Spec => []AttemptsLeft
<1>1. IInv => AttemptsLeft
  BY DEF IInv
<1> QED
  BY <1>1, Invariance, PTL

\* Every variable keeps its type.
THEOREM TypeCorrect == Spec => []TypeOK
<1>1. IInv => TypeOK
  BY DEF IInv
<1> QED
  BY <1>1, Invariance, PTL

LEMMA SummarizedKept ==
  ASSUME IInv, [Next]_vars, NEW e \in WithStatus("summarized")
  PROVE  status'[e] \in {"summarized", "absent"}
<1> USE DEF IInv, TypeOK, StoreTypeOK
<1>1. e \in Event /\ status[e] = "summarized"
  BY DEF WithStatus
<1>2. CASE DaemonWrites
  <2>1. CASE Capture
    BY <1>1, <2>1 DEF Capture, RecordEvent, Uncaptured
  <2>2. CASE Retry
    BY <1>1, <2>2 DEF Retry, RetrySkipped, StatusSet, Oldest, WithStatus
  <2>3. CASE Sweep
    BY <1>1, <2>3 DEF Sweep, SweepExpired, DeleteEvents
  <2>4. CASE PruneSkipped
    BY <1>1, <2>4 DEF PruneSkipped, Prune, DeleteEvents
  <2> QED
    BY <1>2, <2>1, <2>2, <2>3, <2>4 DEF DaemonWrites
<1>3. ASSUME NEW d \in Drainer, ClaimSelect(d) \/ DrainStep(d)
      PROVE  status'[e] \in {"summarized", "absent"}
  <2>1. CASE ClaimCommit(d)
    BY <1>1, <2>1 DEF ClaimCommit, SetStatus, StatusSet, TodoStatus
  <2>2. CASE MarkSummarized(d) \/ MarkSkipped(d) \/ ReleaseWrite(d)
    <3>1. e # cur[d]
      BY <1>1, <2>2 DEF MarkSummarized, MarkSkipped, ReleaseWrite, CurInTodo, TodoStatus
    <3> QED
      BY <1>1, <2>2, <3>1
      DEF MarkSummarized, MarkSkipped, ReleaseWrite, SetStatus, WriteRelease, StatusSet
  <2>3. CASE ClaimSelect(d) \/ Summarize(d) \/ Record(d) \/ Embed(d) \/ PutEmbedding(d)
             \/ ReleaseRead(d)
    BY <1>1, <2>3 DEF ClaimSelect, Summarize, Record, Embed, PutEmbedding, ReleaseRead,
       InsertSummary, PutVector, storeVars
  <2> QED
    BY <1>3, <2>1, <2>2, <2>3 DEF DrainStep
<1>4. CASE \E p \in Procs : Stop(p)
  BY <1>1, <1>4 DEF Stop, storeVars
<1>5. CASE PruneSummaries
  BY <1>1, <1>5 DEF PruneSummaries, PruneSuperseded
<1>6. CASE UNCHANGED vars
  BY <1>1, <1>6 DEF vars, storeVars
<1> QED
  BY <1>2, <1>3, <1>4, <1>5, <1>6 DEF Next

\* No step turns a summarized event back into anything but a deleted one: no late
\* release, second claim or retry reaches it.
THEOREM SummarizedForGood == Spec => SummarizedStays
<1>1. IInv /\ [Next]_vars =>
        [\A e \in WithStatus("summarized") : status'[e] \in {"summarized", "absent"}]_vars
  BY SummarizedKept
<1> QED
  BY <1>1, Invariance, PTL DEF Spec, SummarizedStays
=============================================================================
