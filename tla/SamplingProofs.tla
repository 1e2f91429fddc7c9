---------------------------- MODULE SamplingProofs ---------------------------
(***************************************************************************)
(* Proofs about SamplingDrain: the drains of MCP servers beside those of   *)
(* the daemon and of the command line.  Every step either leaves the       *)
(* events in hand where they are or takes some out of hand (HandsKept),    *)
(* save the two claims and the host that leaves a release behind; each of  *)
(* these has its own argument.                                             *)
(***************************************************************************)
EXTENDS SamplingDrain, TLAPS

LEMMA InitHostInv == HostInit => HostInv
<1> SUFFICES ASSUME HostInit PROVE HostInv
  OBVIOUS
<1> USE StoreAssumption, DrainAssumption, SamplingAssumption
    DEF HostInit, Init, StoreInit, NoCall, Request, Releases, Records, Loose, InHand
<1>1. HostTypeOK
  BY DEF HostTypeOK, Requests, TypeOK, StoreTypeOK, PC, At, CallStep, Status, Event, None
<1>2. DrainsInv
  BY DEF DrainsInv, LockHeld, IdleEmpty, CurInTodo, SeenLow
<1>3. HostsInv
  BY DEF HostsInv, BagAtWork, NowInBag, OneCall, CallOfHost, CallCaptured, CallSeenLow
<1>4. HandsInv
  BY DEF HandsInv, TodoDisjoint, BagsApart, LooseApart, HandsCaptured, HandsStatus,
         HandsAttempts
<1>5. Recorded /\ CallRecorded
  BY DEF Recorded, CallRecorded
<1>6. Uncaptured /\ AbsentFresh
  BY DEF Uncaptured, AbsentFresh
<1>7. SummarizedIsBacked /\ AttemptsLeft /\ ClaimsTraced
  BY DEF SummarizedIsBacked, AttemptsLeft, ClaimsTraced, WithStatus
<1> QED
  BY <1>1, <1>2, <1>3, <1>4, <1>5, <1>6, <1>7 DEF HostInv

\* A step that puts nothing new into anybody's hands, and leaves what is in hand claimed,
\* summarized or deleted, keeps every hand apart and fit to settle.
LEMMA HandsKept ==
  ASSUME HostTypeOK, HandsInv,
         nextId' \in Nat, nextId <= nextId',
         \A d \in Drainer : todo'[d] \subseteq todo[d],
         \A d \in Drainer : pc[d] = "claim" => todo'[d] = {} \/ pc'[d] = "claim",
         \A h \in Host : bag'[h] \subseteq bag[h],
         \A c \in Call : Loose(c)' => Loose(c) /\ calls'[c].ev = calls[c].ev,
         \A e \in Event : InHand(e)' =>
            /\ status'[e] \in {status[e], "summarized", "absent"}
            /\ attempts'[e] \in {attempts[e], 0}
  PROVE  HandsInv'
<1> USE DEF HandsInv
<1>1. TodoDisjoint'
  BY DEF TodoDisjoint
<1>2. BagsApart'
  BY DEF BagsApart
<1>3. LooseApart'
  <2>1. SUFFICES ASSUME NEW c \in Call, Loose(c)'
        PROVE  /\ \A d \in Drainer : calls'[c].ev \notin todo'[d]
               /\ \A h \in Host : calls'[c].ev \notin bag'[h]
               /\ \A b \in Call : Loose(b)' /\ calls'[b].ev = calls'[c].ev => b = c
    BY DEF LooseApart
  <2>2. Loose(c) /\ calls'[c].ev = calls[c].ev
    BY <2>1
  <2> QED
    BY <2>2 DEF LooseApart
<1>4. \A e \in Event : InHand(e)' => InHand(e)
  BY DEF InHand
<1>5. HandsCaptured'
  BY <1>4, StoreAssumption DEF HandsCaptured, HostTypeOK, TypeOK, StoreTypeOK, Event
<1>6. HandsStatus'
  <2>1. SUFFICES ASSUME NEW e \in Event, InHand(e)',
                        status'[e] \notin {"claimed", "summarized", "absent"}
        PROVE  status'[e] = "raw" /\ \E d \in Drainer : pc'[d] = "claim" /\ e \in todo'[d]
    BY DEF HandsStatus
  <2>2. status'[e] = status[e] /\ InHand(e)
    BY <2>1, <1>4
  <2>3. PICK d \in Drainer : status[e] = "raw" /\ pc[d] = "claim" /\ e \in todo[d]
    BY <2>1, <2>2 DEF HandsStatus
  <2>4. e \in todo'[d]
    <3>1. CASE \E b \in Drainer : e \in todo'[b]
      BY <3>1, <2>3 DEF TodoDisjoint
    <3>2. CASE \E h \in Host : e \in bag'[h]
      BY <3>2, <2>3 DEF BagsApart
    <3>3. CASE \E c \in Call : Loose(c)' /\ calls'[c].ev = e
      BY <3>3, <2>3 DEF LooseApart
    <3> QED
      BY <2>1, <3>1, <3>2, <3>3 DEF InHand
  <2> QED
    BY <2>2, <2>3, <2>4
<1>7. HandsAttempts'
  BY <1>4, StoreAssumption DEF HandsAttempts
<1> QED
  BY <1>1, <1>2, <1>3, <1>5, <1>6, <1>7

\* Past recordSummary an event has its summary, had it pruned, or is gone: kept by every
\* step that deletes no summary without its row or its entry in pruned.
LEMMA RecordedKept ==
  ASSUME HostTypeOK, CurInTodo, CallCaptured, HandsCaptured, Recorded, CallRecorded,
         \A e \in 1..(nextId - 1) : status[e] = "absent" => status'[e] = "absent",
         \A e \in summaries \cup pruned :
            e \in summaries' \cup pruned' \/ status'[e] = "absent",
         \A d \in Drainer : pc'[d] \in {"embed", "put", "mark"} =>
            pc[d] \in {"embed", "put", "mark"} /\ cur'[d] = cur[d],
         \A c \in Call : calls'[c].step \in {"embed", "put", "mark"} =>
            calls[c].step \in {"embed", "put", "mark"} /\ calls'[c].ev = calls[c].ev
  PROVE  Recorded' /\ CallRecorded'
<1>1. \A d \in Drainer : pc[d] \in {"embed", "put", "mark"} => cur[d] \in 1..(nextId - 1)
  <2>1. SUFFICES ASSUME NEW d \in Drainer, pc[d] \in {"embed", "put", "mark"}
        PROVE  cur[d] \in 1..(nextId - 1)
    OBVIOUS
  <2>2. cur[d] \in todo[d] /\ cur[d] \in Event
    BY <2>1 DEF CurInTodo, HostTypeOK, TypeOK
  <2>3. cur[d] < nextId
    BY <2>2 DEF HandsCaptured, InHand
  <2> QED
    BY <2>2, <2>3, StoreAssumption DEF HostTypeOK, TypeOK, StoreTypeOK, Event
<1>2. \A c \in Call : calls[c].step \in {"embed", "put", "mark"} =>
         calls[c].ev \in 1..(nextId - 1)
  BY DEF CallCaptured, Records
<1>3. Recorded'
  BY <1>1 DEF Recorded
<1>4. CallRecorded'
  BY <1>2 DEF CallRecorded
<1> QED
  BY <1>3, <1>4

\* ClaimsTraced, event by event, before and after a step.
LEMMA TracedNow ==
  ASSUME ClaimsTraced, NEW e \in Event, status[e] = "claimed"
  PROVE  \/ e \in orphaned \cup strayed
         \/ \E d \in Drainer : e \in Held(d)
         \/ \E h \in Host : e \in bag[h]
BY DEF ClaimsTraced, WithStatus

LEMMA TracedNext ==
  ASSUME \A e \in Event : status'[e] = "claimed" =>
            \/ e \in orphaned' \cup strayed'
            \/ \E d \in Drainer : e \in Held(d)'
            \/ \E h \in Host : e \in bag'[h]
  PROVE  ClaimsTraced'
BY DEF ClaimsTraced, WithStatus

\* What the steps of the rest of the system leave alone.
LEMMA HostsUntouched ==
  ASSUME HostTypeOK, HostsInv, UNCHANGED hostVars, nextId' \in Nat, nextId <= nextId'
  PROVE  HostsInv'
<1> USE DEF hostVars, HostsInv, Records, Releases
<1>1. BagAtWork' /\ NowInBag' /\ OneCall' /\ CallOfHost' /\ CallSeenLow'
  BY DEF BagAtWork, NowInBag, OneCall, CallOfHost, CallSeenLow
<1>2. CallCaptured'
  BY StoreAssumption DEF CallCaptured, HostTypeOK, TypeOK, StoreTypeOK, Event
<1> QED
  BY <1>1, <1>2

-----------------------------------------------------------------------------
(* The steps of the drains and of the rest of the system, hosts standing by. *)

LEMMA TypedHosts ==
  ASSUME HostTypeOK, UNCHANGED hostVars, TypeOK'
  PROVE  HostTypeOK'
BY DEF HostTypeOK, hostVars

\* A drain works on an event it has in hand, and no row changes its status.
LEMMA DrainWorksOn ==
  ASSUME HostInv, NEW d \in Drainer, NEW step \in PC \ {"idle", "claim"},
         UNCHANGED hostVars, UNCHANGED <<lock, todo, orphaned, nextId, status, attempts>>,
         pc[d] \notin {"idle", "claim"}, pc' = [pc EXCEPT ![d] = step],
         \A c \in Drainer : c # d => cur'[c] = cur[c] /\ seen'[c] = seen[c],
         step # "next" => cur'[d] \in todo[d],
         step = "rewrite" => seen'[d] < MaxAttempts,
         pruned' = pruned, summaries \subseteq summaries', TypeOK', Recorded'
  PROVE  HostInv'
<1> USE DEF HostInv, hostVars
<1>1. HostTypeOK'
  BY TypedHosts
<1>2. DrainsInv'
  BY DEF DrainsInv, LockHeld, IdleEmpty, CurInTodo, SeenLow, HostTypeOK, TypeOK
<1>3. HostsInv'
  BY HostsUntouched DEF HostTypeOK, TypeOK, StoreTypeOK
<1>4. HandsInv'
  BY HandsKept DEF HostTypeOK, TypeOK, StoreTypeOK, Loose, Releases
<1>5. CallRecorded'
  BY DEF CallRecorded
<1>6. Uncaptured' /\ AbsentFresh' /\ SummarizedIsBacked' /\ AttemptsLeft'
  BY DEF Uncaptured, AbsentFresh, SummarizedIsBacked, AttemptsLeft, WithStatus
<1>7. ClaimsTraced'
  <2>1. \A c \in Drainer : Held(c)' = Held(c)
    BY DEF Held, HostTypeOK, TypeOK
  <2> QED
    BY <2>1 DEF ClaimsTraced, WithStatus
<1> QED
  BY <1>1, <1>2, <1>3, <1>4, <1>5, <1>6, <1>7

LEMMA SummarizeBesideHosts ==
  ASSUME HostInv, NEW d \in Drainer, Summarize(d), UNCHANGED hostVars
  PROVE  HostInv'
<1> USE DEF HostInv, HostTypeOK, Summarize, Goto, storeVars
<1>1. PICK e \in todo[d], step \in {"record", "release", "skip"} :
        cur' = [cur EXCEPT ![d] = e] /\ pc' = [pc EXCEPT ![d] = step]
  OBVIOUS
<1>2. TypeOK'
  BY <1>1 DEF TypeOK, StoreTypeOK, PC
<1>3. Recorded'
  BY <1>1 DEF Recorded, TypeOK
<1>4. /\ step \in PC \ {"idle", "claim", "next", "rewrite"}
      /\ cur'[d] \in todo[d]
      /\ \A c \in Drainer : c # d => cur'[c] = cur[c] /\ seen'[c] = seen[c]
  BY <1>1 DEF PC, TypeOK
<1> QED
  BY <1>1, <1>2, <1>3, <1>4, DrainWorksOn

LEMMA RecordBesideHosts ==
  ASSUME HostInv, NEW d \in Drainer, Record(d), UNCHANGED hostVars
  PROVE  HostInv'
<1> USE DEF HostInv, HostTypeOK, Record, Goto, storeVars, InsertSummary
<1>1. cur[d] \in todo[d] /\ cur[d] \in Event
  BY DEF DrainsInv, CurInTodo, TypeOK
<1>2. PICK step \in {"embed", "skip"} :
        /\ pc' = [pc EXCEPT ![d] = step]
        /\ step = "embed" => cur[d] \in summaries'
  OBVIOUS
<1>3. summaries \subseteq summaries' /\ UNCHANGED <<nextId, status, attempts>>
  OBVIOUS
<1>4. TypeOK'
  BY <1>1 DEF TypeOK, StoreTypeOK, PC
<1>5. Recorded'
  BY <1>2, <1>3 DEF Recorded, TypeOK
<1>6. step \in PC \ {"idle", "claim", "next", "rewrite"}
  BY <1>2 DEF PC
<1> QED
  BY <1>1, <1>2, <1>3, <1>4, <1>5, <1>6, DrainWorksOn

LEMMA EmbedBesideHosts ==
  ASSUME HostInv, NEW d \in Drainer, Embed(d), UNCHANGED hostVars
  PROVE  HostInv'
<1> USE DEF HostInv, HostTypeOK, Embed, Goto, storeVars
<1>1. PICK step \in {"put", "release", "skip"} : pc' = [pc EXCEPT ![d] = step]
  OBVIOUS
<1>2. TypeOK' /\ cur[d] \in todo[d]
  BY <1>1 DEF DrainsInv, CurInTodo, TypeOK, StoreTypeOK, PC
<1>3. Recorded'
  BY <1>1 DEF Recorded, TypeOK
<1>4. step \in PC \ {"idle", "claim", "next", "rewrite"}
  BY <1>1 DEF PC
<1> QED
  BY <1>1, <1>2, <1>3, <1>4, DrainWorksOn

LEMMA PutEmbeddingBesideHosts ==
  ASSUME HostInv, NEW d \in Drainer, PutEmbedding(d), UNCHANGED hostVars
  PROVE  HostInv'
<1> USE DEF HostInv, HostTypeOK, PutEmbedding, Goto, storeVars, PutVector
<1>1. cur[d] \in todo[d] /\ cur[d] \in Event
  BY DEF DrainsInv, CurInTodo, TypeOK
<1>2. PICK step \in {"mark", "skip"} : pc' = [pc EXCEPT ![d] = step]
  OBVIOUS
<1>3. UNCHANGED <<nextId, status, attempts, summaries>>
  OBVIOUS
<1>4. TypeOK'
  BY <1>1, <1>2 DEF TypeOK, StoreTypeOK, PC
<1>5. Recorded'
  BY <1>2, <1>3 DEF Recorded, TypeOK
<1>6. step \in PC \ {"idle", "claim", "next", "rewrite"}
  BY <1>2 DEF PC
<1> QED
  BY <1>1, <1>2, <1>3, <1>4, <1>5, <1>6, DrainWorksOn

LEMMA ReleaseReadBesideHosts ==
  ASSUME HostInv, NEW d \in Drainer, ReleaseRead(d), UNCHANGED hostVars
  PROVE  HostInv'
<1> USE DEF HostInv, HostTypeOK, ReleaseRead, Goto, storeVars
<1>1. cur[d] \in todo[d] /\ cur[d] \in Event
  BY DEF DrainsInv, CurInTodo, TypeOK
<1>2. attempts[cur[d]] < MaxAttempts
  BY <1>1 DEF HandsInv, HandsAttempts, InHand
<1>3. TypeOK'
  BY <1>1 DEF TypeOK, StoreTypeOK, PC
<1>4. Recorded'
  BY DEF Recorded, TypeOK
<1>5. "rewrite" \in PC \ {"idle", "claim"} /\ seen'[d] < MaxAttempts
  BY <1>2 DEF PC, TypeOK
<1>6. \A c \in Drainer : c # d => cur'[c] = cur[c] /\ seen'[c] = seen[c]
  BY DEF TypeOK
<1> QED
  BY <1>1, <1>3, <1>4, <1>5, <1>6, DrainWorksOn

LEMMA ClaimSelectBesideHosts ==
  ASSUME HostInv, NEW d \in Drainer, ClaimSelect(d), UNCHANGED hostVars
  PROVE  HostInv'
<1> USE DEF HostInv, hostVars, ClaimSelect, Goto, storeVars
<1>1. PICK S \in SUBSET WithStatus("raw") : todo' = [todo EXCEPT ![d] = S]
  BY DEF Oldest
<1>2. \A e \in S : e \in Event /\ status[e] = "raw"
  BY DEF WithStatus
<1>3. TypeOK'
  BY <1>1, <1>2 DEF HostTypeOK, TypeOK, StoreTypeOK, PC
<1>4. HostTypeOK'
  BY <1>3, TypedHosts
<1>5. DrainsInv'
  BY <1>1, DrainAssumption
  DEF DrainsInv, LockHeld, IdleEmpty, CurInTodo, SeenLow, HostTypeOK, TypeOK
<1>6. HostsInv'
  BY HostsUntouched DEF HostTypeOK, TypeOK, StoreTypeOK
<1>7. \A e \in S : ~ InHand(e)
  BY <1>2, DrainAssumption DEF HandsInv, HandsStatus, DrainsInv, LockHeld
<1>8. \A e \in Event : InHand(e)' => e \in S \/ InHand(e)
  BY <1>1 DEF InHand, Loose, Releases, HostTypeOK, TypeOK
<1>9. HandsInv'
  <2>1. TodoDisjoint'
    BY <1>1, <1>2, <1>7 DEF HandsInv, TodoDisjoint, InHand, HostTypeOK, TypeOK
  <2>2. BagsApart'
    BY <1>1, <1>2, <1>7 DEF HandsInv, BagsApart, InHand, HostTypeOK, TypeOK
  <2>3. LooseApart'
    BY <1>1, <1>2, <1>7
    DEF HandsInv, LooseApart, InHand, Loose, Releases, HostTypeOK, TypeOK
  <2>4. HandsCaptured'
    BY <1>2, <1>8, StoreAssumption
    DEF HandsInv, HandsCaptured, Uncaptured, HostTypeOK, TypeOK, StoreTypeOK, Event
  <2>5. HandsStatus'
    <3>1. SUFFICES ASSUME NEW e \in Event, InHand(e)'
          PROVE  \/ status'[e] \in {"claimed", "summarized", "absent"}
                 \/ status'[e] = "raw" /\ \E c \in Drainer : pc'[c] = "claim" /\ e \in todo'[c]
      BY DEF HandsStatus
    <3>2. CASE e \in S
      BY <1>1, <1>2, <3>2 DEF HostTypeOK, TypeOK
    <3>3. CASE InHand(e)
      BY <3>3, DrainAssumption DEF HandsInv, HandsStatus, DrainsInv, LockHeld
    <3> QED
      BY <1>8, <3>1, <3>2, <3>3
  <2>6. HandsAttempts'
    BY <1>2, <1>8 DEF HandsInv, HandsAttempts, AttemptsLeft, WithStatus
  <2> QED
    BY <2>1, <2>2, <2>3, <2>4, <2>5, <2>6 DEF HandsInv
<1>10. Recorded' /\ CallRecorded'
  BY DEF Recorded, CallRecorded, HostTypeOK, TypeOK
<1>11. Uncaptured' /\ AbsentFresh' /\ SummarizedIsBacked' /\ AttemptsLeft'
  BY DEF Uncaptured, AbsentFresh, SummarizedIsBacked, AttemptsLeft, WithStatus
<1>12. ClaimsTraced'
  <2>1. \A c \in Drainer : Held(c) = Held(c)'
    BY <1>1 DEF Held, HostTypeOK, TypeOK
  <2> QED
    BY <2>1 DEF ClaimsTraced, WithStatus
<1> QED
  BY <1>4, <1>5, <1>6, <1>9, <1>10, <1>11, <1>12

LEMMA ClaimCommitBesideHosts ==
  ASSUME HostInv, NEW d \in Drainer, ClaimCommit(d), UNCHANGED hostVars
  PROVE  HostInv'
<1> USE DEF HostInv, hostVars, ClaimCommit, Goto, SetStatus, StatusSet, Rows
<1>1. TypeOK'
  BY DEF HostTypeOK, TypeOK, StoreTypeOK, PC, Status
<1>2. HostTypeOK'
  BY <1>1, TypedHosts
<1>3. DrainsInv'
  BY DrainAssumption
  DEF DrainsInv, LockHeld, IdleEmpty, CurInTodo, SeenLow, HostTypeOK, TypeOK
<1>4. HostsInv'
  BY HostsUntouched DEF HostTypeOK, TypeOK, StoreTypeOK
<1>5. \A e \in todo[d] : e \in Event /\ InHand(e)
  BY DEF InHand, HostTypeOK, TypeOK
<1>6. \A e \in Event : InHand(e)' <=> InHand(e)
  BY DEF InHand, Loose, Releases
<1>7. HandsInv'
  <2>1. TodoDisjoint' /\ BagsApart' /\ LooseApart'
    BY DEF HandsInv, TodoDisjoint, BagsApart, LooseApart, Loose, Releases
  <2>2. HandsCaptured' /\ HandsAttempts'
    BY <1>6 DEF HandsInv, HandsCaptured, HandsAttempts
  <2>3. HandsStatus'
    <3>1. SUFFICES ASSUME NEW e \in Event, InHand(e)
          PROVE  status'[e] \in {"claimed", "summarized", "absent"}
      BY <1>6 DEF HandsStatus
    <3>2. CASE e \in todo[d]
      BY <3>2
    <3>3. CASE e \notin todo[d]
      <4>1. status[e] # "raw"
        BY <3>1, <3>3, DrainAssumption DEF HandsInv, HandsStatus, DrainsInv, LockHeld
      <4> QED
        BY <3>1, <3>3, <4>1 DEF HandsInv, HandsStatus
    <3> QED
      BY <3>2, <3>3
  <2> QED
    BY <2>1, <2>2, <2>3 DEF HandsInv
<1>8. Recorded' /\ CallRecorded'
  <2>1. \A e \in 1..(nextId - 1) : e \in Event
    BY StoreAssumption DEF HostTypeOK, TypeOK, StoreTypeOK, Event
  <2>2. \A c \in Drainer : pc'[c] \in {"embed", "put", "mark"} => pc[c] \in {"embed", "put", "mark"}
    BY DEF HostTypeOK, TypeOK
  <2> QED
    BY <2>1, <2>2, RecordedKept DEF DrainsInv, HostsInv, HandsInv
<1>9. Uncaptured' /\ AbsentFresh'
  BY DEF Uncaptured, AbsentFresh, HostTypeOK, TypeOK, StoreTypeOK
<1>10. SummarizedIsBacked'
  BY DEF SummarizedIsBacked, WithStatus, HostTypeOK, TypeOK, StoreTypeOK
<1>11. AttemptsLeft'
  BY <1>5 DEF HandsInv, HandsAttempts, AttemptsLeft, WithStatus
<1>12. ClaimsTraced'
  <2>1. Held(d)' = todo[d]
    BY DEF Held, HostTypeOK, TypeOK
  <2>2. \A c \in Drainer : Held(c) \subseteq Held(c)'
    BY DEF Held, HostTypeOK, TypeOK
  <2> QED
    BY <2>1, <2>2 DEF ClaimsTraced, WithStatus, HostTypeOK, TypeOK, StoreTypeOK
<1> QED
  BY <1>2, <1>3, <1>4, <1>7, <1>8, <1>9, <1>10, <1>11, <1>12

\* A drain settles its event: raw again, summarized or skipped, and out of its hands.
LEMMA SettleBesideHosts ==
  ASSUME HostInv, NEW d \in Drainer, NEW s \in {"raw", "summarized", "skipped"},
         pc[d] \in {"mark", "skip", "rewrite"},
         status' = StatusSet({cur[d]}, s), UNCHANGED <<nextId, summaries, vector>>,
         attempts' = attempts
           \/ attempts' = IF cur[d] \in Rows
                          THEN [attempts EXCEPT ![cur[d]] = seen[d] + 1] ELSE attempts,
         Settle(d), UNCHANGED hostVars, TypeOK', AbsentFresh', SummarizedIsBacked',
         AttemptsLeft'
  PROVE  HostInv'
<1> USE DEF HostInv, hostVars, Settle, Goto, StatusSet, Rows
<1>1. cur[d] \in todo[d] /\ cur[d] \in Event
  BY DEF DrainsInv, CurInTodo, HostTypeOK, TypeOK
<1>2. \A e \in Event : e # cur[d] => status'[e] = status[e] /\ attempts'[e] = attempts[e]
  BY <1>1 DEF HostTypeOK, TypeOK, StoreTypeOK
<1>3. HostTypeOK'
  BY TypedHosts
<1>4. DrainsInv'
  BY DrainAssumption
  DEF DrainsInv, LockHeld, IdleEmpty, CurInTodo, SeenLow, HostTypeOK, TypeOK
<1>5. HostsInv'
  BY HostsUntouched DEF HostTypeOK, TypeOK, StoreTypeOK
<1>6. /\ \A c \in Drainer : todo'[c] \subseteq todo[c]
      /\ \A c \in Drainer : pc[c] = "claim" => pc'[c] = "claim"
      /\ \A c \in Call : Loose(c)' => Loose(c) /\ calls'[c].ev = calls[c].ev
  BY DEF HostTypeOK, TypeOK, Loose, Releases
<1>7. \A e \in Event : InHand(e)' => e # cur[d]
  <2>1. \A c \in Drainer : cur[d] \notin todo'[c]
    BY <1>1 DEF HandsInv, TodoDisjoint, HostTypeOK, TypeOK
  <2>2. \A h \in Host : cur[d] \notin bag'[h]
    BY <1>1 DEF HandsInv, BagsApart
  <2>3. \A c \in Call : Loose(c)' => calls'[c].ev # cur[d]
    BY <1>1, <1>6 DEF HandsInv, LooseApart
  <2> QED
    BY <2>1, <2>2, <2>3 DEF InHand
<1>8. HandsInv'
  BY <1>2, <1>6, <1>7, HandsKept DEF HostTypeOK, TypeOK, StoreTypeOK
<1>9. Recorded' /\ CallRecorded'
  <2>1. \A e \in 1..(nextId - 1) : e \in Event
    BY StoreAssumption DEF HostTypeOK, TypeOK, StoreTypeOK, Event
  <2>2. \A c \in Drainer : pc'[c] \in {"embed", "put", "mark"} =>
           pc[c] \in {"embed", "put", "mark"} /\ cur'[c] = cur[c]
    BY DEF HostTypeOK, TypeOK
  <2> QED
    BY <2>1, <2>2, RecordedKept DEF DrainsInv, HostsInv, HandsInv
<1>10. Uncaptured'
  BY <1>1 DEF Uncaptured, HostTypeOK, TypeOK, StoreTypeOK
<1>11. ClaimsTraced'
  <2>1. status'[cur[d]] # "claimed"
    BY <1>1 DEF HostTypeOK, TypeOK, StoreTypeOK
  <2>2. \A e \in Event : status'[e] = "claimed" => status[e] = "claimed" /\ e # cur[d]
    BY <2>1, <1>2
  <2>3. \A e \in Event : \A c \in Drainer : e # cur[d] /\ e \in Held(c) => e \in Held(c)'
    BY DEF Held, HostTypeOK, TypeOK
  <2> HIDE DEF Settle, StatusSet
  <2>4. orphaned' = orphaned /\ strayed' = strayed /\ bag' = bag
    BY DEF Settle
  <2> QED
    BY <2>2, <2>3, <2>4, TracedNow, TracedNext
<1> QED
  BY <1>3, <1>4, <1>5, <1>8, <1>9, <1>10, <1>11

LEMMA MarkSummarizedBesideHosts ==
  ASSUME HostInv, NEW d \in Drainer, MarkSummarized(d), UNCHANGED hostVars
  PROVE  HostInv'
<1> USE StoreAssumption DEF HostInv, HostTypeOK, MarkSummarized, SetStatus
<1>1. cur[d] \in Event
  BY DEF DrainsInv, CurInTodo, TypeOK
<1>2. TypeOK'
  BY DEF TypeOK, StoreTypeOK, PC, Status, Settle, Goto, StatusSet
<1>3. AbsentFresh'
  BY DEF AbsentFresh, StatusSet, Rows, TypeOK, StoreTypeOK
<1>4. SummarizedIsBacked'
  BY <1>1 DEF SummarizedIsBacked, Recorded, Settle, WithStatus, StatusSet, Rows,
               TypeOK, StoreTypeOK
<1>5. AttemptsLeft'
  BY DEF AttemptsLeft, WithStatus, StatusSet, TypeOK, StoreTypeOK
<1> QED
  BY <1>2, <1>3, <1>4, <1>5, SettleBesideHosts

LEMMA MarkSkippedBesideHosts ==
  ASSUME HostInv, NEW d \in Drainer, MarkSkipped(d), UNCHANGED hostVars
  PROVE  HostInv'
<1> USE StoreAssumption DEF HostInv, HostTypeOK, MarkSkipped, SetStatus
<1>1. TypeOK'
  BY DEF TypeOK, StoreTypeOK, PC, Status, Settle, Goto, StatusSet
<1>2. AbsentFresh'
  BY DEF AbsentFresh, StatusSet, Rows, TypeOK, StoreTypeOK
<1>3. SummarizedIsBacked'
  BY DEF SummarizedIsBacked, Settle, WithStatus, StatusSet, TypeOK, StoreTypeOK
<1>4. AttemptsLeft'
  BY DEF AttemptsLeft, WithStatus, StatusSet, TypeOK, StoreTypeOK
<1> QED
  BY <1>1, <1>2, <1>3, <1>4, SettleBesideHosts

LEMMA ReleaseWriteBesideHosts ==
  ASSUME HostInv, NEW d \in Drainer, ReleaseWrite(d), UNCHANGED hostVars
  PROVE  HostInv'
<1> USE StoreAssumption DEF HostInv, HostTypeOK, ReleaseWrite, WriteRelease
<1> DEFINE to == IF seen[d] + 1 >= MaxAttempts THEN "skipped" ELSE "raw"
<1>1. cur[d] \in Event /\ seen[d] \in Nat /\ seen[d] + 1 \in 0..MaxAttempts
  BY DEF DrainsInv, CurInTodo, TypeOK, SeenLow
<1>2. TypeOK'
  BY <1>1 DEF TypeOK, StoreTypeOK, PC, Status, Settle, Goto, StatusSet
<1>3. AbsentFresh'
  BY <1>1 DEF AbsentFresh, StatusSet, Rows, TypeOK, StoreTypeOK
<1>4. SummarizedIsBacked'
  BY DEF SummarizedIsBacked, Settle, WithStatus, StatusSet, TypeOK, StoreTypeOK
<1>5. AttemptsLeft'
  BY <1>1 DEF AttemptsLeft, WithStatus, StatusSet, Rows, TypeOK, StoreTypeOK
<1>6. to \in {"raw", "summarized", "skipped"} /\ status' = StatusSet({cur[d]}, to)
  OBVIOUS
<1> HIDE DEF to
<1> QED
  BY <1>2, <1>3, <1>4, <1>5, <1>6, SettleBesideHosts

LEMMA CaptureBesideHosts ==
  ASSUME HostInv, Capture, UNCHANGED drainVars, UNCHANGED hostVars
  PROVE  HostInv'
<1> USE StoreAssumption, DrainAssumption DEF HostInv, Capture, RecordEvent, drainVars, hostVars
<1>1. status[nextId] = "absent" /\ ~ InHand(nextId)
  BY DEF Uncaptured, HandsInv, HandsCaptured, HostTypeOK, TypeOK, StoreTypeOK, Event
<1>2. TypeOK'
  BY DEF HostTypeOK, TypeOK, StoreTypeOK, Status, Event
<1>3. HostTypeOK'
  BY <1>2, TypedHosts
<1>4. DrainsInv'
  BY DEF DrainsInv, LockHeld, IdleEmpty, CurInTodo, SeenLow
<1>5. HostsInv'
  BY HostsUntouched DEF HostTypeOK, TypeOK, StoreTypeOK
<1>6. HandsInv'
  <2>1. \A e \in Event : InHand(e)' => InHand(e) /\ e # nextId
    BY <1>1 DEF InHand, Loose, Releases
  <2> QED
    BY <2>1, HandsKept DEF Loose, Releases, HostTypeOK, TypeOK, StoreTypeOK
<1>7. Recorded' /\ CallRecorded'
  <2>1. \A e \in 1..(nextId - 1) : e \in Event /\ e # nextId
    BY DEF HostTypeOK, TypeOK, StoreTypeOK, Event
  <2>2. \A e \in 1..(nextId - 1) : status'[e] = status[e]
    BY <2>1 DEF HostTypeOK, TypeOK, StoreTypeOK
  <2> QED
    BY <2>2, RecordedKept DEF DrainsInv, HostsInv, HandsInv
<1>8. Uncaptured'
  BY DEF Uncaptured, HostTypeOK, TypeOK, StoreTypeOK, Event
<1>9. AbsentFresh'
  BY DEF AbsentFresh, HostTypeOK, TypeOK, StoreTypeOK
<1>10. SummarizedIsBacked'
  BY DEF SummarizedIsBacked, WithStatus, HostTypeOK, TypeOK, StoreTypeOK
<1>11. AttemptsLeft'
  BY <1>1 DEF AttemptsLeft, AbsentFresh, WithStatus, HostTypeOK, TypeOK, StoreTypeOK
<1>12. ClaimsTraced'
  <2>1. \A e \in Event : status'[e] = "claimed" => status[e] = "claimed"
    BY DEF HostTypeOK, TypeOK, StoreTypeOK
  <2>2. \A d \in Drainer : Held(d)' = Held(d)
    BY DEF Held
  <2> QED
    BY <2>1, <2>2, TracedNow, TracedNext
<1> QED
  BY <1>3, <1>4, <1>5, <1>6, <1>7, <1>8, <1>9, <1>10, <1>11, <1>12

LEMMA RetryBesideHosts ==
  ASSUME HostInv, Retry, UNCHANGED drainVars, UNCHANGED hostVars
  PROVE  HostInv'
<1> USE StoreAssumption, DrainAssumption DEF HostInv, drainVars, hostVars
<1>1. PICK S \in SUBSET WithStatus("skipped") :
        /\ status' = StatusSet(S, "raw")
        /\ attempts' = [e \in Event |-> IF e \in S THEN 0 ELSE attempts[e]]
        /\ UNCHANGED <<nextId, summaries, vector>>
  BY DEF Retry, RetrySkipped, Oldest
<1>2. \A e \in S : e \in Event /\ status[e] = "skipped" /\ ~ InHand(e)
  BY DEF WithStatus, HandsInv, HandsStatus
<1>3. \A e \in Event : status'[e] = IF e \in S THEN "raw" ELSE status[e]
  BY <1>1, <1>2 DEF StatusSet, Rows
<1>4. TypeOK'
  BY <1>1 DEF HostTypeOK, TypeOK, StoreTypeOK, Status, StatusSet
<1>5. HostTypeOK'
  BY <1>4, TypedHosts
<1>6. DrainsInv'
  BY DEF DrainsInv, LockHeld, IdleEmpty, CurInTodo, SeenLow
<1>7. HostsInv'
  BY <1>1, HostsUntouched DEF HostTypeOK, TypeOK, StoreTypeOK
<1>8. HandsInv'
  <2>1. \A e \in Event : InHand(e)' => InHand(e)
    BY DEF InHand, Loose, Releases
  <2>2. \A e \in Event : InHand(e)' => status'[e] = status[e] /\ attempts'[e] = attempts[e]
    BY <2>1, <1>1, <1>2, <1>3
  <2> QED
    BY <1>1, <2>2, HandsKept DEF Loose, Releases, HostTypeOK, TypeOK, StoreTypeOK
<1>9. Recorded' /\ CallRecorded'
  <2>1. \A e \in 1..(nextId - 1) : e \in Event
    BY DEF HostTypeOK, TypeOK, StoreTypeOK, Event
  <2>2. \A e \in 1..(nextId - 1) : status[e] = "absent" => status'[e] = "absent"
    BY <2>1, <1>2, <1>3
  <2> QED
    BY <1>1, <2>2, RecordedKept DEF DrainsInv, HostsInv, HandsInv
<1>10. Uncaptured' /\ AbsentFresh'
  BY <1>1, <1>2, <1>3 DEF Uncaptured, AbsentFresh
<1>11. SummarizedIsBacked' /\ AttemptsLeft'
  BY <1>1, <1>3 DEF SummarizedIsBacked, AttemptsLeft, WithStatus
<1>12. ClaimsTraced'
  <2>1. \A d \in Drainer : Held(d)' = Held(d)
    BY DEF Held
  <2> QED
    BY <2>1, <1>3, TracedNow, TracedNext
<1> QED
  BY <1>5, <1>6, <1>7, <1>8, <1>9, <1>10, <1>11, <1>12

LEMMA DeleteBesideHosts ==
  ASSUME HostInv, NEW S \in SUBSET Event, DeleteEvents(S), UNCHANGED drainVars,
         UNCHANGED hostVars
  PROVE  HostInv'
<1> USE StoreAssumption, DrainAssumption DEF HostInv, DeleteEvents, drainVars, hostVars
<1>1. TypeOK'
  BY DEF HostTypeOK, TypeOK, StoreTypeOK, Status
<1>2. HostTypeOK'
  BY <1>1, TypedHosts
<1>3. DrainsInv'
  BY DEF DrainsInv, LockHeld, IdleEmpty, CurInTodo, SeenLow
<1>4. HostsInv'
  BY HostsUntouched DEF HostTypeOK, TypeOK, StoreTypeOK
<1>5. \A e \in Event : /\ status'[e] \in {status[e], "absent"}
                       /\ attempts'[e] \in {attempts[e], 0}
  OBVIOUS
<1>6. HandsInv'
  BY <1>5, HandsKept DEF Loose, Releases, HostTypeOK, TypeOK, StoreTypeOK
<1>7. Recorded' /\ CallRecorded'
  <2>1. \A e \in 1..(nextId - 1) : e \in Event
    BY DEF HostTypeOK, TypeOK, StoreTypeOK, Event
  <2>2. \A e \in summaries : e \in Event
    BY DEF HostTypeOK, TypeOK, StoreTypeOK
  <2> QED
    BY <2>1, <2>2, <1>5, RecordedKept DEF DrainsInv, HostsInv, HandsInv
<1>8. Uncaptured' /\ AbsentFresh'
  BY DEF Uncaptured, AbsentFresh
<1>9. SummarizedIsBacked' /\ AttemptsLeft'
  BY DEF SummarizedIsBacked, AttemptsLeft, WithStatus
<1>10. ClaimsTraced'
  <2>1. \A d \in Drainer : Held(d)' = Held(d)
    BY DEF Held
  <2> QED
    BY <2>1, <1>5, TracedNow, TracedNext
<1> QED
  BY <1>2, <1>3, <1>4, <1>6, <1>7, <1>8, <1>9, <1>10

LEMMA PruneSummariesBesideHosts ==
  ASSUME HostInv, PruneSummaries, UNCHANGED hostVars
  PROVE  HostInv'
<1> USE StoreAssumption, DrainAssumption DEF HostInv, PruneSummaries, PruneSuperseded, hostVars
<1>1. PICK S \in SUBSET Event :
        /\ summaries' = summaries \ S
        /\ pruned' = pruned \cup S
        /\ vector' = [e \in Event |-> IF e \in S THEN None ELSE vector[e]]
  OBVIOUS
<1>2. UNCHANGED <<nextId, status, attempts, lock, pc, todo, cur, rid, seen, orphaned, crashes>>
  OBVIOUS
<1>3. TypeOK'
  BY <1>1 DEF HostTypeOK, TypeOK, StoreTypeOK
<1>4. HostTypeOK'
  BY <1>3, TypedHosts
<1>5. DrainsInv'
  BY DEF DrainsInv, LockHeld, IdleEmpty, CurInTodo, SeenLow
<1>6. HostsInv'
  BY HostsUntouched DEF HostTypeOK, TypeOK, StoreTypeOK
<1>7. HandsInv'
  BY HandsKept DEF Loose, Releases, HostTypeOK, TypeOK, StoreTypeOK
<1>8. Recorded' /\ CallRecorded'
  BY <1>1, <1>2 DEF Recorded, CallRecorded
<1>9. Uncaptured' /\ AbsentFresh'
  BY <1>2 DEF Uncaptured, AbsentFresh
<1>10. SummarizedIsBacked' /\ AttemptsLeft'
  BY <1>1, <1>2 DEF SummarizedIsBacked, AttemptsLeft, WithStatus
<1>11. ClaimsTraced'
  <2>1. \A d \in Drainer : Held(d)' = Held(d)
    BY <1>2 DEF Held
  <2> QED
    BY <2>1, <1>2, TracedNow, TracedNext
<1> QED
  BY <1>4, <1>5, <1>6, <1>7, <1>8, <1>9, <1>10, <1>11

\* A process stops, the daemon with the requests it was handling: what its drains had in
\* hand is in nobody's.
LEMMA StopBesideHosts ==
  ASSUME HostInv, NEW p \in Procs, Stop(p), UNCHANGED <<at, bag, now, strayed, faults>>,
         calls' = calls \/ calls' = [c \in Call |-> NoCall]
  PROVE  HostInv'
<1> USE StoreAssumption, DrainAssumption, SamplingAssumption DEF HostInv, Stop, storeVars
<1>1. TypeOK'
  <2>1. \A d \in Drainer : Held(d) \subseteq Event
    BY DEF Held, HostTypeOK, TypeOK
  <2>2. UNION {Held(d) : d \in p} \subseteq Event
    BY <2>1
  <2> QED
    BY <2>2 DEF HostTypeOK, TypeOK, StoreTypeOK, PC
<1>2. \A c \in Call : calls'[c] = calls[c] \/ calls'[c] = NoCall
  OBVIOUS
<1>3. calls' \in [Call -> Requests]
  BY DEF HostTypeOK, Requests, NoCall, Request, CallStep
<1>4. HostTypeOK'
  BY <1>1, <1>3 DEF HostTypeOK
<1>5. DrainsInv'
  BY DEF DrainsInv, LockHeld, IdleEmpty, CurInTodo, SeenLow
<1>6. HostsInv'
  <2>1. BagAtWork' /\ NowInBag'
    BY DEF HostsInv, BagAtWork, NowInBag
  <2>2. OneCall'
    BY <1>2 DEF HostsInv, OneCall, NoCall, Request
  <2>3. CallOfHost' /\ CallCaptured' /\ CallSeenLow'
    BY <1>2 DEF HostsInv, CallOfHost, CallCaptured, CallSeenLow, NoCall, Request, Records, Releases
  <2> QED
    BY <2>1, <2>2, <2>3 DEF HostsInv
<1>7. \A c \in Call : Loose(c)' => Loose(c) /\ calls'[c].ev = calls[c].ev
  BY <1>2 DEF Loose, Releases, NoCall, Request
<1>8. HandsInv'
  BY <1>7, HandsKept DEF HostTypeOK, TypeOK, StoreTypeOK
<1>9. Recorded' /\ CallRecorded'
  <2>1. \A c \in Call : calls'[c].step \in {"embed", "put", "mark"} => calls'[c] = calls[c]
    BY <1>2 DEF NoCall, Request
  <2> QED
    BY <2>1 DEF Recorded, CallRecorded
<1>10. Uncaptured' /\ AbsentFresh' /\ SummarizedIsBacked' /\ AttemptsLeft'
  BY DEF Uncaptured, AbsentFresh, SummarizedIsBacked, AttemptsLeft, WithStatus
<1>11. ClaimsTraced'
  <2>1. \A d \in Drainer : d \notin p => Held(d)' = Held(d)
    BY DEF Held
  <2>2. \A d \in p : Held(d) \subseteq orphaned'
    OBVIOUS
  <2>3. orphaned \subseteq orphaned' /\ status' = status
    OBVIOUS
  <2> HIDE DEF Stop
  <2> QED
    BY <2>1, <2>2, <2>3, TracedNow, TracedNext
<1> QED
  BY <1>4, <1>5, <1>6, <1>8, <1>9, <1>10, <1>11

LEMMA OtherStepKeeps ==
  ASSUME HostInv, OtherStep
  PROVE  HostInv'
<1>1. UNCHANGED hostVars
  BY DEF OtherStep
<1>2. CASE DaemonWrites
  <2>1. UNCHANGED drainVars
    BY <1>2 DEF DaemonWrites
  <2>2. CASE Sweep
    <3>1. PICK S \in SUBSET Event : DeleteEvents(S)
      BY <2>2, DrainAssumption DEF Sweep, SweepExpired
    <3> QED
      BY <1>1, <2>1, <3>1, DeleteBesideHosts
  <2>3. CASE PruneSkipped
    <3>1. PICK S \in SUBSET Event : DeleteEvents(S)
      BY <2>3 DEF PruneSkipped, Prune, WithStatus
    <3> QED
      BY <1>1, <2>1, <3>1, DeleteBesideHosts
  <2> QED
    BY <1>1, <1>2, <2>1, <2>2, <2>3, CaptureBesideHosts, RetryBesideHosts DEF DaemonWrites
<1>3. CASE PruneSummaries
  BY <1>1, <1>3, PruneSummariesBesideHosts
<1>4. ASSUME NEW d \in Drainer, ClaimSelect(d) \/ DrainStep(d)
      PROVE  HostInv'
  BY <1>1, <1>4, ClaimSelectBesideHosts, ClaimCommitBesideHosts, SummarizeBesideHosts,
     RecordBesideHosts, EmbedBesideHosts, PutEmbeddingBesideHosts, MarkSummarizedBesideHosts,
     MarkSkippedBesideHosts, ReleaseReadBesideHosts, ReleaseWriteBesideHosts DEF DrainStep
<1>5. CASE \E p \in Procs \ {Daemon} : Stop(p)
  BY <1>1, <1>5, StopBesideHosts DEF hostVars
<1> QED
  BY <1>2, <1>3, <1>4, <1>5 DEF OtherStep

-----------------------------------------------------------------------------
(* The hosts' own steps. *)

LEMMA DrainsUntouched ==
  ASSUME HostInv, UNCHANGED vars
  PROVE  /\ TypeOK' /\ DrainsInv' /\ Recorded' /\ Uncaptured' /\ AbsentFresh'
         /\ SummarizedIsBacked' /\ AttemptsLeft'
         /\ \A d \in Drainer : Held(d)' = Held(d)
<1> USE DEF HostInv, vars, storeVars, drainVars
<1>1. TypeOK'
  BY DEF HostTypeOK, TypeOK, StoreTypeOK
<1>2. DrainsInv'
  BY DEF DrainsInv, LockHeld, IdleEmpty, CurInTodo, SeenLow
<1>3. Recorded' /\ Uncaptured' /\ AbsentFresh' /\ SummarizedIsBacked' /\ AttemptsLeft'
  BY DEF Recorded, Uncaptured, AbsentFresh, SummarizedIsBacked, AttemptsLeft, WithStatus
<1>4. \A d \in Drainer : Held(d)' = Held(d)
  BY DEF Held
<1> QED
  BY <1>1, <1>2, <1>3, <1>4

LEMMA NothingMoves ==
  ASSUME HostInv, UNCHANGED allVars
  PROVE  HostInv'
<1> USE DEF HostInv, allVars, hostVars
<1>1. UNCHANGED vars
  OBVIOUS
<1>2. TypeOK' /\ DrainsInv' /\ Recorded' /\ Uncaptured' /\ AbsentFresh'
      /\ SummarizedIsBacked' /\ AttemptsLeft' /\ \A d \in Drainer : Held(d)' = Held(d)
  BY <1>1, DrainsUntouched
<1>3. nextId' = nextId /\ status' = status /\ attempts' = attempts /\ todo' = todo /\ pc' = pc
      /\ summaries' = summaries /\ pruned' = pruned /\ orphaned' = orphaned
  BY DEF vars, storeVars, drainVars
<1>4. HostTypeOK'
  BY <1>2 DEF HostTypeOK
<1>5. HostsInv'
  BY <1>3, HostsUntouched DEF HostTypeOK, TypeOK, StoreTypeOK
<1>6. HandsInv'
  BY <1>3, HandsKept DEF HostTypeOK, TypeOK, StoreTypeOK, Loose, Releases
<1>7. CallRecorded'
  BY <1>3 DEF CallRecorded
<1>8. ClaimsTraced'
  BY <1>2, <1>3, TracedNow, TracedNext
<1> QED
  BY <1>2, <1>4, <1>5, <1>6, <1>7, <1>8

\* A host sends a request, about no event or about one it has; the record_summary it may
\* have been waiting for goes on by itself.
LEMMA HostSends ==
  ASSUME HostInv, UNCHANGED vars, NEW h \in Host, NEW c \in Call,
         NEW step \in {"claim", "record", "skip", "read"}, NEW e \in Event \cup {None},
         NEW where \in At,
         calls[c].step = "none", \A b \in Call : calls[b].by = h => Records(b),
         calls' \in [Call -> Requests], calls'[c] = Request(step, h, e),
         \A b \in Call : b # c =>
            calls'[b] = (IF calls[b].by = h THEN Late(calls[b]) ELSE calls[b]),
         at' = [at EXCEPT ![h] = where],
         \/ step = "claim" /\ where = "claiming" /\ bag[h] = {} /\ now' = now
         \/ step = "record" /\ where = "recording" /\ e \in bag[h] /\ now' = [now EXCEPT ![h] = e]
         \/ step \in {"skip", "read"} /\ where = "releasing" /\ e \in bag[h]
            /\ now' = [now EXCEPT ![h] = e],
         UNCHANGED <<bag, strayed>>, faults' \in 0..MaxFaults
  PROVE  HostInv'
<1> DEFINE new == Request(step, h, e)
<1> USE SamplingAssumption DEF HostInv
<1>1. TypeOK' /\ DrainsInv' /\ Recorded' /\ Uncaptured' /\ AbsentFresh'
      /\ SummarizedIsBacked' /\ AttemptsLeft' /\ \A d \in Drainer : Held(d)' = Held(d)
  BY DrainsUntouched
<1>2. nextId' = nextId /\ status' = status /\ attempts' = attempts /\ todo' = todo /\ pc' = pc
      /\ summaries' = summaries /\ pruned' = pruned /\ orphaned' = orphaned
  BY DEF vars, storeVars, drainVars
<1>3. new.step = step /\ new.by = h /\ new.ev = e /\ new.rid = None /\ new.seen = 0
      /\ new \in Requests
  BY StoreAssumption DEF Request, CallStep
<1>4. calls'[c] = new
  OBVIOUS
<1> HIDE DEF new
<1>5. \A b \in Call : b # c =>
        /\ calls'[b].step = calls[b].step /\ calls'[b].ev = calls[b].ev
        /\ calls'[b].seen = calls[b].seen
        /\ calls'[b].by = IF calls[b].by = h THEN None ELSE calls[b].by
  BY DEF HostTypeOK, Requests, Late
<1>6. HostTypeOK'
  <2>1. at' \in [Host -> At] /\ now' \in [Host -> Event \cup {None}]
    BY DEF HostTypeOK
  <2> QED
    BY <1>1, <2>1 DEF HostTypeOK
<1>7. h # None /\ \A b \in Call : b # c => calls'[b].by # h
  BY <1>5
<1>8. HostsInv'
  <2>1. BagAtWork' /\ NowInBag'
    BY DEF HostsInv, BagAtWork, NowInBag, HostTypeOK
  <2>2. OneCall'
    BY <1>3, <1>4, <1>5, <1>7 DEF HostsInv, OneCall
  <2>3. CallOfHost'
    <3>1. SUFFICES ASSUME NEW b \in Call, calls'[b].by # None
          PROVE  \/ calls'[b].step = "claim" /\ at'[calls'[b].by] = "claiming"
                 \/ Records(b)' /\ at'[calls'[b].by] = "recording" /\ calls'[b].ev = now'[calls'[b].by]
                 \/ Releases(b)' /\ at'[calls'[b].by] = "releasing" /\ calls'[b].ev = now'[calls'[b].by]
      BY DEF CallOfHost
    <3>2. CASE b = c
      BY <1>3, <1>4, <3>2 DEF Records, Releases, HostTypeOK
    <3>3. CASE b # c
      <4>1. calls'[b].by = calls[b].by /\ calls[b].by # h /\ calls[b].by \in Host
        BY <1>5, <1>7, <3>1, <3>3 DEF HostTypeOK, Requests
      <4>2. at'[calls[b].by] = at[calls[b].by] /\ now'[calls[b].by] = now[calls[b].by]
        BY <4>1 DEF HostTypeOK
      <4> QED
        BY <1>5, <3>1, <3>3, <4>1, <4>2 DEF HostsInv, CallOfHost, Records, Releases
    <3> QED
      BY <3>2, <3>3
  <2>4. CallCaptured'
    <3>1. step # "claim" => e \in Event /\ e < nextId
      BY DEF HandsInv, HandsCaptured, InHand, HostTypeOK
    <3>2. step # "claim" => e \in 1..(nextId - 1)
      BY <3>1, StoreAssumption DEF HostTypeOK, TypeOK, StoreTypeOK, Event
    <3> QED
      BY <1>2, <1>3, <1>4, <1>5, <3>2 DEF HostsInv, CallCaptured, Records, Releases
  <2>5. CallSeenLow'
    BY <1>3, <1>4, <1>5 DEF HostsInv, CallSeenLow
  <2> QED
    BY <2>1, <2>2, <2>3, <2>4, <2>5 DEF HostsInv
<1>9. \A b \in Call : Loose(b)' => Loose(b) /\ calls'[b].ev = calls[b].ev
  BY <1>3, <1>4, <1>5 DEF Loose, Releases, Records
<1>10. HandsInv'
  BY <1>2, <1>9, HandsKept DEF HostTypeOK, TypeOK, StoreTypeOK
<1>11. CallRecorded'
  BY <1>2, <1>3, <1>4, <1>5 DEF CallRecorded
<1>12. ClaimsTraced'
  BY <1>1, <1>2, TracedNow, TracedNext
<1> QED
  BY <1>1, <1>6, <1>8, <1>10, <1>11, <1>12

\* The same for a host that waits for nothing.
LEMMA IdleHostSends ==
  ASSUME HostInv, NEW h \in Host, NEW c \in Call, \A b \in Call : calls[b].by # h,
         NEW step \in {"claim", "record", "skip", "read"}, NEW e \in Event \cup {None},
         calls' = [calls EXCEPT ![c] = Request(step, h, e)]
  PROVE  /\ calls' \in [Call -> Requests] /\ calls'[c] = Request(step, h, e)
         /\ \A b \in Call : b # c =>
              calls'[b] = (IF calls[b].by = h THEN Late(calls[b]) ELSE calls[b])
         /\ \A b \in Call : calls[b].by = h => Records(b)
<1>1. Request(step, h, e) \in Requests
  BY StoreAssumption DEF Request, Requests, CallStep
<1> QED
  BY <1>1 DEF HostInv, HostTypeOK

LEMMA HostClaimKeeps ==
  ASSUME HostInv, NEW h \in Host, HostClaim(h)
  PROVE  HostInv'
<1> USE SamplingAssumption DEF HostInv, HostClaim, Go
<1>1. PICK c \in Call :
        /\ calls[c].step = "none"
        /\ calls' = [calls EXCEPT ![c] = Request("claim", h, None)]
  BY DEF Send, Free
<1>2. \A b \in Call : calls[b].by # h
  BY DEF HostsInv, CallOfHost
<1>3. bag[h] = {} /\ "claiming" \in At
  BY DEF HostsInv, BagAtWork, At
<1>4. faults' \in 0..MaxFaults
  BY DEF HostTypeOK
<1>5. /\ calls' \in [Call -> Requests] /\ calls'[c] = Request("claim", h, None)
      /\ \A b \in Call : b # c =>
           calls'[b] = (IF calls[b].by = h THEN Late(calls[b]) ELSE calls[b])
      /\ \A b \in Call : calls[b].by = h => Records(b)
  BY <1>1, <1>2, IdleHostSends
<1> QED
  BY <1>1, <1>2, <1>3, <1>4, <1>5, HostSends

LEMMA HostSampleKeeps ==
  ASSUME HostInv, NEW h \in Host, HostSample(h)
  PROVE  HostInv'
<1> USE SamplingAssumption DEF HostInv, HostSample, Go
<1>1. PICK e \in bag[h], step \in {"record", "read", "skip"} :
        /\ now' = [now EXCEPT ![h] = e]
        /\ Send(h, step, e)
        /\ at' = [at EXCEPT ![h] = IF step = "record" THEN "recording" ELSE "releasing"]
  OBVIOUS
<1>2. PICK c \in Call :
        /\ calls[c].step = "none"
        /\ calls' = [calls EXCEPT ![c] = Request(step, h, e)]
  BY <1>1 DEF Send, Free
<1>3. \A b \in Call : calls[b].by # h
  BY DEF HostsInv, CallOfHost
<1>4. e \in Event /\ faults' \in 0..MaxFaults
  BY <1>1 DEF HostTypeOK
<1>5. "recording" \in At /\ "releasing" \in At
  BY DEF At
<1>6. UNCHANGED vars /\ UNCHANGED <<bag, strayed>>
  OBVIOUS
<1> HIDE DEF HostSample
<1>7. /\ calls' \in [Call -> Requests] /\ calls'[c] = Request(step, h, e)
      /\ \A b \in Call : b # c =>
           calls'[b] = (IF calls[b].by = h THEN Late(calls[b]) ELSE calls[b])
      /\ \A b \in Call : calls[b].by = h => Records(b)
  BY <1>1, <1>2, <1>3, <1>4, IdleHostSends
<1>8. CASE step = "record"
  BY <1>1, <1>2, <1>3, <1>4, <1>5, <1>6, <1>7, <1>8, HostSends
<1>9. CASE step # "record"
  BY <1>1, <1>2, <1>3, <1>4, <1>5, <1>6, <1>7, <1>9, HostSends
<1> QED
  BY <1>8, <1>9

\* An exception ends the drain of a host, or the host itself is gone: a request it was
\* waiting for goes on by itself, and what the host still had is strayed.
LEMMA HostLetsGo ==
  ASSUME HostInv, UNCHANGED vars, NEW h \in Host, GiveUp(h), Abandon(h), faults' \in 0..MaxFaults
  PROVE  HostInv'
<1> USE SamplingAssumption DEF HostInv, Abandon, Go
<1>1. TypeOK' /\ DrainsInv' /\ Recorded' /\ Uncaptured' /\ AbsentFresh'
      /\ SummarizedIsBacked' /\ AttemptsLeft' /\ \A d \in Drainer : Held(d)' = Held(d)
  BY DrainsUntouched
<1>2. nextId' = nextId /\ status' = status /\ attempts' = attempts /\ todo' = todo /\ pc' = pc
      /\ summaries' = summaries /\ pruned' = pruned /\ orphaned' = orphaned
  BY DEF vars, storeVars, drainVars
<1>3. \A c \in Call : /\ calls'[c].step = calls[c].step /\ calls'[c].ev = calls[c].ev
                      /\ calls'[c].rid = calls[c].rid /\ calls'[c].seen = calls[c].seen
                      /\ calls'[c].by = IF calls[c].by = h THEN None ELSE calls[c].by
  BY DEF GiveUp, Late, HostTypeOK
<1>4. calls' \in [Call -> Requests]
  BY DEF GiveUp, Late, HostTypeOK, Requests
<1>5. HostTypeOK'
  BY <1>1, <1>4 DEF HostTypeOK, At
<1>6. HostsInv'
  <2>1. BagAtWork' /\ NowInBag'
    BY DEF HostsInv, BagAtWork, NowInBag, HostTypeOK
  <2>2. OneCall'
    BY <1>3 DEF HostsInv, OneCall
  <2>3. CallOfHost'
    <3>1. SUFFICES ASSUME NEW b \in Call, calls'[b].by # None
          PROVE  \/ calls'[b].step = "claim" /\ at'[calls'[b].by] = "claiming"
                 \/ Records(b)' /\ at'[calls'[b].by] = "recording" /\ calls'[b].ev = now'[calls'[b].by]
                 \/ Releases(b)' /\ at'[calls'[b].by] = "releasing" /\ calls'[b].ev = now'[calls'[b].by]
      BY DEF CallOfHost
    <3>2. calls'[b].by = calls[b].by /\ calls[b].by # h /\ calls[b].by \in Host
      BY <1>3, <3>1 DEF HostTypeOK, Requests
    <3>3. at'[calls[b].by] = at[calls[b].by] /\ now'[calls[b].by] = now[calls[b].by]
      BY <3>2 DEF HostTypeOK
    <3> QED
      BY <1>3, <3>1, <3>2, <3>3 DEF HostsInv, CallOfHost, Records, Releases
  <2>4. CallCaptured' /\ CallSeenLow'
    BY <1>2, <1>3 DEF HostsInv, CallCaptured, CallSeenLow, Records, Releases
  <2> QED
    BY <2>1, <2>2, <2>3, <2>4 DEF HostsInv
<1>7. \A g \in Host : bag'[g] = IF g = h THEN {} ELSE bag[g]
  BY DEF HostTypeOK
<1>8. \A c \in Call : Loose(c)' => \/ Loose(c)
                                   \/ Releases(c) /\ calls[c].by = h /\ calls[c].ev \in bag[h]
  BY <1>3 DEF Loose, Releases, Records, HostsInv, CallOfHost, NowInBag
<1>9. HandsInv'
  <2>1. TodoDisjoint' /\ BagsApart'
    BY <1>2, <1>7 DEF HandsInv, TodoDisjoint, BagsApart
  <2>2. LooseApart'
    <3>1. SUFFICES ASSUME NEW c \in Call, Loose(c)'
          PROVE  /\ \A d \in Drainer : calls'[c].ev \notin todo'[d]
                 /\ \A g \in Host : calls'[c].ev \notin bag'[g]
                 /\ \A b \in Call : Loose(b)' /\ calls'[b].ev = calls'[c].ev => b = c
      BY DEF LooseApart
    <3>2. CASE Loose(c)
      <4>1. \A b \in Call : Loose(b)' /\ calls[b].ev = calls[c].ev => b = c
        BY <1>8, <3>2 DEF HandsInv, LooseApart
      <4> QED
        BY <1>2, <1>3, <1>7, <3>2, <4>1 DEF HandsInv, LooseApart
    <3>3. CASE calls[c].by = h /\ calls[c].ev \in bag[h]
      <4>1. \A b \in Call : Loose(b)' /\ calls[b].ev = calls[c].ev => b = c
        BY <1>8, <3>3 DEF HandsInv, LooseApart, HostsInv, OneCall
      <4>2. \A d \in Drainer : calls[c].ev \notin todo[d]
        BY <3>3 DEF HandsInv, BagsApart
      <4>3. \A g \in Host : g # h => calls[c].ev \notin bag[g]
        BY <3>3 DEF HandsInv, BagsApart
      <4> QED
        BY <1>2, <1>3, <1>7, <4>1, <4>2, <4>3
    <3> QED
      BY <1>8, <3>1, <3>2, <3>3
  <2>3. \A e \in Event : InHand(e)' => InHand(e)
    BY <1>2, <1>3, <1>7, <1>8 DEF InHand
  <2> QED
    BY <1>2, <2>1, <2>2, <2>3 DEF HandsInv, HandsCaptured, HandsStatus, HandsAttempts
<1>10. CallRecorded'
  BY <1>2, <1>3 DEF CallRecorded
<1>11. ClaimsTraced'
  <2>1. strayed' = strayed \cup bag[h]
    OBVIOUS
  <2> HIDE DEF Abandon
  <2> QED
    BY <1>1, <1>2, <1>7, <2>1, TracedNow, TracedNext
<1> QED
  BY <1>1, <1>5, <1>6, <1>9, <1>10, <1>11

LEMMA HostExitsKeeps ==
  ASSUME HostInv, NEW h \in Host, HostExits(h)
  PROVE  HostInv'
<1>1. faults' \in 0..MaxFaults
  BY SamplingAssumption DEF HostExits, HostInv, HostTypeOK
<1> QED
  BY <1>1, HostLetsGo DEF HostExits

LEMMA HostCutOffKeeps ==
  ASSUME HostInv, NEW h \in Host, HostCutOff(h)
  PROVE  HostInv'
<1> USE SamplingAssumption DEF HostCutOff
<1>1. faults' \in 0..MaxFaults
  BY DEF HostInv, HostTypeOK
<1>2. CASE Abandon(h) /\ UNCHANGED calls
  <2>1. GiveUp(h)
    BY <1>2 DEF GiveUp, Late, HostInv, HostTypeOK
  <2> QED
    BY <1>1, <1>2, <2>1, HostLetsGo
<1>3. CASE at[h] = "recording" /\ Send(h, "skip", now[h]) /\ Go(h, "releasing")
           /\ UNCHANGED <<bag, now, strayed>>
  <2>1. PICK c \in Call :
        /\ calls[c].step = "none"
        /\ calls' = [calls EXCEPT ![c] = Request("skip", h, now[h])]
    BY <1>3 DEF Send, Free
  <2>2. now[h] \in bag[h] /\ now[h] \in Event /\ now' = [now EXCEPT ![h] = now[h]]
    BY <1>3 DEF HostInv, HostsInv, NowInBag, HostTypeOK
  <2>3. "releasing" \in At
    BY DEF At
  <2>4. /\ calls' \in [Call -> Requests] /\ calls'[c] = Request("skip", h, now[h])
        /\ \A b \in Call : b # c =>
             calls'[b] = (IF calls[b].by = h THEN Late(calls[b]) ELSE calls[b])
        /\ \A b \in Call : calls[b].by = h => Records(b)
    BY <1>3, <2>1, <2>2, IdleHostSends
  <2> QED
    BY <1>1, <1>3, <2>1, <2>2, <2>3, <2>4, HostSends DEF Go
<1> QED
  BY <1>2, <1>3

LEMMA HostTimeoutKeeps ==
  ASSUME HostInv, NEW h \in Host, HostTimeout(h)
  PROVE  HostInv'
<1> USE SamplingAssumption DEF HostTimeout
<1>1. faults' \in 0..MaxFaults /\ UNCHANGED vars
  BY DEF HostInv, HostTypeOK
<1>2. CASE GiveUp(h) /\ Abandon(h)
  BY <1>1, <1>2, HostLetsGo
<1>3. CASE at[h] = "recording" /\ ~ (GiveUp(h) /\ Abandon(h))
  <2>1. PICK c \in Call :
        /\ calls[c].step = "none"
        /\ calls' = [b \in Call |->
              IF b = c THEN Request("read", h, now[h])
              ELSE IF calls[b].by = h THEN Late(calls[b])
              ELSE calls[b]]
        /\ at' = [at EXCEPT ![h] = "releasing"]
        /\ UNCHANGED <<bag, now, strayed>>
    BY <1>3 DEF Free, Go
  <2>2. now[h] \in bag[h] /\ now[h] \in Event /\ now' = [now EXCEPT ![h] = now[h]]
    BY <1>3, <2>1 DEF HostInv, HostsInv, NowInBag, HostTypeOK
  <2>3. \A b \in Call : calls[b].by = h => Records(b)
    BY <1>3 DEF HostInv, HostsInv, CallOfHost
  <2>4. "releasing" \in At /\ Request("read", h, now[h]) \in Requests
    BY <2>2, StoreAssumption DEF At, Request, Requests, CallStep
  <2>5. /\ calls' \in [Call -> Requests] /\ calls'[c] = Request("read", h, now[h])
        /\ \A b \in Call : b # c =>
             calls'[b] = (IF calls[b].by = h THEN Late(calls[b]) ELSE calls[b])
    BY <2>1, <2>4 DEF HostInv, HostTypeOK, Requests, Late
  <2> HIDE DEF HostTimeout
  <2> QED
    BY <1>1, <2>1, <2>2, <2>3, <2>4, <2>5, HostSends
<1> QED
  BY <1>2, <1>3

LEMMA HostStepKeeps ==
  ASSUME HostInv, NEW h \in Host, HostStep(h)
  PROVE  HostInv'
BY HostClaimKeeps, HostSampleKeeps, HostTimeoutKeeps, HostCutOffKeeps, HostExitsKeeps
DEF HostStep

-----------------------------------------------------------------------------
(* The daemon's handlers. *)

\* What the handlers leave alone: the drains.
LEMMA HandlersSpareDrains ==
  ASSUME DrainsInv, UNCHANGED drainVars
  PROVE  /\ DrainsInv' /\ \A d \in Drainer : Held(d)' = Held(d)
         /\ todo' = todo /\ pc' = pc /\ cur' = cur /\ pruned' = pruned /\ orphaned' = orphaned
<1> USE DEF drainVars
<1>1. DrainsInv'
  BY DEF DrainsInv, LockHeld, IdleEmpty, CurInTodo, SeenLow
<1>2. \A d \in Drainer : Held(d)' = Held(d)
  BY DEF Held
<1> QED
  BY <1>1, <1>2

\* A handler passes an await: the request stays about the same event, for the same host.
LEMMA CallMoves ==
  ASSUME HostInv, NEW c \in Call, NEW r \in Requests,
         UNCHANGED <<at, bag, now, strayed, faults>>, UNCHANGED drainVars,
         calls' = [calls EXCEPT ![c] = r], r.by = calls[c].by, r.ev = calls[c].ev,
         \/ Records(c) /\ r.step \in {"embed", "put", "mark"}
            /\ (status[r.ev] = "absent" \/ r.ev \in summaries' \cup pruned)
         \/ Releases(c) /\ r.step = "write" /\ r.seen < MaxAttempts,
         UNCHANGED <<nextId, status, attempts>>, summaries \subseteq summaries', TypeOK'
  PROVE  HostInv'
<1> USE DEF HostInv
<1>1. DrainsInv' /\ (\A d \in Drainer : Held(d)' = Held(d))
      /\ todo' = todo /\ pc' = pc /\ cur' = cur /\ pruned' = pruned /\ orphaned' = orphaned
  BY HandlersSpareDrains
<1>2. calls'[c] = r /\ \A b \in Call : b # c => calls'[b] = calls[b]
  BY DEF HostTypeOK
<1>3. HostTypeOK'
  BY DEF HostTypeOK
<1>4. \A b \in Call : /\ calls'[b].by = calls[b].by /\ calls'[b].ev = calls[b].ev
                      /\ Records(b)' = Records(b) /\ Releases(b)' = Releases(b)
                      /\ calls'[b].step = "claim" <=> calls[b].step = "claim"
  BY <1>2 DEF Records, Releases
<1>5. HostsInv'
  <2>1. BagAtWork' /\ NowInBag' /\ OneCall'
    BY <1>4 DEF HostsInv, BagAtWork, NowInBag, OneCall
  <2>2. CallOfHost' /\ CallCaptured'
    BY <1>4 DEF HostsInv, CallOfHost, CallCaptured
  <2>3. CallSeenLow'
    BY <1>2 DEF HostsInv, CallSeenLow
  <2> QED
    BY <2>1, <2>2, <2>3 DEF HostsInv
<1>6. HandsInv'
  BY <1>1, <1>4, HandsKept DEF Loose, HostTypeOK, TypeOK, StoreTypeOK
<1>7. Recorded' /\ CallRecorded'
  BY <1>1, <1>2 DEF Recorded, CallRecorded
<1>8. Uncaptured' /\ AbsentFresh' /\ SummarizedIsBacked' /\ AttemptsLeft'
  BY <1>1 DEF Uncaptured, AbsentFresh, SummarizedIsBacked, AttemptsLeft, WithStatus
<1>9. ClaimsTraced'
  BY <1>1, TracedNow, TracedNext
<1> QED
  BY <1>1, <1>3, <1>5, <1>6, <1>7, <1>8, <1>9

\* A handler is done with the event of its request and answers: the host that still waits
\* goes on to its next event.
LEMMA CallEnds ==
  ASSUME HostInv, NEW c \in Call, Records(c) \/ Releases(c), EndCall(c),
         IF calls[c].by = None THEN UNCHANGED <<at, bag, now>> ELSE NextEvent(calls[c].by),
         faults' = faults, UNCHANGED drainVars, UNCHANGED <<nextId, summaries>>,
         TypeOK', AbsentFresh', SummarizedIsBacked', AttemptsLeft',
         \A e \in Event : e # calls[c].ev => status'[e] = status[e] /\ attempts'[e] = attempts[e],
         status[calls[c].ev] = "absent" => status'[calls[c].ev] = "absent",
         strayed' \in SUBSET Event, strayed \subseteq strayed',
         status'[calls[c].ev] = "claimed" =>
            \/ calls[c].ev \in strayed'
            \/ calls[c].by = None /\ status[calls[c].ev] = "claimed",
         Records(c) /\ calls[c].by = None =>
            /\ status'[calls[c].ev] \in {status[calls[c].ev], "summarized"}
            /\ attempts'[calls[c].ev] = attempts[calls[c].ev]
  PROVE  HostInv'
<1> DEFINE ev == calls[c].ev
           h == calls[c].by
<1> USE DEF HostInv
<1>1. DrainsInv' /\ (\A d \in Drainer : Held(d)' = Held(d))
      /\ todo' = todo /\ pc' = pc /\ cur' = cur /\ pruned' = pruned /\ orphaned' = orphaned
  BY HandlersSpareDrains
<1>2. calls'[c] = NoCall /\ \A b \in Call : b # c => calls'[b] = calls[b]
  BY DEF EndCall, HostTypeOK
<1>3. ev \in 1..(nextId - 1) /\ ev \in Event /\ h \in Host \cup {None}
  BY StoreAssumption
  DEF HostsInv, CallCaptured, HostTypeOK, Requests, TypeOK, StoreTypeOK, Event
<1>4. h # None => now[h] = ev /\ ev \in bag[h]
  BY <1>3 DEF HostsInv, CallOfHost, NowInBag, Records, Releases
<1>5. \A g \in Host : bag'[g] = IF g = h THEN bag[g] \ {ev} ELSE bag[g]
  <2>1. CASE h = None
    BY <2>1, SamplingAssumption
  <2>2. CASE h # None
    <3>1. bag' = [bag EXCEPT ![h] = @ \ {ev}] /\ h \in Host
      BY <1>3, <1>4, <2>2 DEF NextEvent
    <3> QED
      BY <3>1 DEF HostTypeOK
  <2> QED
    BY <2>1, <2>2
<1>6. \A g \in Host : g # h => at'[g] = at[g] /\ now'[g] = now[g]
  BY <1>3 DEF NextEvent, Go, HostTypeOK
<1>7. h # None => at'[h] = IF bag[h] \subseteq {ev} THEN "idle" ELSE "next"
  BY <1>3, <1>4 DEF NextEvent, Go, HostTypeOK
<1>8. HostTypeOK'
  <2>1. calls' \in [Call -> Requests]
    BY StoreAssumption DEF EndCall, NoCall, Request, Requests, CallStep, HostTypeOK
  <2>2. at' \in [Host -> At] /\ bag' \in [Host -> SUBSET Event]
        /\ now' \in [Host -> Event \cup {None}]
    BY <1>3 DEF NextEvent, Go, At, HostTypeOK
  <2> QED
    BY <2>1, <2>2 DEF HostTypeOK
<1>9. HostsInv'
  <2>1. BagAtWork'
    BY <1>3, <1>5, <1>6, <1>7, SamplingAssumption DEF HostsInv, BagAtWork
  <2>2. NowInBag'
    BY <1>3, <1>5, <1>6, <1>7, SamplingAssumption DEF HostsInv, NowInBag
  <2>3. OneCall'
    BY <1>2 DEF HostsInv, OneCall, NoCall, Request
  <2>4. CallOfHost'
    <3>1. SUFFICES ASSUME NEW b \in Call, calls'[b].by # None
          PROVE  \/ calls'[b].step = "claim" /\ at'[calls'[b].by] = "claiming"
                 \/ Records(b)' /\ at'[calls'[b].by] = "recording" /\ calls'[b].ev = now'[calls'[b].by]
                 \/ Releases(b)' /\ at'[calls'[b].by] = "releasing" /\ calls'[b].ev = now'[calls'[b].by]
      BY DEF CallOfHost
    <3>2. b # c /\ calls'[b] = calls[b]
      BY <1>2, <3>1 DEF NoCall, Request
    <3>3. calls[b].by \in Host /\ calls[b].by # h
      BY <3>1, <3>2 DEF HostsInv, OneCall, HostTypeOK, Requests
    <3> QED
      BY <1>6, <3>1, <3>2, <3>3 DEF HostsInv, CallOfHost, Records, Releases
  <2>5. CallCaptured' /\ CallSeenLow'
    BY <1>2 DEF HostsInv, CallCaptured, CallSeenLow, Records, Releases, NoCall, Request
  <2> QED
    BY <2>1, <2>2, <2>3, <2>4, <2>5 DEF HostsInv
<1>10. \A b \in Call : Loose(b)' => b # c /\ Loose(b) /\ calls'[b].ev = calls[b].ev
  BY <1>2 DEF Loose, Releases, NoCall, Request
<1>11. ASSUME NEW e \in Event, InHand(e)', e = ev
       PROVE  Records(c) /\ h = None
  <2>1. SUFFICES ASSUME ~ (Records(c) /\ h = None)
        PROVE  FALSE
    OBVIOUS
  <2>2. h # None \/ Loose(c)
    BY <2>1 DEF Loose
  <2>3. \A d \in Drainer : ev \notin todo'[d]
    BY <1>1, <1>3, <1>4, <2>2 DEF HandsInv, BagsApart, LooseApart
  <2>4. \A g \in Host : ev \notin bag'[g]
    BY <1>3, <1>4, <1>5, <2>2, SamplingAssumption DEF HandsInv, BagsApart, LooseApart
  <2>5. \A b \in Call : Loose(b)' => calls'[b].ev # ev
    BY <1>3, <1>4, <1>10, <2>2 DEF HandsInv, LooseApart
  <2> QED
    BY <1>11, <2>3, <2>4, <2>5 DEF InHand
<1>12. HandsInv'
  <2>1. \A e \in Event : InHand(e)' =>
           /\ status'[e] \in {status[e], "summarized", "absent"}
           /\ attempts'[e] \in {attempts[e], 0}
    BY <1>11
  <2> QED
    <3>1. \A g \in Host : bag'[g] \subseteq bag[g]
      BY <1>5
    <3>2. nextId' \in Nat /\ nextId <= nextId'
      BY DEF HostTypeOK, TypeOK, StoreTypeOK
    <3> QED
      BY <1>1, <1>10, <2>1, <3>1, <3>2, HandsKept
<1>13. Recorded' /\ CallRecorded'
  <2>1. \A e \in 1..(nextId - 1) : status[e] = "absent" => status'[e] = "absent"
    BY StoreAssumption DEF HostTypeOK, TypeOK, StoreTypeOK, Event
  <2>2. \A b \in Call : calls'[b].step \in {"embed", "put", "mark"} =>
           calls[b].step \in {"embed", "put", "mark"} /\ calls'[b].ev = calls[b].ev
    BY <1>2 DEF NoCall, Request
  <2> QED
    BY <1>1, <2>1, <2>2, RecordedKept DEF DrainsInv, HostsInv, HandsInv
<1>14. Uncaptured'
  BY <1>3 DEF Uncaptured
<1>15. ClaimsTraced'
  <2>1. SUFFICES ASSUME NEW e \in Event, status'[e] = "claimed"
                 PROVE  \/ e \in orphaned' \cup strayed'
                        \/ \E d \in Drainer : e \in Held(d)'
                        \/ \E g \in Host : e \in bag'[g]
    BY TracedNext
  <2>2. CASE e \in strayed'
    BY <2>2
  <2>3. CASE e \notin strayed'
    <3>1. status[e] = "claimed" /\ (e # ev \/ h = None)
      BY <2>1, <2>3
    <3>2. (e \in orphaned) \/ (\E d \in Drainer : e \in Held(d)) \/ (\E g \in Host : e \in bag[g])
      BY <2>3, <3>1, TracedNow
    <3> QED
      BY <1>1, <1>5, <3>1, <3>2, SamplingAssumption
  <2> QED
    BY <2>2, <2>3
<1> QED
  BY <1>1, <1>8, <1>9, <1>12, <1>13, <1>14, <1>15

\* The type of what the handlers write.
LEMMA HandlersType ==
  ASSUME HostInv, UNCHANGED drainVars, StoreTypeOK'
  PROVE  TypeOK'
BY DEF HostInv, HostTypeOK, TypeOK, drainVars

LEMMA CallRecordKeeps ==
  ASSUME HostInv, NEW c \in Call, CallRecord(c)
  PROVE  HostInv'
<1> USE DEF HostInv, CallRecord
<1>1. Records(c) /\ calls[c] \in Requests
  BY DEF Records, HostTypeOK
<1>2. calls[c].ev \in Event
  BY <1>1, StoreAssumption
  DEF HostsInv, CallCaptured, HostTypeOK, TypeOK, StoreTypeOK, Event
<1>3. CASE InsertSummary(calls[c].ev) /\ UNCHANGED <<at, bag, now, strayed, faults>>
  <2>1. PICK s \in Event : calls' = [calls EXCEPT ![c].step = "embed", ![c].rid = s]
    BY <1>2, <1>3 DEF AnswerFailed, InsertSummary, Rows
  <2> DEFINE r == [calls[c] EXCEPT !.step = "embed", !.rid = s]
  <2>2. r \in Requests /\ r.by = calls[c].by /\ r.ev = calls[c].ev /\ r.step = "embed"
    BY <1>1 DEF Requests, CallStep
  <2>3. calls' = [calls EXCEPT ![c] = r]
    BY <2>1
  <2> HIDE DEF r
  <2>4. TypeOK'
    BY <1>2, <1>3, HandlersType DEF InsertSummary, HostTypeOK, TypeOK, StoreTypeOK
  <2> QED
    BY <1>1, <1>3, <2>2, <2>3, <2>4, CallMoves DEF InsertSummary
<1>4. CASE AnswerFailed(c) /\ UNCHANGED storeVars
  <2>1. TypeOK' /\ AbsentFresh' /\ SummarizedIsBacked' /\ AttemptsLeft'
    BY <1>4, HandlersType
    DEF storeVars, drainVars, HostTypeOK, TypeOK, StoreTypeOK, AbsentFresh, SummarizedIsBacked,
        AttemptsLeft, WithStatus
  <2>2. strayed' \in SUBSET Event /\ strayed \subseteq strayed'
        /\ (calls[c].by # None => calls[c].ev \in strayed')
    BY <1>2, <1>4 DEF AnswerFailed, HostTypeOK
  <2>3. EndCall(c) /\ faults' = faults
        /\ IF calls[c].by = None THEN UNCHANGED <<at, bag, now>> ELSE NextEvent(calls[c].by)
    BY <1>4 DEF AnswerFailed
  <2>4. UNCHANGED storeVars /\ UNCHANGED drainVars
    BY <1>4
  <2> HIDE DEF CallRecord
  <2> QED
    BY <1>1, <2>1, <2>2, <2>3, <2>4, CallEnds DEF storeVars
<1> QED
  BY <1>3, <1>4

LEMMA CallEmbedKeeps ==
  ASSUME HostInv, NEW c \in Call, CallEmbed(c)
  PROVE  HostInv'
<1> USE DEF HostInv, CallEmbed
<1>1. Records(c) /\ calls[c] \in Requests
  BY DEF Records, HostTypeOK
<1>2. calls[c].ev \in Event
  BY <1>1, StoreAssumption
  DEF HostsInv, CallCaptured, HostTypeOK, TypeOK, StoreTypeOK, Event
<1>3. UNCHANGED storeVars /\ UNCHANGED drainVars
  BY DEF vars
<1>4. TypeOK' /\ AbsentFresh' /\ SummarizedIsBacked' /\ AttemptsLeft'
  BY <1>3, HandlersType
  DEF storeVars, drainVars, HostTypeOK, TypeOK, StoreTypeOK, AbsentFresh, SummarizedIsBacked,
      AttemptsLeft, WithStatus
<1>5. CASE StepCall(c, "put") /\ UNCHANGED <<at, bag, now, strayed, faults>>
  <2> DEFINE r == [calls[c] EXCEPT !.step = "put"]
  <2>1. r \in Requests /\ r.by = calls[c].by /\ r.ev = calls[c].ev /\ r.step = "put"
    BY <1>1 DEF Requests, CallStep
  <2>2. calls' = [calls EXCEPT ![c] = r]
    BY <1>5 DEF StepCall
  <2>3. status[r.ev] = "absent" \/ r.ev \in summaries' \cup pruned
    BY <1>3, <2>1 DEF CallRecorded, storeVars
  <2> HIDE DEF r
  <2> QED
    BY <1>1, <1>3, <1>4, <1>5, <2>1, <2>2, <2>3, CallMoves DEF storeVars
<1>6. CASE AnswerFailed(c)
  <2>1. strayed' \in SUBSET Event /\ strayed \subseteq strayed'
        /\ (calls[c].by # None => calls[c].ev \in strayed')
    BY <1>2, <1>6 DEF AnswerFailed, HostTypeOK
  <2>2. EndCall(c) /\ faults' = faults
        /\ IF calls[c].by = None THEN UNCHANGED <<at, bag, now>> ELSE NextEvent(calls[c].by)
    BY <1>6 DEF AnswerFailed
  <2> HIDE DEF CallEmbed
  <2> QED
    BY <1>1, <1>3, <1>4, <2>1, <2>2, CallEnds DEF storeVars
<1> QED
  BY <1>5, <1>6

LEMMA CallPutKeeps ==
  ASSUME HostInv, NEW c \in Call, CallPut(c)
  PROVE  HostInv'
<1> USE DEF HostInv, CallPut
<1>1. Records(c) /\ calls[c] \in Requests
  BY DEF Records, HostTypeOK
<1>2. calls[c].ev \in Event
  BY <1>1, StoreAssumption
  DEF HostsInv, CallCaptured, HostTypeOK, TypeOK, StoreTypeOK, Event
<1>3. UNCHANGED drainVars /\ UNCHANGED <<nextId, status, attempts, summaries>>
  BY DEF PutVector, storeVars
<1>4. TypeOK' /\ AbsentFresh' /\ SummarizedIsBacked' /\ AttemptsLeft'
  <2>1. StoreTypeOK'
    BY <1>2 DEF PutVector, storeVars, HostTypeOK, TypeOK, StoreTypeOK
  <2> QED
    BY <1>3, <2>1, HandlersType
    DEF drainVars, AbsentFresh, SummarizedIsBacked, AttemptsLeft, WithStatus
<1>5. CASE StepCall(c, "mark") /\ UNCHANGED <<at, bag, now, strayed, faults>>
  <2> DEFINE r == [calls[c] EXCEPT !.step = "mark"]
  <2>1. r \in Requests /\ r.by = calls[c].by /\ r.ev = calls[c].ev /\ r.step = "mark"
    BY <1>1 DEF Requests, CallStep
  <2>2. calls' = [calls EXCEPT ![c] = r]
    BY <1>5 DEF StepCall
  <2>3. status[r.ev] = "absent" \/ r.ev \in summaries' \cup pruned
    BY <1>3, <2>1 DEF CallRecorded
  <2> HIDE DEF r
  <2> QED
    BY <1>1, <1>3, <1>4, <1>5, <2>1, <2>2, <2>3, CallMoves
<1>6. CASE AnswerFailed(c)
  <2>1. strayed' \in SUBSET Event /\ strayed \subseteq strayed'
        /\ (calls[c].by # None => calls[c].ev \in strayed')
    BY <1>2, <1>6 DEF AnswerFailed, HostTypeOK
  <2>2. EndCall(c) /\ faults' = faults
        /\ IF calls[c].by = None THEN UNCHANGED <<at, bag, now>> ELSE NextEvent(calls[c].by)
    BY <1>6 DEF AnswerFailed
  <2> HIDE DEF CallPut
  <2> QED
    BY <1>1, <1>3, <1>4, <2>1, <2>2, CallEnds
<1> QED
  BY <1>5, <1>6

LEMMA CallMarkKeeps ==
  ASSUME HostInv, NEW c \in Call, CallMark(c)
  PROVE  HostInv'
<1> USE DEF HostInv, CallMark, SetStatus
<1>1. Records(c)
  BY DEF Records
<1>2. calls[c].ev \in Event
  BY <1>1, StoreAssumption
  DEF HostsInv, CallCaptured, HostTypeOK, TypeOK, StoreTypeOK, Event
<1>3. \A e \in Event : status'[e] =
        IF e = calls[c].ev /\ status[e] # "absent" THEN "summarized" ELSE status[e]
  BY DEF StatusSet, Rows
<1>4. StoreTypeOK'
  BY DEF StatusSet, Status, HostTypeOK, TypeOK, StoreTypeOK
<1>5. UNCHANGED drainVars /\ UNCHANGED <<nextId, attempts, summaries>>
  OBVIOUS
<1>6. TypeOK' /\ AbsentFresh' /\ AttemptsLeft'
  BY <1>3, <1>4, <1>5, HandlersType DEF AbsentFresh, AttemptsLeft, WithStatus
<1>7. SummarizedIsBacked'
  BY <1>3, <1>5 DEF SummarizedIsBacked, CallRecorded, WithStatus, drainVars
<1>8. EndCall(c) /\ faults' = faults /\ strayed' = strayed
      /\ IF calls[c].by = None THEN UNCHANGED <<at, bag, now>> ELSE NextEvent(calls[c].by)
  BY DEF AnswerSettled
<1>9. strayed \in SUBSET Event
  BY DEF HostTypeOK
<1>10. status'[calls[c].ev] = "claimed" => status[calls[c].ev] = "absent"
  BY <1>2, <1>3
<1> HIDE DEF CallMark
<1> QED
  BY <1>1, <1>2, <1>3, <1>5, <1>6, <1>7, <1>8, <1>9, <1>10, CallEnds

\* A release that is answered: skipped, or raw again.
LEMMA CallReleases ==
  ASSUME HostInv, NEW c \in Call, Releases(c), NEW s \in {"raw", "skipped"},
         status' = StatusSet({calls[c].ev}, s), UNCHANGED <<nextId, summaries>>,
         \A e \in Event : e # calls[c].ev => attempts'[e] = attempts[e],
         AnswerSettled(c), UNCHANGED drainVars, TypeOK', AbsentFresh', AttemptsLeft'
  PROVE  HostInv'
<1> USE DEF HostInv
<1>1. calls[c].ev \in Event
  BY StoreAssumption DEF HostsInv, CallCaptured, HostTypeOK, TypeOK, StoreTypeOK, Event
<1>2. \A e \in Event : status'[e] =
        IF e = calls[c].ev /\ status[e] # "absent" THEN s ELSE status[e]
  BY DEF StatusSet, Rows
<1>3. SummarizedIsBacked'
  BY <1>2 DEF SummarizedIsBacked, WithStatus, drainVars
<1>4. EndCall(c) /\ faults' = faults /\ strayed' = strayed
      /\ IF calls[c].by = None THEN UNCHANGED <<at, bag, now>> ELSE NextEvent(calls[c].by)
  BY DEF AnswerSettled
<1>5. strayed \in SUBSET Event /\ ~ Records(c)
  BY DEF HostTypeOK, Records, Releases
<1>6. status'[calls[c].ev] # "claimed"
  BY <1>1, <1>2
<1> QED
  BY <1>1, <1>2, <1>3, <1>4, <1>5, <1>6, CallEnds

LEMMA CallSkipKeeps ==
  ASSUME HostInv, NEW c \in Call, CallSkip(c)
  PROVE  HostInv'
<1> USE DEF HostInv, CallSkip, SetStatus
<1>1. Releases(c)
  BY DEF Releases
<1>2. \A e \in Event : status'[e] =
        IF e = calls[c].ev /\ status[e] # "absent" THEN "skipped" ELSE status[e]
  BY DEF StatusSet, Rows
<1>3. StoreTypeOK'
  BY DEF StatusSet, Status, HostTypeOK, TypeOK, StoreTypeOK
<1>4. UNCHANGED drainVars /\ UNCHANGED <<nextId, attempts, summaries>>
  OBVIOUS
<1>5. TypeOK' /\ AbsentFresh' /\ AttemptsLeft'
  BY <1>2, <1>3, <1>4, HandlersType DEF AbsentFresh, AttemptsLeft, WithStatus
<1>6. status' = StatusSet({calls[c].ev}, "skipped") /\ AnswerSettled(c)
  OBVIOUS
<1> HIDE DEF CallSkip
<1> QED
  BY <1>1, <1>4, <1>5, <1>6, CallReleases

LEMMA CallReadKeeps ==
  ASSUME HostInv, NEW c \in Call, CallRead(c)
  PROVE  HostInv'
<1> USE DEF HostInv, CallRead
<1>1. Releases(c) /\ calls[c] \in Requests
  BY DEF Releases, HostTypeOK
<1>2. calls[c].ev \in Event /\ InHand(calls[c].ev)
  <2>1. calls[c].ev \in Event
    BY <1>1, StoreAssumption DEF HostsInv, CallCaptured, HostTypeOK, TypeOK, StoreTypeOK, Event
  <2>2. calls[c].by # None => calls[c].by \in Host /\ calls[c].ev \in bag[calls[c].by]
    BY <1>1 DEF HostsInv, CallOfHost, NowInBag, Requests, Releases, Records
  <2> QED
    BY <1>1, <2>1, <2>2 DEF InHand, Loose
<1>3. attempts[calls[c].ev] < MaxAttempts /\ attempts[calls[c].ev] \in 0..MaxAttempts
  BY <1>2 DEF HandsInv, HandsAttempts, HostTypeOK, TypeOK, StoreTypeOK
<1> DEFINE r == [calls[c] EXCEPT !.step = "write", !.seen = attempts[calls[c].ev]]
<1>4. r \in Requests /\ r.by = calls[c].by /\ r.ev = calls[c].ev /\ r.step = "write"
      /\ r.seen < MaxAttempts
  BY <1>1, <1>3 DEF Requests, CallStep
<1>5. calls' = [calls EXCEPT ![c] = r]
  OBVIOUS
<1> HIDE DEF r
<1>6. UNCHANGED storeVars /\ UNCHANGED drainVars
  BY DEF vars
<1>7. TypeOK'
  BY <1>6, HandlersType DEF storeVars, HostTypeOK, TypeOK, StoreTypeOK
<1> QED
  BY <1>1, <1>4, <1>5, <1>6, <1>7, CallMoves DEF storeVars

LEMMA CallWriteKeeps ==
  ASSUME HostInv, NEW c \in Call, CallWrite(c)
  PROVE  HostInv'
<1> USE StoreAssumption DEF HostInv, CallWrite, WriteRelease
<1> DEFINE to == IF calls[c].seen + 1 >= MaxAttempts THEN "skipped" ELSE "raw"
<1>1. Releases(c)
  BY DEF Releases
<1>2. calls[c].ev \in Event
  BY <1>1 DEF HostsInv, CallCaptured, HostTypeOK, TypeOK, StoreTypeOK, Event
<1>3. calls[c].seen \in Nat /\ calls[c].seen + 1 \in 0..MaxAttempts
  BY DEF HostsInv, CallSeenLow, HostTypeOK, Requests
<1>4. to \in {"raw", "skipped"} /\ status' = StatusSet({calls[c].ev}, to)
      /\ (to = "raw" => calls[c].seen + 1 < MaxAttempts)
  BY <1>3
<1> HIDE DEF to
<1>5. \A e \in Event : status'[e] =
        IF e = calls[c].ev /\ status[e] # "absent" THEN to ELSE status[e]
  BY <1>4 DEF StatusSet, Rows
<1>6. \A e \in Event : attempts'[e] =
        IF e = calls[c].ev /\ status[e] # "absent" THEN calls[c].seen + 1 ELSE attempts[e]
  BY <1>2 DEF Rows, HostTypeOK, TypeOK, StoreTypeOK
<1>7. StoreTypeOK'
  BY <1>2, <1>3, <1>4 DEF StatusSet, Status, HostTypeOK, TypeOK, StoreTypeOK
<1>8. UNCHANGED drainVars /\ UNCHANGED <<nextId, summaries>> /\ AnswerSettled(c)
  OBVIOUS
<1> HIDE DEF CallWrite, WriteRelease
<1>9. TypeOK'
  BY <1>7, <1>8, HandlersType
<1>10. AbsentFresh'
  BY <1>4, <1>5, <1>6 DEF AbsentFresh
<1>11. AttemptsLeft'
  BY <1>4, <1>5, <1>6 DEF AttemptsLeft, WithStatus
<1> QED
  BY <1>1, <1>4, <1>6, <1>8, <1>9, <1>10, <1>11, CallReleases

\* A claim, at a moment when nobody is inside the claim transaction: what it takes is in
\* nobody's hands, and then in the host's, or, when the host has given up, in nobody's.
LEMMA CallClaimKeeps ==
  ASSUME HostInv, NEW c \in Call, CallClaim(c)
  PROVE  HostInv'
<1> DEFINE h == calls[c].by
<1> USE SamplingAssumption DEF HostInv
<1>1. PICK S \in SUBSET WithStatus("raw") :
        /\ SetStatus(S, "claimed")
        /\ IF h = None THEN strayed' = strayed \cup S /\ UNCHANGED <<at, bag>>
           ELSE /\ bag' = [bag EXCEPT ![h] = S]
                /\ at' = [at EXCEPT ![h] = IF S = {} THEN "idle" ELSE "next"]
                /\ UNCHANGED strayed
  BY DEF CallClaim, Oldest, Go
<1>2. calls[c].step = "claim" /\ lock = None /\ EndCall(c)
      /\ UNCHANGED drainVars /\ now' = now /\ faults' = faults
  BY DEF CallClaim
<1>3. UNCHANGED <<nextId, attempts, summaries>>
  BY <1>1 DEF SetStatus
<1>4. \A e \in S : e \in Event /\ status[e] = "raw" /\ ~ InHand(e)
  BY <1>2, DrainAssumption DEF WithStatus, HandsInv, HandsStatus, DrainsInv, LockHeld
<1>5. \A e \in Event : status'[e] = IF e \in S THEN "claimed" ELSE status[e]
  BY <1>1, <1>4 DEF SetStatus, StatusSet, Rows
<1>6. DrainsInv' /\ (\A d \in Drainer : Held(d)' = Held(d))
      /\ todo' = todo /\ pc' = pc /\ cur' = cur /\ pruned' = pruned /\ orphaned' = orphaned
  BY <1>2, HandlersSpareDrains
<1>7. calls'[c] = NoCall /\ \A b \in Call : b # c => calls'[b] = calls[b]
  BY <1>2 DEF EndCall, HostTypeOK
<1>8. h # None => h \in Host /\ at[h] = "claiming" /\ bag[h] = {}
  BY <1>2 DEF HostsInv, CallOfHost, BagAtWork, Records, Releases, HostTypeOK, Requests
<1>9. /\ \A g \in Host : g # h => bag'[g] = bag[g] /\ at'[g] = at[g]
      /\ h # None => bag'[h] = S /\ at'[h] = IF S = {} THEN "idle" ELSE "next"
  <2>1. CASE h = None
    BY <1>1, <2>1
  <2>2. CASE h # None
    BY <1>1, <1>8, <2>2 DEF HostTypeOK
  <2> QED
    BY <2>1, <2>2
<1> HIDE DEF h
<1>10. HostTypeOK'
  <2>1. StoreTypeOK'
    BY <1>1 DEF SetStatus, StatusSet, Status, HostTypeOK, TypeOK, StoreTypeOK
  <2>2. calls' \in [Call -> Requests]
    BY <1>2, StoreAssumption DEF EndCall, NoCall, Request, Requests, CallStep, HostTypeOK
  <2>3. S \subseteq Event
    BY <1>4
  <2>4. at' \in [Host -> At] /\ bag' \in [Host -> SUBSET Event] /\ strayed' \in SUBSET Event
    <3>1. CASE h = None
      BY <1>1, <2>3, <3>1 DEF HostTypeOK
    <3>2. CASE h # None
      BY <1>1, <2>3, <3>2 DEF HostTypeOK, At
    <3> QED
      BY <3>1, <3>2
  <2> QED
    BY <1>2, <2>1, <2>2, <2>4, HandlersType DEF HostTypeOK
<1>11. HostsInv'
  <2>1. BagAtWork' /\ NowInBag'
    BY <1>2, <1>8, <1>9 DEF HostsInv, BagAtWork, NowInBag
  <2>2. OneCall'
    BY <1>7 DEF HostsInv, OneCall, NoCall, Request
  <2>3. CallOfHost'
    <3>1. SUFFICES ASSUME NEW b \in Call, calls'[b].by # None
          PROVE  \/ calls'[b].step = "claim" /\ at'[calls'[b].by] = "claiming"
                 \/ Records(b)' /\ at'[calls'[b].by] = "recording" /\ calls'[b].ev = now'[calls'[b].by]
                 \/ Releases(b)' /\ at'[calls'[b].by] = "releasing" /\ calls'[b].ev = now'[calls'[b].by]
      BY DEF CallOfHost
    <3>2. b # c /\ calls'[b] = calls[b]
      BY <1>7, <3>1 DEF NoCall, Request
    <3>3. calls[b].by \in Host /\ calls[b].by # h
      BY <3>1, <3>2 DEF h, HostsInv, OneCall, HostTypeOK, Requests
    <3> QED
      BY <1>2, <1>9, <3>1, <3>2, <3>3 DEF HostsInv, CallOfHost, Records, Releases
  <2>4. CallCaptured' /\ CallSeenLow'
    BY <1>3, <1>7 DEF HostsInv, CallCaptured, CallSeenLow, Records, Releases, NoCall, Request
  <2> QED
    BY <2>1, <2>2, <2>3, <2>4 DEF HostsInv
<1>12. \A b \in Call : Loose(b)' => Loose(b) /\ calls'[b].ev = calls[b].ev
  BY <1>7 DEF Loose, Releases, NoCall, Request
<1>13. \A e \in Event : InHand(e)' => (e \in S) \/ InHand(e)
  BY <1>6, <1>8, <1>9, <1>12 DEF InHand
<1>14. HandsInv'
  <2>1. TodoDisjoint'
    BY <1>6 DEF HandsInv, TodoDisjoint
  <2>2. BagsApart'
    <3>1. \A g \in Host : \A e \in S : e \notin bag[g]
      BY <1>4 DEF InHand
    <3>2. \A d \in Drainer : \A e \in S : e \notin todo[d]
      BY <1>4 DEF InHand
    <3> QED
      BY <1>6, <1>9, <3>1, <3>2 DEF HandsInv, BagsApart
  <2>3. LooseApart'
    <3>1. \A b \in Call : Loose(b) => calls[b].ev \notin S
      BY <1>4 DEF InHand
    <3>2. SUFFICES ASSUME NEW b \in Call, Loose(b)'
          PROVE  /\ \A d \in Drainer : calls'[b].ev \notin todo'[d]
                 /\ \A g \in Host : calls'[b].ev \notin bag'[g]
                 /\ \A a \in Call : Loose(a)' /\ calls'[a].ev = calls'[b].ev => a = b
      BY DEF LooseApart
    <3>3. Loose(b) /\ calls'[b].ev = calls[b].ev
      BY <1>12, <3>2
    <3> QED
      BY <1>6, <1>9, <1>12, <3>1, <3>3 DEF HandsInv, LooseApart
  <2>4. HandsCaptured'
    BY <1>3, <1>4, <1>13, StoreAssumption
    DEF HandsInv, HandsCaptured, Uncaptured, HostTypeOK, TypeOK, StoreTypeOK, Event
  <2>5. HandsStatus'
    <3>1. \A e \in Event : InHand(e) => status[e] \in {"claimed", "summarized", "absent"}
      BY <1>2, DrainAssumption DEF HandsInv, HandsStatus, DrainsInv, LockHeld
    <3> QED
      BY <1>5, <1>13, <3>1 DEF HandsStatus
  <2>6. HandsAttempts'
    BY <1>3, <1>4, <1>13 DEF HandsInv, HandsAttempts, AttemptsLeft, WithStatus
  <2> QED
    BY <2>1, <2>2, <2>3, <2>4, <2>5, <2>6 DEF HandsInv
<1>15. Recorded' /\ CallRecorded'
  <2>1. \A e \in 1..(nextId - 1) : status[e] = "absent" => status'[e] = "absent"
    BY <1>4, <1>5, StoreAssumption DEF HostTypeOK, TypeOK, StoreTypeOK, Event
  <2>2. \A b \in Call : calls'[b].step \in {"embed", "put", "mark"} =>
           calls[b].step \in {"embed", "put", "mark"} /\ calls'[b].ev = calls[b].ev
    BY <1>7 DEF NoCall, Request
  <2> QED
    BY <1>3, <1>6, <2>1, <2>2, RecordedKept DEF DrainsInv, HostsInv, HandsInv
<1>16. Uncaptured' /\ AbsentFresh' /\ SummarizedIsBacked' /\ AttemptsLeft'
  BY <1>3, <1>4, <1>5, <1>6
  DEF Uncaptured, AbsentFresh, SummarizedIsBacked, AttemptsLeft, WithStatus
<1>17. ClaimsTraced'
  <2>1. strayed \subseteq strayed' /\ (h = None => S \subseteq strayed')
    BY <1>1 DEF h
  <2>2. \A g \in Host : bag[g] \subseteq bag'[g]
    BY <1>8, <1>9
  <2>3. h # None => h \in Host /\ bag'[h] = S
    BY <1>8, <1>9
  <2> QED
    BY <1>5, <1>6, <2>1, <2>2, <2>3, TracedNow, TracedNext
<1> QED
  BY <1>6, <1>10, <1>11, <1>14, <1>15, <1>16, <1>17

LEMMA HandlerStepKeeps ==
  ASSUME HostInv, NEW c \in Call, HandlerStep(c)
  PROVE  HostInv'
BY CallClaimKeeps, CallRecordKeeps, CallEmbedKeeps, CallPutKeeps, CallMarkKeeps,
   CallSkipKeeps, CallReadKeeps, CallWriteKeeps DEF HandlerStep

LEMMA HostNextKeeps ==
  ASSUME HostInv, [HostNext]_allVars
  PROVE  HostInv'
<1>1. CASE \E h \in Host : HostStep(h)
  BY <1>1, HostStepKeeps
<1>2. CASE \E c \in Call : HandlerStep(c)
  BY <1>2, HandlerStepKeeps
<1>3. CASE DaemonStops
  <2>1. Daemon \in Procs /\ Stop(Daemon)
    BY <1>3, DrainAssumption DEF DaemonStops
  <2>2. calls' = [c \in Call |-> NoCall] /\ UNCHANGED <<at, bag, now, strayed, faults>>
    BY <1>3 DEF DaemonStops
  <2> QED
    BY <2>1, <2>2, StopBesideHosts
<1>4. CASE OtherStep
  BY <1>4, OtherStepKeeps
<1>5. CASE UNCHANGED allVars
  BY <1>5, NothingMoves
<1> QED
  BY <1>1, <1>2, <1>3, <1>4, <1>5 DEF HostNext

\* The strengthened invariant holds in every behaviour of drains and hosts together,
\* however many there are and however many of their requests come late, are cut off or
\* outlive the host that sent them.
THEOREM HostInvariance == HostSpec => []HostInv
<1>1. HostInit => HostInv
  BY InitHostInv
<1>2. HostInv /\ [HostNext]_allVars => HostInv'
  BY HostNextKeeps
<1> QED
  BY <1>1, <1>2, PTL DEF HostSpec

\* Every variable of the drains and of the hosts keeps its type (drainViaSampling and the
\* three handlers it calls).
THEOREM HostTypes == HostSpec => []HostTypeOK
<1>1. HostInv => HostTypeOK
  BY DEF HostInv
<1> QED
  BY <1>1, HostInvariance, PTL

\* No event is in the hands of two hosts, of two drains, or of a host and a drain, whatever
\* comes late (claimPending behind claim_for_summary, record_summary and release_summary).
THEOREM HostsNeverShare == HostSpec => []HostsExclusive
<1>1. HostInv => HostsExclusive
  BY DEF HostInv, HandsInv, TodoDisjoint, BagsApart, HostsExclusive, ClaimExclusive, Held
<1> QED
  BY <1>1, HostInvariance, PTL

\* A claimed event is in somebody's hands, or was lost sight of in one of the ways the
\* history variables name (drainViaSampling's exceptions, answers that come late).
THEOREM HostClaimsTraced == HostSpec => []ClaimsTraced
<1>1. HostInv => ClaimsTraced
  BY DEF HostInv
<1> QED
  BY <1>1, HostInvariance, PTL

\* What DrainWorkers promises of summaries and attempts survives the hosts: no late
\* record_summary marks an event that has no summary, and no late release_summary puts an
\* event in the queue whose attempts are used up.
THEOREM HostsKeepPromises == HostSpec => [](SummarizedIsBacked /\ AttemptsLeft)
<1>1. HostInv => SummarizedIsBacked /\ AttemptsLeft
  BY DEF HostInv
<1> QED
  BY <1>1, HostInvariance, PTL
=============================================================================
