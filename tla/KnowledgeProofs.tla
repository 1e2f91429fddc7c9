--------------------------- MODULE KnowledgeProofs ----------------------------
(***************************************************************************)
(* What is read out of the store while others write to it, for every       *)
(* number of rows and requests: export and import, the provenance graph,   *)
(* the search.                                                             *)
(***************************************************************************)
EXTENDS Transfer, Provenance, Search, Induction, FiniteSetTheorems, TLAPS

-------------------------------------------------------------------------------
(* Export and import. TransferInv is inductive: a listing holds the rows of   *)
(* the table as it was when it was read (SnapshotInOrder), the two stores     *)
(* agree on what a row with a common id is (Agrees, IdsAgree), and what an    *)
(* import has passed is there (PassedIsThere).                                *)

\* What a row of a store stands for.
LEMMA RowsAre ==
  ASSUME NEW s, NEW r
  PROVE  r \in RowsOf(s) <=>
           \/ \E i \in DOMAIN events[s] : r = [in |-> "events", id |-> i, row |-> events[s][i]]
           \/ \E i \in DOMAIN summaries[s] :
                 r = [in |-> "summaries", id |-> i, row |-> summaries[s][i]]
           \/ \E m \in marks[s] : r = [in |-> "supersedes", id |-> m, row |-> TRUE]
  BY DEF RowsOf

\* A store that keeps its rows as they are and gets others holds what it held.
Grows(s) ==
  /\ \A i \in DOMAIN events[s] : i \in DOMAIN events'[s] /\ events'[s][i] = events[s][i]
  /\ \A i \in DOMAIN summaries[s] : i \in DOMAIN summaries'[s] /\ summaries'[s][i] = summaries[s][i]
  /\ marks[s] \subseteq marks'[s]

LEMMA RowsGrow ==
  ASSUME NEW s \in Store, Grows(s)
  PROVE  RowsOf(s) \subseteq RowsOf(s)'
<1> SUFFICES ASSUME NEW r \in RowsOf(s) PROVE r \in RowsOf(s)'
  OBVIOUS
<1>1. CASE \E i \in DOMAIN events[s] : r = [in |-> "events", id |-> i, row |-> events[s][i]]
  BY <1>1 DEF Grows, RowsOf
<1>2. CASE \E i \in DOMAIN summaries[s] :
              r = [in |-> "summaries", id |-> i, row |-> summaries[s][i]]
  BY <1>2 DEF Grows, RowsOf
<1>3. CASE \E m \in marks[s] : r = [in |-> "supersedes", id |-> m, row |-> TRUE]
  BY <1>3 DEF Grows, RowsOf
<1> QED
  BY <1>1, <1>2, <1>3, RowsAre

LEMMA RowsTyped ==
  ASSUME NEW r \in TableRow
  PROVE  /\ r.in = "events" => r.id \in Nat \ {0} /\ r.row \in Store
         /\ r.in = "summaries" => r.id \in Nat \ {0} /\ r.row \in Summary
         /\ r.in = "supersedes" => r.id \in Nat \X Nat /\ r.row = TRUE
  BY DEF TableRow

LEMMA ExportedTyped ==
  ASSUME TransferTypeOK, NEW r \in Exported
  PROVE  r \in TableRow /\ (r.in \in {"events", "summaries"} => r.id \in Nat)
<1>1. PICK n \in 1..Len(snapshot) : r = snapshot[n]
  BY DEF Exported
<1>2. snapshot[n] \in TableRow
  BY DEF TransferTypeOK
<1> QED
  BY <1>1, <1>2, RowsTyped

LEMMA InitTransferInv == TransferInit => TransferInv
<1> SUFFICES ASSUME TransferInit PROVE TransferInv
  OBVIOUS
<1>1. "here" \in Store /\ \A s \in Store : DOMAIN events[s] = {} /\ DOMAIN summaries[s] = {}
  BY DEF TransferInit, None, Store
<1>2. Len(snapshot) = 0 /\ Exported = {} /\ snapshot \in Seq(TableRow)
  BY DEF TransferInit, Exported
<1>3. TransferTypeOK
  <2>1. DOMAIN events = Store /\ DOMAIN summaries = Store /\ DOMAIN marks = Store
    BY DEF TransferInit
  <2>2. lastEvent \in [Store -> Nat] /\ lastSummary \in [Store -> Nat]
    BY DEF TransferInit
  <2>3. mixed \in BOOLEAN
    BY DEF TransferInit
  <2> QED
    <3>1. table \in 0..4 /\ target \in Store
      BY <1>1 DEF TransferInit
    <3>2. reached \in Nat /\ pass \in Nat
      BY DEF TransferInit
    <3> QED
      BY <1>2, <2>1, <2>2, <2>3, <3>1, <3>2 DEF TransferTypeOK
<1>4. IdsGiven
  BY <1>1 DEF IdsGiven, TransferInit
<1>5. SnapshotInOrder
  BY <1>2 DEF TransferInit, SnapshotInOrder
<1>6. IdsAgree
  BY <1>1, <1>2 DEF IdsAgree, Agrees, Store
<1>7. FoundStays /\ PassedIsThere
  BY DEF TransferInit, FoundStays, PassedIsThere
<1> QED
  BY <1>3, <1>4, <1>5, <1>6, <1>7 DEF TransferInv

\* What a handler does in one store while the snapshot stands: ids are given out in turn, and
\* nothing goes but by a deletion.
Writes(s) ==
  /\ DOMAIN events' = Store /\ DOMAIN summaries' = Store /\ DOMAIN marks' = Store
  /\ marks'[s] \subseteq (1..lastSummary'[s]) \X (1..lastSummary'[s])
  /\ lastEvent' \in [Store -> Nat] /\ lastSummary' \in [Store -> Nat]
  /\ lastEvent[s] <= lastEvent'[s] /\ lastSummary[s] <= lastSummary'[s]
  /\ \A x \in Store \ {s} :
        /\ events'[x] = events[x] /\ summaries'[x] = summaries[x] /\ marks'[x] = marks[x]
        /\ lastEvent'[x] = lastEvent[x] /\ lastSummary'[x] = lastSummary[x]
  /\ \A i \in DOMAIN events'[s] :
        \/ i \in DOMAIN events[s] /\ events'[s][i] = events[s][i]
        \/ i \in Nat /\ i > lastEvent[s] /\ i <= lastEvent'[s] /\ events'[s][i] \in Store
           /\ (s = "there" => mixed')
  /\ \A i \in DOMAIN summaries'[s] :
        \/ i \in DOMAIN summaries[s] /\ summaries'[s][i] = summaries[s][i]
        \/ i \in Nat /\ i > lastSummary[s] /\ i <= lastSummary'[s] /\ summaries'[s][i] \in Summary
           /\ (s = "there" => mixed')
  /\ mixed' \in BOOLEAN /\ (mixed => mixed')
  /\ deleted \subseteq deleted'

LEMMA WriteStep ==
  ASSUME TransferInv, NEW s \in Store, Writes(s), Writable(s),
         Grows(s) \/ pass = 0 \/ RowsOf(target) \subseteq RowsOf(target)' \cup deleted',
         UNCHANGED <<table, snapshot, target, reached, pass, counted, found>>
  PROVE  TransferInv'
<1>0. /\ TransferTypeOK /\ IdsGiven /\ SnapshotInOrder /\ IdsAgree /\ FoundStays /\ PassedIsThere
      /\ "here" \in Store /\ "there" \in Store
  BY DEF TransferInv, Store
<1>1. TransferTypeOK'
  BY <1>0 DEF TransferTypeOK, Writes
<1>2. IdsGiven'
  <2>1. ASSUME NEW x \in Store, NEW i \in DOMAIN events'[x]
        PROVE  i \in 1..lastEvent'[x] /\ events'[x][i] \in Store
    <3>1. CASE x = s
      <4>1. lastEvent[s] \in Nat /\ lastEvent'[s] \in Nat /\ lastEvent[s] <= lastEvent'[s]
        BY <1>0, <1>1 DEF Writes, TransferTypeOK
      <4>2. CASE i \in DOMAIN events[s] /\ events'[s][i] = events[s][i]
        BY <1>0, <3>1, <4>1, <4>2 DEF IdsGiven
      <4> QED
        BY <3>1, <4>1, <4>2 DEF Writes
    <3>2. CASE x # s
      BY <1>0, <3>2 DEF IdsGiven, Writes
    <3> QED
      BY <3>1, <3>2
  <2>2. ASSUME NEW x \in Store, NEW i \in DOMAIN summaries'[x]
        PROVE  i \in 1..lastSummary'[x] /\ summaries'[x][i] \in Summary
    <3>1. CASE x = s
      <4>1. /\ lastSummary[s] \in Nat /\ lastSummary'[s] \in Nat
            /\ lastSummary[s] <= lastSummary'[s]
        BY <1>0, <1>1 DEF Writes, TransferTypeOK
      <4>2. CASE i \in DOMAIN summaries[s] /\ summaries'[s][i] = summaries[s][i]
        BY <1>0, <3>1, <4>1, <4>2 DEF IdsGiven
      <4> QED
        BY <3>1, <4>1, <4>2 DEF Writes
    <3>2. CASE x # s
      BY <1>0, <3>2 DEF IdsGiven, Writes
    <3> QED
      BY <3>1, <3>2
  <2>3. \A x \in Store : marks'[x] \subseteq (1..lastSummary'[x]) \X (1..lastSummary'[x])
    BY <1>0 DEF IdsGiven, Writes
  <2> QED
    BY <2>1, <2>2, <2>3 DEF IdsGiven
<1>3. Exported' = Exported /\ Closed' = Closed
  BY DEF Exported, Closed, ExportedEvents
<1>4. SnapshotInOrder'
  BY <1>0, <1>3 DEF SnapshotInOrder
<1>5. \A r \in Exported : r.in \in {"events", "summaries"} => r.id \in Nat
  BY <1>0, ExportedTyped
<1>6. IdsAgree'
  <2>1. ASSUME NEW r \in Exported
        PROVE  /\ r.in = "events" => r.id <= lastEvent'["here"]
               /\ r.in = "summaries" => r.id <= lastSummary'["here"]
    <3>1. /\ lastEvent["here"] \in Nat /\ lastEvent'["here"] \in Nat
          /\ lastSummary["here"] \in Nat /\ lastSummary'["here"] \in Nat
      BY <1>0, <1>1 DEF TransferTypeOK
    <3>2. lastEvent["here"] <= lastEvent'["here"] /\ lastSummary["here"] <= lastSummary'["here"]
      BY <1>0, <3>1 DEF Writes
    <3> QED
      BY <1>0, <1>5, <3>1, <3>2 DEF IdsAgree
  <2>2. ASSUME NEW r \in Exported
        PROVE  /\ r.in = "events" /\ r.id \in DOMAIN events'["here"] => events'["here"][r.id] = r.row
               /\ r.in = "summaries" /\ r.id \in DOMAIN summaries'["here"] =>
                     summaries'["here"][r.id] = r.row
    <3>1. CASE s = "here"
      <4>1. /\ r.in = "events" => r.id \in Nat /\ r.id <= lastEvent[s]
            /\ r.in = "summaries" => r.id \in Nat /\ r.id <= lastSummary[s]
            /\ lastEvent[s] \in Nat /\ lastSummary[s] \in Nat
        BY <1>0, <1>5, <3>1 DEF IdsAgree, TransferTypeOK
      <4>2. ASSUME r.in = "events", r.id \in DOMAIN events'[s]
            PROVE  r.id \in DOMAIN events[s] /\ events'[s][r.id] = events[s][r.id]
        BY <4>1, <4>2 DEF Writes
      <4>3. ASSUME r.in = "summaries", r.id \in DOMAIN summaries'[s]
            PROVE  r.id \in DOMAIN summaries[s] /\ summaries'[s][r.id] = summaries[s][r.id]
        BY <4>1, <4>3 DEF Writes
      <4> QED
        BY <1>0, <3>1, <4>2, <4>3 DEF IdsAgree, Agrees
    <3>2. CASE s # "here"
      BY <1>0, <3>2 DEF IdsAgree, Agrees, Writes
    <3> QED
      BY <3>1, <3>2
  <2>3. ASSUME ~mixed'
        PROVE  /\ \A i \in DOMAIN events'["there"] :
                     i \in DOMAIN events["there"] /\ events'["there"][i] = events["there"][i]
               /\ \A i \in DOMAIN summaries'["there"] :
                     i \in DOMAIN summaries["there"] /\ summaries'["there"][i] = summaries["there"][i]
    BY <1>0, <2>3 DEF Writes
  <2>4. ASSUME ~mixed'
        PROVE  /\ \A r \in Exported :
                    /\ r.in = "events" /\ r.id \in DOMAIN events'["there"] =>
                          events'["there"][r.id] = r.row
                    /\ r.in = "summaries" /\ r.id \in DOMAIN summaries'["there"] =>
                          summaries'["there"][r.id] = r.row
               /\ table < 4 => DOMAIN events'["there"] = {} /\ DOMAIN summaries'["there"] = {}
    <3>1. ~mixed
      BY <2>4 DEF Writes
    <3> QED
      BY <1>0, <2>3, <2>4, <3>1 DEF IdsAgree, Agrees
  <2> QED
    BY <1>3, <2>1, <2>2, <2>4 DEF IdsAgree, Agrees
<1>7. ASSUME pass > 0
      PROVE  RowsOf(target) \subseteq RowsOf(target)' \cup deleted'
  <2>1. table = 4 /\ s = target
    BY <1>0, <1>7 DEF SnapshotInOrder, TransferTypeOK, Writable
  <2>2. CASE Grows(s)
    BY <2>1, <2>2, RowsGrow
  <2> QED
    BY <1>7, <2>2
<1>8. FoundStays'
  <2>1. pass > 0 => found \subseteq RowsOf(target) \cup deleted
    BY <1>0 DEF FoundStays
  <2>2. deleted \subseteq deleted'
    BY DEF Writes
  <2> QED
    BY <1>7, <2>1, <2>2 DEF FoundStays
<1>9. PassedIsThere'
  <2> SUFFICES ASSUME ~mixed', deleted' = {}, pass > 0, NEW n \in 1..Len(snapshot),
                      reached = 0 \/ n < reached, snapshot[n] \in Closed
               PROVE  snapshot[n] \in RowsOf(target)'
    BY <1>3 DEF PassedIsThere
  <2> QED
    BY <1>0, <1>7 DEF PassedIsThere, Writes
<1> QED
  BY <1>1, <1>2, <1>4, <1>6, <1>8, <1>9 DEF TransferInv

LEMMA WriteActions ==
  ASSUME TransferInv, NEW s \in Store,
         RecordEvent(s) \/ RecordSummary(s) \/ RecordSupersedes(s)
         \/ DeleteEvent(s) \/ PruneSuperseded(s)
  PROVE  TransferInv'
<1>0. TransferTypeOK /\ IdsGiven /\ SnapshotInOrder
  BY DEF TransferInv
<1>1. CASE RecordEvent(s)
  <2> DEFINE i == lastEvent[s] + 1
  <2>1. /\ events' = [events EXCEPT ![s] = With(events[s], i, s)]
        /\ lastEvent' = [lastEvent EXCEPT ![s] = i]
        /\ UNCHANGED <<summaries, marks, lastSummary>>
    BY <1>1 DEF RecordEvent
  <2>2. i \in Nat /\ i > lastEvent[s] /\ lastEvent[s] \in Nat /\ i \notin DOMAIN events[s]
    BY <1>0 DEF TransferTypeOK, IdsGiven
  <2> HIDE DEF i
  <2>3. /\ DOMAIN events'[s] = DOMAIN events[s] \cup {i} /\ events'[s][i] = s
        /\ \A x \in DOMAIN events[s] : events'[s][x] = events[s][x]
        /\ \A x \in Store \ {s} : events'[x] = events[x]
        /\ DOMAIN events' = Store
    <3>1. /\ events'[s] = With(events[s], i, s) /\ DOMAIN events' = Store
          /\ \A x \in Store \ {s} : events'[x] = events[x]
      BY <1>0, <2>1 DEF TransferTypeOK
    <3> QED
      <4>1. /\ DOMAIN With(events[s], i, s) = DOMAIN events[s] \cup {i}
            /\ With(events[s], i, s)[i] = s
            /\ \A x \in DOMAIN events[s] \ {i} : With(events[s], i, s)[x] = events[s][x]
        BY DEF With
      <4> QED
        BY <2>2, <3>1, <4>1
  <2>4. mixed' \in BOOLEAN /\ (mixed => mixed') /\ (s = "there" => mixed')
    BY <1>1 DEF RecordEvent
  <2>5. Writes(s)
    BY <1>0, <1>1, <2>1, <2>2, <2>3, <2>4 DEF Writes, TransferTypeOK, IdsGiven, RecordEvent
  <2>6. Grows(s)
    BY <2>1, <2>3 DEF Grows
  <2> QED
    BY <1>1, <2>5, <2>6, WriteStep DEF RecordEvent
<1>2. CASE RecordSummary(s)
  <2> DEFINE i == lastSummary[s] + 1
  <2>1. PICK e \in DOMAIN events[s] :
           summaries' = [summaries EXCEPT ![s] =
                           With(summaries[s], i, [of |-> s, event |-> e, about |-> events[s][e]])]
    BY <1>2 DEF RecordSummary
  <2>2. /\ lastSummary' = [lastSummary EXCEPT ![s] = i]
        /\ UNCHANGED <<events, marks, lastEvent>>
    BY <1>2 DEF RecordSummary
  <2>3. i \in Nat /\ i > lastSummary[s] /\ lastSummary[s] \in Nat /\ i \notin DOMAIN summaries[s]
    BY <1>0 DEF TransferTypeOK, IdsGiven
  <2> HIDE DEF i
  <2>4. [of |-> s, event |-> e, about |-> events[s][e]] \in Summary
    BY <1>0 DEF IdsGiven, Summary
  <2>5. /\ DOMAIN summaries'[s] = DOMAIN summaries[s] \cup {i} /\ summaries'[s][i] \in Summary
        /\ \A x \in DOMAIN summaries[s] : summaries'[s][x] = summaries[s][x]
        /\ \A x \in Store \ {s} : summaries'[x] = summaries[x]
        /\ DOMAIN summaries' = Store
    <3> DEFINE v == [of |-> s, event |-> e, about |-> events[s][e]]
    <3>1. /\ summaries'[s] = With(summaries[s], i, v) /\ DOMAIN summaries' = Store
          /\ \A x \in Store \ {s} : summaries'[x] = summaries[x]
      BY <1>0, <2>1 DEF TransferTypeOK
    <3> HIDE DEF v
    <3>2. v \in Summary
      BY <2>4 DEF v
    <3> QED
      <4>1. /\ DOMAIN With(summaries[s], i, v) = DOMAIN summaries[s] \cup {i}
            /\ With(summaries[s], i, v)[i] = v
            /\ \A x \in DOMAIN summaries[s] \ {i} :
                  With(summaries[s], i, v)[x] = summaries[s][x]
        BY DEF With
      <4> QED
        BY <2>3, <3>1, <3>2, <4>1
  <2>6. mixed' \in BOOLEAN /\ (mixed => mixed') /\ (s = "there" => mixed')
    BY <1>2 DEF RecordSummary
  <2>7. Writes(s)
    BY <1>0, <1>2, <2>2, <2>3, <2>5, <2>6 DEF Writes, TransferTypeOK, IdsGiven, RecordSummary
  <2>8. Grows(s)
    BY <2>2, <2>5 DEF Grows
  <2> QED
    BY <1>2, <2>7, <2>8, WriteStep DEF RecordSummary
<1>3. CASE RecordSupersedes(s)
  <2>1. PICK newer, older \in DOMAIN summaries[s] :
           marks' = [marks EXCEPT ![s] = marks[s] \cup {<<newer, older>>}]
    BY <1>3 DEF RecordSupersedes
  <2>2. <<newer, older>> \in (1..lastSummary[s]) \X (1..lastSummary[s])
    BY <1>0 DEF IdsGiven, TransferTypeOK
  <2>3. DOMAIN marks' = Store /\ marks[s] \subseteq marks'[s]
        /\ marks'[s] \subseteq (1..lastSummary[s]) \X (1..lastSummary[s])
        /\ \A x \in Store \ {s} : marks'[x] = marks[x]
    BY <1>0, <2>1, <2>2 DEF TransferTypeOK, IdsGiven
  <2>4. Writes(s) /\ Grows(s)
    BY <1>0, <1>3, <2>3 DEF Writes, Grows, TransferTypeOK, RecordSupersedes
  <2> QED
    BY <1>3, <2>4, WriteStep DEF RecordSupersedes
<1>4. ASSUME NEW E, NEW S, DeleteRows(s, E, S)
      PROVE  TransferInv'
  <2>1. /\ events' = [events EXCEPT ![s] = Without(events[s], E)]
        /\ summaries' = [summaries EXCEPT ![s] = Without(summaries[s], S)]
        /\ marks' = [marks EXCEPT ![s] = {m \in marks[s] : {m[1], m[2]} \cap S = {}}]
        /\ deleted' = IF table > 0 /\ s = target THEN deleted \cup (RowsOf(s) \ RowsOf(s)') ELSE deleted
    BY <1>4 DEF DeleteRows
  <2>2. /\ DOMAIN events' = Store
        /\ \A x \in Store \ {s} : events'[x] = events[x]
        /\ \A i \in DOMAIN events'[s] : i \in DOMAIN events[s] /\ events'[s][i] = events[s][i]
    BY <1>0, <2>1 DEF TransferTypeOK, Without
  <2>3. /\ DOMAIN summaries' = Store
        /\ \A x \in Store \ {s} : summaries'[x] = summaries[x]
        /\ \A i \in DOMAIN summaries'[s] : i \in DOMAIN summaries[s]
                                          /\ summaries'[s][i] = summaries[s][i]
    BY <1>0, <2>1 DEF TransferTypeOK, Without
  <2>4. /\ DOMAIN marks' = Store /\ marks'[s] \subseteq (1..lastSummary[s]) \X (1..lastSummary[s])
        /\ \A x \in Store \ {s} : marks'[x] = marks[x]
    BY <1>0, <2>1 DEF TransferTypeOK, IdsGiven
  <2>5. deleted \subseteq deleted' /\ (pass = 0 \/ RowsOf(target) \subseteq RowsOf(target)' \cup deleted')
    <3>1. CASE table > 0 /\ s = target
      <4>1. deleted' = deleted \cup (RowsOf(s) \ RowsOf(s)')
        BY <2>1, <3>1
      <4>2. target' = target
        BY <1>4 DEF DeleteRows
      <4>3. RowsOf(target)' = RowsOf(s)'
        BY <3>1, <4>2 DEF RowsOf
      <4> QED
        BY <3>1, <4>1, <4>3
    <3>2. CASE ~(table > 0 /\ s = target)
      BY <1>0, <1>4, <2>1, <3>2 DEF DeleteRows, Writable, SnapshotInOrder, TransferTypeOK
    <3> QED
      BY <3>1, <3>2
  <2>6. Writes(s)
    <3>1. UNCHANGED <<lastEvent, lastSummary, mixed>>
      BY <1>4 DEF DeleteRows
    <3>2. lastEvent[s] \in Nat /\ lastSummary[s] \in Nat
      BY <1>0 DEF TransferTypeOK
    <3> QED
      BY <1>0, <2>2, <2>3, <2>4, <2>5, <3>1, <3>2 DEF Writes, TransferTypeOK
  <2> QED
    BY <1>4, <2>5, <2>6, WriteStep DEF DeleteRows
<1>5. CASE DeleteEvent(s)
  BY <1>4, <1>5 DEF DeleteEvent
<1>6. CASE PruneSuperseded(s)
  BY <1>4, <1>6 DEF PruneSuperseded
<1> QED
  BY <1>1, <1>2, <1>3, <1>5, <1>6

\* The rows a store holds are rows of its tables.
LEMMA RowsOfTables ==
  ASSUME TransferTypeOK, IdsGiven, NEW s \in Store
  PROVE  RowsOf(s) \subseteq TableRow
<1> SUFFICES ASSUME NEW r \in RowsOf(s) PROVE r \in TableRow
  OBVIOUS
<1>1. CASE \E i \in DOMAIN events[s] : r = [in |-> "events", id |-> i, row |-> events[s][i]]
  BY <1>1 DEF IdsGiven, TransferTypeOK, TableRow
<1>2. CASE \E i \in DOMAIN summaries[s] :
              r = [in |-> "summaries", id |-> i, row |-> summaries[s][i]]
  BY <1>2 DEF IdsGiven, TransferTypeOK, TableRow
<1>3. CASE \E m \in marks[s] : r = [in |-> "supersedes", id |-> m, row |-> TRUE]
  BY <1>3 DEF IdsGiven, TransferTypeOK, TableRow
<1> QED
  BY <1>1, <1>2, <1>3, RowsAre

\* A row is told by its table and key, and stands for what the store has under them.
LEMMA RowsKeyed ==
  ASSUME NEW s, NEW r \in RowsOf(s)
  PROVE  /\ r.in = "events" => r.id \in DOMAIN events[s] /\ r.row = events[s][r.id]
         /\ r.in = "summaries" => r.id \in DOMAIN summaries[s] /\ r.row = summaries[s][r.id]
         /\ \A q \in RowsOf(s) : q.in = r.in /\ q.id = r.id => q = r
<1>1. \A q \in RowsOf(s) :
        \/ q.in = "events" /\ q.id \in DOMAIN events[s]
           /\ q = [in |-> "events", id |-> q.id, row |-> events[s][q.id]]
        \/ q.in = "summaries" /\ q.id \in DOMAIN summaries[s]
           /\ q = [in |-> "summaries", id |-> q.id, row |-> summaries[s][q.id]]
        \/ q.in = "supersedes" /\ q = [in |-> "supersedes", id |-> q.id, row |-> TRUE]
  BY RowsAre
<1>2. r.in = "events" => r.id \in DOMAIN events[s] /\ r.row = events[s][r.id]
  BY <1>1
<1>3. r.in = "summaries" => r.id \in DOMAIN summaries[s] /\ r.row = summaries[s][r.id]
  BY <1>1
<1>4. ASSUME NEW q \in RowsOf(s), q.in = r.in, q.id = r.id
      PROVE  q = r
  BY <1>1, <1>4
<1> QED
  BY <1>2, <1>3, <1>4

LEMMA TablesFinite ==
  ASSUME TransferTypeOK, IdsGiven, NEW s \in Store
  PROVE  IsFiniteSet(RowsOf(s))
<1> DEFINE L == lastSummary[s]
<1> DEFINE K == (1..lastEvent[s]) \cup (1..L) \cup ((1..L) \X (1..L))
<1> DEFINE key == [r \in RowsOf(s) |-> <<r.in, r.id>>]
<1> DEFINE Keys == {"events", "summaries", "supersedes"} \X K
<1>1. lastEvent[s] \in Nat /\ L \in Nat
  BY DEF TransferTypeOK
<1>2. IsFiniteSet(1..lastEvent[s]) /\ IsFiniteSet(1..L)
  <2>1. \A n \in Nat : IsFiniteSet(1..n)
    BY FS_Interval
  <2> QED
    BY <1>1, <2>1
<1>3. IsFiniteSet((1..L) \X (1..L))
  BY <1>2, FS_Product
<1>4. IsFiniteSet(K)
  <2>1. IsFiniteSet((1..lastEvent[s]) \cup (1..L))
    BY <1>2, FS_Union
  <2> QED
    BY <1>3, <2>1, FS_Union
<1>5. IsFiniteSet({"events", "summaries", "supersedes"})
  <2>1. IsFiniteSet({"events"}) /\ IsFiniteSet({"summaries"}) /\ IsFiniteSet({"supersedes"})
    BY FS_Singleton
  <2>2. IsFiniteSet({"events"} \cup {"summaries"})
    BY <2>1, FS_Union
  <2>3. IsFiniteSet({"events"} \cup {"summaries"} \cup {"supersedes"})
    BY <2>1, <2>2, FS_Union
  <2>4. {"events"} \cup {"summaries"} \cup {"supersedes"} = {"events", "summaries", "supersedes"}
    OBVIOUS
  <2> QED
    BY <2>3, <2>4
<1>6. IsFiniteSet(Keys)
  BY <1>4, <1>5, FS_Product
<1>7. \A r \in RowsOf(s) : r.in \in {"events", "summaries", "supersedes"} /\ r.id \in K
  BY RowsAre DEF IdsGiven
<1>8. key \in Injection(RowsOf(s), Keys)
  <2>1. key \in [RowsOf(s) -> Keys]
    BY <1>7
  <2>2. ASSUME NEW q \in RowsOf(s), NEW r \in RowsOf(s), key[q] = key[r]
        PROVE  q = r
    <3>1. q.in = r.in /\ q.id = r.id
      BY <2>2
    <3> QED
      BY <3>1, RowsKeyed
  <2> QED
    BY <2>1, <2>2 DEF Injection, IsInjective
<1> QED
  BY <1>6, <1>8, FS_Injection

\* A table is exported behind those before it; until an export ends, neither store has imported.
LEMMA ExportStep ==
  ASSUME TransferInv, ExportTable
  PROVE  TransferInv'
<1>0. /\ TransferTypeOK /\ IdsGiven /\ SnapshotInOrder /\ IdsAgree
      /\ table \in 1..3 /\ table' = table + 1 /\ pass = 0 /\ reached = 0
      /\ "here" \in Store /\ "there" \in Store
      /\ UNCHANGED <<sourceVars, reached, pass, counted, mixed, deleted, found>>
  BY DEF TransferInv, ExportTable, TransferTypeOK, SnapshotInOrder, Store
<1> DEFINE T == {r \in RowsOf("here") : r.in = tables[table]}
<1> DEFINE N == Cardinality(T)
<1>1. PICK rows \in Listing(T) : snapshot' = snapshot \o rows
  BY DEF ExportTable
<1>2. N \in Nat
  <2>1. T \in SUBSET RowsOf("here") /\ IsFiniteSet(RowsOf("here"))
    BY <1>0, TablesFinite
  <2> QED
    BY <2>1, FS_Subset, FS_CardinalityType
<1>3. rows \in [1..N -> T]
  BY <1>1 DEF Listing
<1> HIDE DEF N
<1>4. T \subseteq TableRow
  BY <1>0, RowsOfTables
<1>5. rows \in Seq(TableRow) /\ Len(rows) = N
  BY <1>2, <1>3, <1>4
<1>6. snapshot \in Seq(TableRow) /\ Len(snapshot) \in Nat
  BY <1>0 DEF TransferTypeOK
<1>7. /\ snapshot' \in Seq(TableRow) /\ Len(snapshot') = Len(snapshot) + N
      /\ \A n \in 1..Len(snapshot) : snapshot'[n] = snapshot[n]
      /\ \A n \in Len(snapshot) + 1..Len(snapshot) + N : snapshot'[n] = rows[n - Len(snapshot)]
  BY <1>1, <1>2, <1>5, <1>6
<1>8. \A n \in Len(snapshot) + 1..Len(snapshot) + N : snapshot'[n] \in T
  BY <1>2, <1>3, <1>6, <1>7
<1>9. \A n \in 1..Len(snapshot') : n \in 1..Len(snapshot) \/ n \in Len(snapshot) + 1..Len(snapshot) + N
  BY <1>2, <1>6, <1>7
<1>10. \A r \in Exported' : r \in Exported \/ r \in T
  BY <1>7, <1>8, <1>9 DEF Exported
<1>11. TransferTypeOK'
  <2>1. target' \in Store
    BY <1>0 DEF ExportTable, TransferTypeOK
  <2> QED
    BY <1>0, <1>7, <2>1 DEF TransferTypeOK, sourceVars
<1>12. IdsGiven'
  BY <1>0 DEF IdsGiven, sourceVars
<1>13. SnapshotInOrder'
  <2>1. ASSUME NEW n \in 1..Len(snapshot')
        PROVE  \E j \in 1..3 : j < table' /\ snapshot'[n].in = tables[j]
    <3>1. CASE n \in 1..Len(snapshot)
      BY <1>0, <1>7, <3>1 DEF SnapshotInOrder
    <3>2. CASE n \in Len(snapshot) + 1..Len(snapshot) + N
      BY <1>0, <1>8, <3>2
    <3> QED
      BY <1>9, <3>1, <3>2
  <2>2. tables = <<"events", "summaries", "supersedes">>
    BY DEF tables
  <2>3. ASSUME NEW m \in 1..Len(snapshot'), NEW n \in 1..Len(snapshot'),
               snapshot'[m].in = "events", snapshot'[n].in # "events"
        PROVE  m < n
    <3>1. CASE m \in 1..Len(snapshot) /\ n \in 1..Len(snapshot)
      BY <1>0, <1>7, <2>3, <3>1 DEF SnapshotInOrder
    <3>2. CASE m \in 1..Len(snapshot) /\ n \in Len(snapshot) + 1..Len(snapshot) + N
      BY <1>2, <1>6, <3>2
    <3>3. CASE m \in Len(snapshot) + 1..Len(snapshot) + N
      <4>1. table = 1
        BY <1>0, <1>8, <2>2, <2>3, <3>3
      <4>2. n \notin 1..Len(snapshot)
        BY <1>0, <4>1 DEF SnapshotInOrder
      <4> QED
        BY <1>8, <1>9, <2>2, <2>3, <4>1, <4>2
    <3> QED
      BY <1>9, <3>1, <3>2, <3>3
  <2>4. \A r \in Exported : r.in # tables[table]
    BY <1>0, <2>2 DEF Exported, SnapshotInOrder
  <2>5. ASSUME NEW q \in Exported', NEW r \in Exported', q.in = r.in, q.id = r.id
        PROVE  q = r
    <3>1. CASE q \in Exported /\ r \in Exported
      BY <1>0, <2>5, <3>1 DEF SnapshotInOrder
    <3>2. CASE q \in T /\ r \in T
      BY <2>5, <3>2, RowsKeyed
    <3> QED
      BY <1>10, <2>4, <2>5, <3>1, <3>2
  <2>6. table' < 4 => target' = "here"
    BY <1>0 DEF ExportTable, SnapshotInOrder
  <2> QED
    BY <1>0, <2>1, <2>3, <2>5, <2>6 DEF SnapshotInOrder
<1>14. IdsAgree'
  <2>1. ASSUME NEW r \in T
        PROVE  /\ r.in = "events" => /\ r.id \in DOMAIN events["here"] /\ r.id <= lastEvent["here"]
                                     /\ events["here"][r.id] = r.row
               /\ r.in = "summaries" => /\ r.id \in DOMAIN summaries["here"]
                                        /\ r.id <= lastSummary["here"]
                                        /\ summaries["here"][r.id] = r.row
    BY <1>0, RowsKeyed DEF IdsGiven, TransferTypeOK
  <2>2. ASSUME NEW r \in Exported'
        PROVE  /\ r.in = "events" => r.id <= lastEvent["here"]
               /\ r.in = "summaries" => r.id <= lastSummary["here"]
               /\ r.in = "events" /\ r.id \in DOMAIN events["here"] => events["here"][r.id] = r.row
               /\ r.in = "summaries" /\ r.id \in DOMAIN summaries["here"] =>
                     summaries["here"][r.id] = r.row
    BY <1>0, <1>10, <2>1 DEF IdsAgree, Agrees
  <2>3. ASSUME ~mixed
        PROVE  DOMAIN events["there"] = {} /\ DOMAIN summaries["there"] = {}
    BY <1>0, <2>3 DEF IdsAgree
  <2> QED
    BY <1>0, <2>2, <2>3 DEF IdsAgree, Agrees, sourceVars
<1>15. FoundStays' /\ PassedIsThere'
  BY <1>0 DEF FoundStays, PassedIsThere
<1> QED
  BY <1>11, <1>12, <1>13, <1>14, <1>15 DEF TransferInv

\* A row of the snapshot that a store has under its key is in that store as it was exported.
LEMMA AgreedRow ==
  ASSUME NEW s, Agrees(s), NEW r \in Exported, r.in \in {"events", "summaries"}, r \in TableRow,
         NEW q \in RowsOf(s), q.in = r.in, q.id = r.id
  PROVE  r \in RowsOf(s)
<1>1. CASE r.in = "events"
  <2>1. r.id \in DOMAIN events[s] /\ r.row = events[s][r.id]
    BY <1>1, RowsKeyed DEF Agrees
  <2>2. r = [in |-> "events", id |-> r.id, row |-> r.row]
    BY <1>1 DEF TableRow
  <2> QED
    BY <2>1, <2>2, RowsAre
<1>2. CASE r.in = "summaries"
  <2>1. r.id \in DOMAIN summaries[s] /\ r.row = summaries[s][r.id]
    BY <1>2, RowsKeyed DEF Agrees
  <2>2. r = [in |-> "summaries", id |-> r.id, row |-> r.row]
    BY <1>2 DEF TableRow
  <2> QED
    BY <2>1, <2>2, RowsAre
<1> QED
  BY <1>1, <1>2

\* Where an import stands: the row it has reached is an exported one, and the target has what was
\* exported under its keys unless the other store has rows of its own.
LEMMA ImportState ==
  ASSUME TransferInv, Importing
  PROVE  /\ reached \in Nat /\ reached \in 1..Len(snapshot) /\ Len(snapshot) \in Nat
         /\ table = 4 /\ pass > 0 /\ pass \in Nat /\ target \in Store
         /\ Row = snapshot[reached] /\ Row \in Exported /\ Row \in TableRow
         /\ target = "here" \/ ~mixed => Agrees(target)
<1>1. TransferTypeOK /\ SnapshotInOrder /\ IdsAgree
  BY DEF TransferInv
<1>2. Len(snapshot) \in Nat /\ reached \in 1..Len(snapshot) /\ snapshot[reached] \in TableRow
  BY <1>1 DEF TransferTypeOK, Importing
<1>3. Row = snapshot[reached] /\ Row \in Exported
  BY <1>2 DEF Row, Exported
<1>4. table = 4 /\ pass > 0 /\ pass \in Nat /\ target \in Store
  BY <1>1, <1>2 DEF SnapshotInOrder, TransferTypeOK
<1>5. target = "here" \/ ~mixed => Agrees(target)
  BY <1>1, <1>4 DEF IdsAgree, Store
<1> QED
  BY <1>2, <1>3, <1>4, <1>5

\* An import moves on when the target has the row it leaves behind, if it is one that must be there.
LEMMA ImportMoves ==
  ASSUME TransferInv, Importing, NEW what, Counts(what), Grows(target),
         DOMAIN events' = Store, DOMAIN summaries' = Store, DOMAIN marks' = Store,
         lastEvent' \in [Store -> Nat], lastSummary' \in [Store -> Nat], IdsGiven', IdsAgree',
         ~mixed /\ deleted = {} /\ Row \in Closed => Row \in RowsOf(target)'
  PROVE  TransferInv'
<1>0. /\ TransferTypeOK /\ SnapshotInOrder /\ FoundStays /\ PassedIsThere
      /\ reached \in Nat /\ Row = snapshot[reached] /\ target \in Store /\ pass > 0
      /\ reached \in 1..Len(snapshot)
  BY ImportState DEF TransferInv
<1>1. /\ reached' = reached + 1
      /\ UNCHANGED <<table, snapshot, target, pass, mixed, deleted, found>>
  BY DEF Counts
<1>2. TransferTypeOK'
  BY <1>0, <1>1 DEF TransferTypeOK
<1>3. Exported' = Exported /\ Closed' = Closed
  BY <1>1 DEF Exported, Closed, ExportedEvents
<1>4. SnapshotInOrder'
  <2>1. ~(table < 4)
    BY <1>0 DEF SnapshotInOrder
  <2> QED
    BY <1>0, <1>1, <1>3, <2>1 DEF SnapshotInOrder
<1>5. RowsOf(target) \subseteq RowsOf(target)' /\ target' = target
  BY <1>0, <1>1, RowsGrow
<1>6. FoundStays'
  <2>1. pass > 0 => found \subseteq RowsOf(target) \cup deleted
    BY <1>0 DEF FoundStays
  <2> QED
    BY <1>0, <1>1, <1>5, <2>1 DEF FoundStays, RowsOf
<1>7. PassedIsThere'
  <2> SUFFICES ASSUME ~mixed, deleted = {}, NEW n \in 1..Len(snapshot), n < reached + 1,
                      snapshot[n] \in Closed
               PROVE  snapshot[n] \in RowsOf(target)'
    BY <1>0, <1>1, <1>3 DEF PassedIsThere, RowsOf
  <2>1. CASE n = reached
    BY <1>0, <2>1
  <2>2. CASE n < reached
    BY <1>0, <1>5, <2>2 DEF PassedIsThere
  <2> QED
    BY <1>0, <2>1, <2>2
<1> QED
  BY <1>2, <1>4, <1>6, <1>7 DEF TransferInv

\* A step of the import that inserts nothing.
LEMMA PassStep ==
  ASSUME TransferInv, ImportSkips \/ ImportErrs
  PROVE  TransferInv'
<1>0. /\ TransferTypeOK /\ IdsGiven /\ IdsAgree /\ SnapshotInOrder /\ PassedIsThere /\ Importing
      /\ UNCHANGED sourceVars
  BY DEF TransferInv, ImportSkips, ImportErrs
<1>1. PICK what : Counts(what)
  BY DEF ImportSkips, ImportErrs
<1>2. Grows(target) /\ \A s \in Store : RowsOf(s)' = RowsOf(s)
  BY <1>0 DEF Grows, sourceVars, RowsOf
<1>3. IdsGiven' /\ IdsAgree'
  BY <1>0, <1>1 DEF IdsGiven, IdsAgree, Agrees, Exported, Counts, sourceVars
<1>4. ASSUME ~mixed, deleted = {}, Row \in Closed
      PROVE  Row \in RowsOf(target)
  <2>1. /\ Row \in Exported /\ Row \in TableRow /\ Agrees(target) /\ Row.in \in {"events", "summaries"}
        /\ reached \in 1..Len(snapshot) /\ Row = snapshot[reached] /\ pass > 0 /\ Len(snapshot) \in Nat
        /\ target \in Store
    BY <1>0, <1>4, ImportState DEF Closed
  <2>2. CASE ImportSkips
    <3>1. PICK q \in RowsOf(target) : q.in = Row.in /\ q.id = Row.id
      BY <2>2 DEF ImportSkips, Exists
    <3> QED
      BY <2>1, <3>1, AgreedRow
  <2>3. CASE ImportErrs
    <3>1. Row.in = "summaries" /\ Row.row.event \notin DOMAIN events[target]
      BY <2>1, <2>3 DEF ImportErrs, Refers
    <3>2. Row.row.event \in ExportedEvents
      BY <1>4, <3>1 DEF Closed
    <3>3. PICK m \in 1..Len(snapshot) :
             snapshot[m].in = "events" /\ snapshot[m].id = Row.row.event
      BY <3>2 DEF ExportedEvents, Exported
    <3>4. m < reached
      BY <1>0, <2>1, <3>1, <3>3 DEF SnapshotInOrder
    <3>5. snapshot[m] \in Closed
      BY <3>3 DEF Closed, Exported
    <3>6. snapshot[m] \in RowsOf(target)
      BY <1>0, <1>4, <2>1, <3>4, <3>5 DEF PassedIsThere
    <3>7. snapshot[m].id \in DOMAIN events[target]
      BY <3>3, <3>6, RowsKeyed
    <3> QED
      BY <3>1, <3>3, <3>7
  <2> QED
    BY <2>2, <2>3
<1>5. ~mixed /\ deleted = {} /\ Row \in Closed => Row \in RowsOf(target)'
  <2>1. target \in Store
    BY <1>0 DEF TransferTypeOK
  <2> QED
    BY <1>2, <1>4, <2>1 DEF Counts, RowsOf, sourceVars, ImportSkips, ImportErrs
<1>6. /\ DOMAIN events' = Store /\ DOMAIN summaries' = Store /\ DOMAIN marks' = Store
      /\ lastEvent' \in [Store -> Nat] /\ lastSummary' \in [Store -> Nat]
  BY <1>0 DEF TransferTypeOK, sourceVars
<1> QED
  BY <1>0, <1>1, <1>2, <1>3, <1>5, <1>6, ImportMoves

LEMMA InsertStep ==
  ASSUME TransferInv, ImportInserts
  PROVE  TransferInv'
<1> DEFINE i == Row.id
<1>0. /\ TransferTypeOK /\ IdsGiven /\ IdsAgree /\ SnapshotInOrder /\ Importing
      /\ Counts("inserted") /\ ~Exists(Row) /\ Refers(Row)
      /\ "here" \in Store /\ "there" \in Store
  BY DEF TransferInv, ImportInserts, Store
<1>1. /\ Row \in Exported /\ Row \in TableRow /\ target \in Store /\ table = 4
      /\ UNCHANGED <<table, snapshot, target, pass, mixed, deleted, found>>
      /\ Exported' = Exported
  BY <1>0, ImportState DEF Counts, Exported
<1>2. lastEvent[target] \in Nat /\ lastSummary[target] \in Nat
  BY <1>0, <1>1 DEF TransferTypeOK
<1>3. \A r \in Exported : r.in = Row.in /\ r.id = i => r = Row
  BY <1>0, <1>1 DEF SnapshotInOrder
<1>4. CASE Row.in = "events"
  <2>1. /\ events' = [events EXCEPT ![target] = With(events[target], i, Row.row)]
        /\ lastEvent' = [lastEvent EXCEPT ![target] = Greater(lastEvent[target], i)]
        /\ UNCHANGED <<summaries, marks, lastSummary>>
    BY <1>4 DEF ImportInserts
  <2>2. i \in Nat \ {0} /\ Row.row \in Store /\ Row = [in |-> "events", id |-> i, row |-> Row.row]
    BY <1>1, <1>4 DEF TableRow
  <2>3. i \notin DOMAIN events[target]
    <3>1. ASSUME i \in DOMAIN events[target]
          PROVE  FALSE
      <4>1. [in |-> "events", id |-> i, row |-> events[target][i]] \in RowsOf(target)
        BY <3>1 DEF RowsOf
      <4> QED
        BY <1>0, <1>4, <4>1 DEF Exists
    <3> QED
      BY <3>1
  <2> HIDE DEF i
  <2>4. /\ DOMAIN events' = Store /\ DOMAIN events'[target] = DOMAIN events[target] \cup {i}
        /\ events'[target][i] = Row.row
        /\ \A x \in DOMAIN events[target] : events'[target][x] = events[target][x]
        /\ \A x \in Store \ {target} : events'[x] = events[x]
    <3> DEFINE v == Row.row
    <3> HIDE DEF v
    <3>1. events' = [events EXCEPT ![target] = With(events[target], i, v)]
      BY <2>1 DEF v
    <3>2. /\ DOMAIN With(events[target], i, v) = DOMAIN events[target] \cup {i}
          /\ With(events[target], i, v)[i] = v
          /\ \A x \in DOMAIN events[target] \ {i} : With(events[target], i, v)[x] = events[target][x]
      BY DEF With
    <3>3. /\ DOMAIN events' = Store /\ events'[target] = With(events[target], i, v)
          /\ \A x \in Store \ {target} : events'[x] = events[x]
      BY <1>0, <1>1, <3>1 DEF TransferTypeOK
    <3> QED
      BY <2>3, <3>2, <3>3 DEF v
  <2>5. /\ lastEvent' \in [Store -> Nat] /\ lastEvent[target] <= lastEvent'[target]
        /\ i <= lastEvent'[target] /\ \A x \in Store \ {target} : lastEvent'[x] = lastEvent[x]
        /\ lastEvent'[target] \in Nat
    <3>1. /\ Greater(lastEvent[target], i) \in Nat /\ lastEvent[target] <= Greater(lastEvent[target], i)
          /\ i <= Greater(lastEvent[target], i)
      BY <1>2, <2>2 DEF Greater
    <3> QED
      BY <1>0, <1>1, <2>1, <3>1 DEF TransferTypeOK
  <2>6. IdsGiven'
    <3>1. ASSUME NEW s \in Store, NEW x \in DOMAIN events'[s]
          PROVE  x \in 1..lastEvent'[s] /\ events'[s][x] \in Store
      <4>1. CASE s = target /\ x = i
        BY <2>2, <2>4, <2>5, <4>1
      <4>2. CASE s = target /\ x # i
        BY <1>0, <1>2, <2>4, <2>5, <4>2 DEF IdsGiven
      <4>3. CASE s # target
        BY <1>0, <2>4, <2>5, <4>3 DEF IdsGiven
      <4> QED
        BY <4>1, <4>2, <4>3
    <3> QED
      BY <1>0, <2>1, <3>1 DEF IdsGiven
  <2>7. \A s \in Store : Agrees(s) => Agrees(s)'
    <3> SUFFICES ASSUME NEW s \in Store, Agrees(s), NEW r \in Exported, r.in = "events",
                        r.id \in DOMAIN events'[s]
                 PROVE  events'[s][r.id] = r.row
      BY <1>1, <2>1 DEF Agrees
    <3>1. CASE s = target /\ r.id = i
      BY <1>3, <1>4, <2>4, <3>1
    <3>2. CASE ~(s = target /\ r.id = i)
      BY <2>4, <3>2 DEF Agrees
    <3> QED
      BY <3>1, <3>2
  <2>8. IdsAgree'
    <3>1. ASSUME NEW r \in Exported, r.in = "events"
          PROVE  r.id <= lastEvent'["here"]
      <4>1. r.id <= lastEvent["here"] /\ r.id \in Nat /\ lastEvent["here"] \in Nat
            /\ lastEvent'["here"] \in Nat
        BY <1>0, <2>5, <3>1, ExportedTyped DEF IdsAgree, TransferTypeOK
      <4>2. lastEvent["here"] <= lastEvent'["here"]
        BY <1>0, <2>5, <4>1
      <4> QED
        BY <4>1, <4>2
    <3> QED
      BY <1>0, <1>1, <2>1, <2>7, <3>1 DEF IdsAgree
  <2>9. Grows(target)
    BY <1>1, <2>1, <2>4 DEF Grows
  <2>10. Row \in RowsOf(target)'
    BY <1>1, <2>2, <2>4 DEF RowsOf
  <2> QED
    BY <1>0, <2>1, <2>4, <2>5, <2>6, <2>8, <2>9, <2>10, ImportMoves DEF TransferTypeOK
<1>5. CASE Row.in = "summaries"
  <2>1. /\ summaries' = [summaries EXCEPT ![target] = With(summaries[target], i, Row.row)]
        /\ lastSummary' = [lastSummary EXCEPT ![target] = Greater(lastSummary[target], i)]
        /\ UNCHANGED <<events, marks, lastEvent>>
    BY <1>5 DEF ImportInserts
  <2>2. i \in Nat \ {0} /\ Row.row \in Summary
        /\ Row = [in |-> "summaries", id |-> i, row |-> Row.row]
    BY <1>1, <1>5 DEF TableRow
  <2>3. i \notin DOMAIN summaries[target]
    <3>1. ASSUME i \in DOMAIN summaries[target]
          PROVE  FALSE
      <4>1. [in |-> "summaries", id |-> i, row |-> summaries[target][i]] \in RowsOf(target)
        BY <3>1 DEF RowsOf
      <4> QED
        BY <1>0, <1>5, <4>1 DEF Exists
    <3> QED
      BY <3>1
  <2> HIDE DEF i
  <2>4. /\ DOMAIN summaries' = Store /\ DOMAIN summaries'[target] = DOMAIN summaries[target] \cup {i}
        /\ summaries'[target][i] = Row.row
        /\ \A x \in DOMAIN summaries[target] : summaries'[target][x] = summaries[target][x]
        /\ \A x \in Store \ {target} : summaries'[x] = summaries[x]
    <3> DEFINE v == Row.row
    <3> HIDE DEF v
    <3>1. summaries' = [summaries EXCEPT ![target] = With(summaries[target], i, v)]
      BY <2>1 DEF v
    <3>2. /\ DOMAIN With(summaries[target], i, v) = DOMAIN summaries[target] \cup {i}
          /\ With(summaries[target], i, v)[i] = v
          /\ \A x \in DOMAIN summaries[target] \ {i} :
                With(summaries[target], i, v)[x] = summaries[target][x]
      BY DEF With
    <3>3. /\ DOMAIN summaries' = Store /\ summaries'[target] = With(summaries[target], i, v)
          /\ \A x \in Store \ {target} : summaries'[x] = summaries[x]
      BY <1>0, <1>1, <3>1 DEF TransferTypeOK
    <3> QED
      BY <2>3, <3>2, <3>3 DEF v
  <2>5. /\ lastSummary' \in [Store -> Nat] /\ lastSummary[target] <= lastSummary'[target]
        /\ i <= lastSummary'[target]
        /\ \A x \in Store \ {target} : lastSummary'[x] = lastSummary[x]
        /\ lastSummary'[target] \in Nat
    <3>1. /\ Greater(lastSummary[target], i) \in Nat
          /\ lastSummary[target] <= Greater(lastSummary[target], i)
          /\ i <= Greater(lastSummary[target], i)
      BY <1>2, <2>2 DEF Greater
    <3> QED
      BY <1>0, <1>1, <2>1, <3>1 DEF TransferTypeOK
  <2>6. IdsGiven'
    <3>1. ASSUME NEW s \in Store, NEW x \in DOMAIN summaries'[s]
          PROVE  x \in 1..lastSummary'[s] /\ summaries'[s][x] \in Summary
      <4>1. CASE s = target /\ x = i
        BY <2>2, <2>4, <2>5, <4>1
      <4>2. CASE s = target /\ x # i
        BY <1>0, <1>2, <2>4, <2>5, <4>2 DEF IdsGiven
      <4>3. CASE s # target
        BY <1>0, <2>4, <2>5, <4>3 DEF IdsGiven
      <4> QED
        BY <4>1, <4>2, <4>3
    <3>2. ASSUME NEW s \in Store
          PROVE  marks[s] \subseteq (1..lastSummary'[s]) \X (1..lastSummary'[s])
      <4>1. 1..lastSummary[s] \subseteq 1..lastSummary'[s]
        <5>1. lastSummary[s] \in Nat /\ lastSummary'[s] \in Nat
          BY <1>0, <2>5 DEF TransferTypeOK
        <5>2. lastSummary[s] <= lastSummary'[s]
          BY <2>5, <5>1
        <5> QED
          BY <5>1, <5>2
      <4> QED
        BY <1>0, <4>1 DEF IdsGiven
    <3> QED
      BY <1>0, <2>1, <3>1, <3>2 DEF IdsGiven
  <2>7. \A s \in Store : Agrees(s) => Agrees(s)'
    <3> SUFFICES ASSUME NEW s \in Store, Agrees(s), NEW r \in Exported, r.in = "summaries",
                        r.id \in DOMAIN summaries'[s]
                 PROVE  summaries'[s][r.id] = r.row
      BY <1>1, <2>1 DEF Agrees
    <3>1. CASE s = target /\ r.id = i
      BY <1>3, <1>5, <2>4, <3>1
    <3>2. CASE ~(s = target /\ r.id = i)
      BY <2>4, <3>2 DEF Agrees
    <3> QED
      BY <3>1, <3>2
  <2>8. IdsAgree'
    <3>1. ASSUME NEW r \in Exported, r.in = "summaries"
          PROVE  r.id <= lastSummary'["here"]
      <4>1. r.id <= lastSummary["here"] /\ r.id \in Nat /\ lastSummary["here"] \in Nat
            /\ lastSummary'["here"] \in Nat
        BY <1>0, <2>5, <3>1, ExportedTyped DEF IdsAgree, TransferTypeOK
      <4>2. lastSummary["here"] <= lastSummary'["here"]
        BY <1>0, <2>5, <4>1
      <4> QED
        BY <4>1, <4>2
    <3> QED
      BY <1>0, <1>1, <2>1, <2>7, <3>1 DEF IdsAgree
  <2>9. Grows(target)
    BY <1>1, <2>1, <2>4 DEF Grows
  <2>10. Row \in RowsOf(target)'
    BY <1>1, <2>2, <2>4 DEF RowsOf
  <2> QED
    BY <1>0, <2>1, <2>4, <2>5, <2>6, <2>8, <2>9, <2>10, ImportMoves DEF TransferTypeOK
<1>6. CASE Row.in = "supersedes"
  <2>1. /\ marks' = [marks EXCEPT ![target] = marks[target] \cup {i}]
        /\ UNCHANGED <<events, summaries, lastEvent, lastSummary>>
    BY <1>6 DEF ImportInserts
  <2>2. i \in (1..lastSummary[target]) \X (1..lastSummary[target])
    <3>1. i \in Nat \X Nat /\ {i[1], i[2]} \subseteq DOMAIN summaries[target]
      BY <1>0, <1>1, <1>6, RowsTyped DEF Refers
    <3> QED
      BY <1>0, <1>1, <3>1 DEF IdsGiven
  <2> HIDE DEF i
  <2>3. /\ DOMAIN marks' = Store /\ marks'[target] = marks[target] \cup {i}
        /\ \A x \in Store \ {target} : marks'[x] = marks[x]
    BY <1>0, <1>1, <2>1 DEF TransferTypeOK
  <2>4. IdsGiven'
    BY <1>0, <1>1, <2>1, <2>2, <2>3 DEF IdsGiven
  <2>5. IdsAgree'
    BY <1>0, <1>1, <2>1 DEF IdsAgree, Agrees
  <2>6. Grows(target)
    BY <2>1, <2>3 DEF Grows
  <2>7. Row \notin Closed
    BY <1>6 DEF Closed
  <2> QED
    BY <1>0, <2>1, <2>3, <2>4, <2>5, <2>6, <2>7, ImportMoves DEF TransferTypeOK
<1> QED
  BY <1>0, <1>4, <1>5, <1>6 DEF Refers

\* An import begins or ends: it takes note of what there is, or has passed the whole snapshot.
LEMMA TurnStep ==
  ASSUME TransferInv, ExportBegins \/ ImportBegins \/ ImportEnds
  PROVE  TransferInv'
<1>0. /\ TransferTypeOK /\ IdsGiven /\ SnapshotInOrder /\ IdsAgree /\ FoundStays /\ PassedIsThere
      /\ UNCHANGED <<events, summaries, marks, lastEvent, lastSummary, snapshot, target, mixed, deleted>>
  BY DEF TransferInv, ExportBegins, ImportBegins, ImportEnds, sourceVars
<1>1. Exported' = Exported /\ Closed' = Closed /\ RowsOf(target)' = RowsOf(target)
  BY <1>0 DEF Exported, Closed, ExportedEvents, RowsOf
<1>2. IdsGiven'
  BY <1>0 DEF IdsGiven
<1>3. CASE ExportBegins
  <2>1. table = 0 /\ table' = 1 /\ UNCHANGED <<reached, pass, found>>
    BY <1>3 DEF ExportBegins
  <2>2. TransferTypeOK' /\ IdsAgree'
    BY <1>0, <1>1, <2>1 DEF TransferTypeOK, IdsAgree, Agrees
  <2>3. SnapshotInOrder'
    BY <1>0, <1>1, <2>1 DEF SnapshotInOrder
  <2>4. FoundStays' /\ PassedIsThere'
    BY <1>0, <1>1, <2>1 DEF FoundStays, PassedIsThere
  <2> QED
    BY <1>2, <2>2, <2>3, <2>4 DEF TransferInv
<1>4. CASE ImportBegins
  <2>1. /\ table = 4 /\ reached' = 1 /\ pass' = pass + 1 /\ found' = RowsOf(target)
        /\ UNCHANGED table /\ pass \in Nat
    BY <1>0, <1>4 DEF ImportBegins, TransferTypeOK
  <2>2. TransferTypeOK' /\ IdsAgree'
    BY <1>0, <1>1, <2>1 DEF TransferTypeOK, IdsAgree, Agrees
  <2>3. SnapshotInOrder'
    BY <1>0, <1>1, <2>1 DEF SnapshotInOrder
  <2>4. FoundStays'
    BY <1>1, <2>1 DEF FoundStays
  <2>5. PassedIsThere'
    BY <1>0, <2>1 DEF PassedIsThere, TransferTypeOK
  <2> QED
    BY <1>2, <2>2, <2>3, <2>4, <2>5 DEF TransferInv
<1>5. CASE ImportEnds
  <2>1. reached = Len(snapshot) + 1 /\ reached' = 0 /\ UNCHANGED <<table, pass, found>>
        /\ Len(snapshot) \in Nat
    BY <1>0, <1>5 DEF ImportEnds, TransferTypeOK
  <2>2. TransferTypeOK' /\ IdsAgree'
    BY <1>0, <1>1, <2>1 DEF TransferTypeOK, IdsAgree, Agrees
  <2>3. SnapshotInOrder'
    BY <1>0, <1>1, <2>1 DEF SnapshotInOrder
  <2>4. FoundStays'
    BY <1>0, <1>1, <2>1 DEF FoundStays
  <2>5. \A n \in 1..Len(snapshot) : n < reached
    BY <2>1
  <2>6. PassedIsThere'
    BY <1>0, <1>1, <2>1, <2>5 DEF PassedIsThere
  <2> QED
    BY <1>2, <2>2, <2>3, <2>4, <2>6 DEF TransferInv
<1> QED
  BY <1>3, <1>4, <1>5

LEMMA NextTransferInv == TransferInv /\ [TransferNext]_transferVars => TransferInv'
<1> SUFFICES ASSUME TransferInv, [TransferNext]_transferVars PROVE TransferInv'
  OBVIOUS
<1>1. CASE UNCHANGED transferVars
  <2>1. UNCHANGED <<events, summaries, marks, lastEvent, lastSummary, table, snapshot, target,
                    reached, pass, mixed, deleted, found>>
    BY <1>1 DEF transferVars, sourceVars
  <2>2. TransferTypeOK' /\ IdsGiven'
    BY <2>1 DEF TransferInv, TransferTypeOK, IdsGiven
  <2>3. SnapshotInOrder' /\ IdsAgree'
    BY <2>1 DEF TransferInv, SnapshotInOrder, IdsAgree, Agrees, Exported
  <2>4. FoundStays' /\ PassedIsThere'
    BY <2>1 DEF TransferInv, FoundStays, PassedIsThere, RowsOf, Closed, ExportedEvents, Exported
  <2> QED
    BY <2>2, <2>3, <2>4 DEF TransferInv
<1> QED
  BY <1>1, WriteActions, ExportStep, TurnStep, InsertStep, PassStep DEF TransferNext

\* TransferInv holds in every state of the two stores, the export and the imports.
THEOREM TransferIsSound == TransferSpec => []TransferInv
<1>1. TransferInit => TransferInv
  BY InitTransferInv
<1>2. TransferInv /\ [TransferNext]_transferVars => TransferInv'
  BY NextTransferInv
<1> QED
  BY <1>1, <1>2, PTL DEF TransferSpec

\* Importing a snapshot where it comes from, or into an empty store, gives back every row whose
\* references were exported with it.
THEOREM SnapshotsAreRestored == TransferSpec => []RestoresSnapshot
<1>1. TransferInv => RestoresSnapshot
  <2> SUFFICES ASSUME TransferInv, Imported, ~mixed, deleted = {}, NEW r \in Closed
               PROVE  r \in RowsOf(target)
    BY DEF RestoresSnapshot
  <2>1. PICK n \in 1..Len(snapshot) : r = snapshot[n]
    BY DEF Closed, Exported
  <2> QED
    BY <2>1 DEF TransferInv, PassedIsThere, Imported
<1> QED
  BY <1>1, TransferIsSound, PTL

\* An import takes nothing away, into whatever store (importRow): what is gone after it others deleted.
THEOREM ImportsTakeNothing == TransferSpec => []ImportTakesNothing
<1>1. TransferInv => ImportTakesNothing
  BY DEF TransferInv, FoundStays, ImportTakesNothing, Imported
<1> QED
  BY <1>1, TransferIsSound, PTL

-------------------------------------------------------------------------------
(* The graph. ProvenanceInv is inductive: what an inference has found as the  *)
(* predecessor is an earlier event of the capture's session, and just before  *)
(* the event if that is the capture's own.                                    *)

LEMMA InitProvenanceInv == ProvenanceInit => ProvenanceInv
<1> SUFFICES ASSUME ProvenanceInit PROVE ProvenanceInv
  OBVIOUS
<1>1. /\ sessionOf \in Seq(Sessions) /\ Len(sessionOf) = 0 /\ edges \in Seq(Edge) /\ Len(edges) = 0
      /\ captures \in Seq(Capture) /\ Len(captures) = 0
  BY DEF ProvenanceInit
<1>2. DOMAIN inferring = {} /\ inferring \in [DOMAIN inferring -> Inference]
  BY DEF ProvenanceInit
<1>3. stored \cup expired = 1..Len(sessionOf)
  BY <1>1 DEF ProvenanceInit
<1>4. 0 <= MaxCaptures
  BY ProvenanceAssumption
<1> QED
  BY <1>1, <1>2, <1>3, <1>4 DEF ProvenanceInv, ProvenanceTypeOK

\* What an event follows it goes on following: sessions are given once, and what is gone stays so.
LEMMA FollowsStays ==
  ASSUME ProvenanceInv, NEW c, NEW p, Follows(c, p),
         Len(sessionOf') \in Nat, Len(sessionOf) <= Len(sessionOf'),
         \A x \in 1..Len(sessionOf) : sessionOf'[x] = sessionOf[x],
         Len(captures') \in Nat, Len(captures) <= Len(captures'),
         \A x \in 1..Len(captures) : captures'[x] = captures[x],
         expired \subseteq expired'
  PROVE  Follows(c, p)'
<1>1. Len(sessionOf) \in Nat /\ Len(captures) \in Nat
  BY DEF ProvenanceInv, ProvenanceTypeOK
<1>2. c \in 1..Len(captures) /\ c \in 1..Len(captures') /\ captures'[c] = captures[c]
  BY <1>1 DEF Follows
<1>3. /\ p \in 1..Len(sessionOf) /\ p \in 1..Len(sessionOf')
      /\ p < captures[c].event /\ sessionOf[p] = captures[c].session /\ sessionOf'[p] = sessionOf[p]
  BY <1>1 DEF Follows
<1>4. ASSUME captures[c].first, NEW x \in p + 1..captures[c].event - 1,
             sessionOf'[x] = captures[c].session
      PROVE  x \in expired'
  <2>1. captures[c].event \in 1..Len(sessionOf)
    BY <1>2, <1>4 DEF ProvenanceInv
  <2>2. x \in 1..Len(sessionOf)
    BY <1>1, <1>3, <2>1
  <2> QED
    BY <1>4, <2>2 DEF Follows
<1> QED
  BY <1>2, <1>3, <1>4 DEF Follows

\* A step of one capture's inference.
LEMMA InferStep ==
  ASSUME ProvenanceInv, UNCHANGED <<sessionOf, stored, captures, expired>>,
         DOMAIN inferring' \subseteq DOMAIN inferring,
         inferring' \in [DOMAIN inferring' -> Inference],
         \A c \in DOMAIN inferring' : \/ inferring'[c].prev \in {0, inferring[c].prev}
                                     \/ Follows(c, inferring'[c].prev),
         \/ UNCHANGED edges
         \/ \E new \in Edge :
              /\ edges' = Append(edges, new)
              /\ new.type = "derives_from" =>
                    new.from = captures[new.ts].event /\ Follows(new.ts, new.to)
  PROVE  ProvenanceInv'
<1> DEFINE Right(new) ==
      new.type = "derives_from" => new.from = captures[new.ts].event /\ Follows(new.ts, new.to)
<1>0. edges \in Seq(Edge)
  BY DEF ProvenanceInv, ProvenanceTypeOK
<1>1. edges' \in Seq(Edge)
  <2>1. CASE UNCHANGED edges
    BY <1>0, <2>1
  <2>2. ASSUME NEW new \in Edge, edges' = Append(edges, new)
        PROVE  edges' \in Seq(Edge)
    BY <1>0, <2>2
  <2> QED
    BY <2>1, <2>2
<1>2. ProvenanceTypeOK'
  BY <1>1 DEF ProvenanceInv, ProvenanceTypeOK
<1>3. \A c, p : Follows(c, p) => Follows(c, p)'
  BY DEF Follows
<1>4. ASSUME NEW c \in DOMAIN inferring', inferring'[c].prev # 0
      PROVE  Follows(c, inferring'[c].prev)
  BY <1>4 DEF ProvenanceInv
<1>5. ASSUME NEW i \in 1..Len(edges')
      PROVE  Right(edges'[i])
  <2>0. \A n \in 1..Len(edges) : Right(edges[n])
    BY DEF ProvenanceInv
  <2>1. CASE UNCHANGED edges
    BY <2>0, <2>1
  <2>2. ASSUME NEW new \in Edge, edges' = Append(edges, new), Right(new)
        PROVE  Right(edges'[i])
    <3> HIDE DEF Right
    <3>1. edges'[i] = new \/ (i \in 1..Len(edges) /\ edges'[i] = edges[i])
      BY <1>0, <2>2
    <3> QED
      BY <2>0, <2>2, <3>1
  <2> QED
    BY <2>1, <2>2
<1>6. /\ UNCHANGED captures
      /\ \A c \in 1..Len(captures) :
           captures[c].first => /\ captures[c].event \in 1..Len(sessionOf')
                                /\ sessionOf'[captures[c].event] = captures[c].session
  BY DEF ProvenanceInv
<1> QED
  BY <1>2, <1>3, <1>4, <1>5, <1>6 DEF ProvenanceInv

LEMMA InferSteps ==
  ASSUME ProvenanceInv, NEW c \in DOMAIN inferring,
         AddFileEdge(c) \/ LookBack(c) \/ AddChainEdge(c) \/ InferenceFails(c)
  PROVE  ProvenanceInv'
<1> DEFINE e == captures[c].event
           s == captures[c].session
<1>0. /\ ProvenanceTypeOK /\ inferring[c] \in Inference /\ c \in 1..Len(captures) /\ c \in Nat
      /\ Len(sessionOf) \in Nat /\ captures[c] \in Capture
      /\ inferring[c].prev # 0 => Follows(c, inferring[c].prev)
  BY DEF ProvenanceInv, ProvenanceTypeOK
<1>1. e \in Captured /\ e \in Nat
  BY <1>0, ProvenanceAssumption DEF Capture, Captured
<1>2. captures[c].first => e \in 1..Len(sessionOf) /\ sessionOf[e] = s
  BY <1>0 DEF ProvenanceInv
<1> HIDE DEF e, s
<1>3. ASSUME inferring' = WithoutInference(c)
      PROVE  /\ DOMAIN inferring' \subseteq DOMAIN inferring
             /\ inferring' \in [DOMAIN inferring' -> Inference]
             /\ \A x \in DOMAIN inferring' : inferring'[x].prev = inferring[x].prev
  BY <1>0, <1>3 DEF WithoutInference, ProvenanceTypeOK
<1>4. CASE AddFileEdge(c)
  <2> DEFINE rest == [inferring[c] EXCEPT !.paths = Tail(inferring[c].paths)]
  <2> DEFINE new == EdgeOf(c, Head(inferring[c].paths), "touches")
  <2>1. /\ edges' = Append(edges, new) /\ inferring' = [inferring EXCEPT ![c] = rest]
        /\ inferring[c].paths # <<>> /\ UNCHANGED <<sessionOf, stored, captures, expired>>
    BY <1>4 DEF AddFileEdge
  <2>2. inferring[c].paths \in Seq(Files)
    BY <1>0 DEF Inference
  <2>3. Head(inferring[c].paths) \in Files /\ Tail(inferring[c].paths) \in Seq(Files)
    BY <2>1, <2>2
  <2>4. rest \in Inference /\ rest.prev = inferring[c].prev
    BY <1>0, <2>3 DEF Inference
  <2>5. new \in Edge /\ new.type # "derives_from"
    BY <1>0, <1>1, <2>3 DEF Edge, EdgeOf, Node, e
  <2> HIDE DEF rest, new
  <2>6. /\ DOMAIN inferring' = DOMAIN inferring /\ inferring' \in [DOMAIN inferring' -> Inference]
        /\ \A x \in DOMAIN inferring' : inferring'[x].prev = inferring[x].prev
    BY <1>0, <2>1, <2>4 DEF ProvenanceTypeOK
  <2> QED
    BY <2>1, <2>5, <2>6, InferStep
<1>5. CASE LookBack(c)
  <2> DEFINE previous == previousEventInSession(s, e)
  <2>0. /\ UNCHANGED <<sessionOf, stored, captures, expired, edges>>
        /\ \/ previous = {} /\ inferring' = WithoutInference(c)
           \/ \E last \in previous :
                 /\ \A x \in previous : x <= last
                 /\ inferring' = [inferring EXCEPT ![c] = [inferring[c] EXCEPT !.prev = last]]
    BY <1>5 DEF LookBack, e, s
  <2>1. CASE inferring' = WithoutInference(c)
    BY <1>3, <2>0, <2>1, InferStep
  <2>2. ASSUME NEW last \in previous, \A x \in previous : x <= last,
               inferring' = [inferring EXCEPT ![c] = [inferring[c] EXCEPT !.prev = last]]
        PROVE  ProvenanceInv'
    <3> DEFINE pred == [inferring[c] EXCEPT !.prev = last]
    <3>1. last \in stored /\ last < e /\ sessionOf[last] = s
      BY <2>2 DEF previousEventInSession
    <3>2. last \in 1..Len(sessionOf) /\ last \in Nat
      BY <1>0, <3>1 DEF ProvenanceTypeOK
    <3>3. ASSUME captures[c].first, NEW x \in last + 1..e - 1, sessionOf[x] = s, x \notin expired
          PROVE  FALSE
      <4>1. x \in 1..Len(sessionOf) /\ x < e /\ last < x
        BY <1>0, <1>1, <1>2, <3>2, <3>3
      <4>2. x \in stored
        BY <1>0, <3>3, <4>1 DEF ProvenanceTypeOK
      <4>3. x <= last
        BY <2>2, <3>3, <4>1, <4>2 DEF previousEventInSession
      <4> QED
        BY <1>0, <3>2, <4>1, <4>3
    <3>4. Follows(c, last)
      BY <1>0, <3>1, <3>2, <3>3 DEF Follows, e, s
    <3>5. pred \in Inference /\ pred.prev = last
      BY <1>0, <3>2 DEF Inference
    <3>6. inferring' = [inferring EXCEPT ![c] = pred]
      BY <2>2
    <3> HIDE DEF pred
    <3>7. /\ DOMAIN inferring' = DOMAIN inferring /\ inferring' \in [DOMAIN inferring' -> Inference]
          /\ inferring'[c].prev = last
          /\ \A x \in DOMAIN inferring' \ {c} : inferring'[x].prev = inferring[x].prev
      BY <1>0, <3>5, <3>6 DEF ProvenanceTypeOK
    <3> QED
      BY <2>0, <3>4, <3>7, InferStep
  <2> QED
    BY <2>0, <2>1, <2>2
<1>6. CASE AddChainEdge(c)
  <2> DEFINE new == EdgeOf(c, inferring[c].prev, "derives_from")
  <2>1. /\ inferring[c].prev # 0 /\ edges' = Append(edges, new) /\ inferring' = WithoutInference(c)
        /\ UNCHANGED <<sessionOf, stored, captures, expired>>
    BY <1>6 DEF AddChainEdge
  <2>2. new \in Edge /\ new.from = captures[new.ts].event /\ Follows(new.ts, new.to)
    <3>1. Follows(c, inferring[c].prev)
      BY <1>0, <2>1
    <3>2. inferring[c].prev \in Captured
      BY <1>0, <1>1, <3>1, ProvenanceAssumption DEF Follows, Captured, e
    <3> QED
      BY <1>0, <1>1, <3>1, <3>2 DEF Edge, EdgeOf, Node, e
  <2> HIDE DEF new
  <2> QED
    BY <1>3, <2>1, <2>2, InferStep
<1>7. CASE InferenceFails(c)
  BY <1>3, <1>7, InferStep DEF InferenceFails
<1> QED
  BY <1>4, <1>5, <1>6, <1>7

\* A capture, be it told of its own event or of another one, disturbs no inference under way.
LEMMA BeginStep ==
  ASSUME ProvenanceInv, NEW e \in Captured, NEW s \in Sessions, NEW first \in BOOLEAN,
         BeginInference(e, s, first), Len(captures) < MaxCaptures,
         sessionOf' \in Seq(Sessions), Len(sessionOf) <= Len(sessionOf'),
         Len(sessionOf') <= Len(captures) + 1, stored' \cup expired = 1..Len(sessionOf'),
         \A x \in 1..Len(sessionOf) : sessionOf'[x] = sessionOf[x],
         first => e \in 1..Len(sessionOf') /\ sessionOf'[e] = s
  PROVE  ProvenanceInv'
<1> DEFINE m == Len(captures) + 1
           new == [event |-> e, session |-> s, first |-> first]
<1>0. ProvenanceTypeOK /\ Len(sessionOf) \in Nat /\ Len(captures) \in Nat /\ captures \in Seq(Capture)
  BY DEF ProvenanceInv, ProvenanceTypeOK
<1>1. /\ captures' = Append(captures, new) /\ UNCHANGED <<edges, expired>>
      /\ \E F \in SUBSET Files :
            \E paths \in {p \in [1..Cardinality(F) -> F] : Entries(p) = F} :
               inferring' = [c \in DOMAIN inferring \cup {m} |->
                               IF c \in DOMAIN inferring THEN inferring[c] ELSE [paths |-> paths, prev |-> 0]]
  BY DEF BeginInference
<1>2. new \in Capture /\ new.event = e /\ new.session = s /\ new.first = first
  BY DEF Capture
<1>3. PICK F \in SUBSET Files :
            \E paths \in {p \in [1..Cardinality(F) -> F] : Entries(p) = F} :
               inferring' = [c \in DOMAIN inferring \cup {m} |->
                               IF c \in DOMAIN inferring THEN inferring[c] ELSE [paths |-> paths, prev |-> 0]]
  BY <1>1
<1>4. PICK paths \in [1..Cardinality(F) -> F] :
             inferring' = [c \in DOMAIN inferring \cup {m} |->
                             IF c \in DOMAIN inferring THEN inferring[c] ELSE [paths |-> paths, prev |-> 0]]
  BY <1>3
<1>5. paths \in Seq(Files)
  <2>1. Cardinality(F) \in Nat
    BY ProvenanceAssumption, FS_Subset, FS_CardinalityType
  <2> QED
    BY <1>4, <2>1
<1> DEFINE fresh == [paths |-> paths, prev |-> 0]
<1>6. fresh \in Inference /\ fresh.prev = 0
  BY <1>5 DEF Inference
<1>7. inferring' = [c \in DOMAIN inferring \cup {m} |-> IF c \in DOMAIN inferring THEN inferring[c] ELSE fresh]
  BY <1>4
<1> HIDE DEF new, fresh
<1>8. /\ captures' \in Seq(Capture) /\ Len(captures') = m
      /\ captures'[m] = new /\ \A x \in 1..Len(captures) : captures'[x] = captures[x]
  BY <1>0, <1>1, <1>2
<1>9. DOMAIN inferring \subseteq 1..Len(captures) /\ m \notin DOMAIN inferring
  BY <1>0 DEF ProvenanceTypeOK
<1>10. /\ DOMAIN inferring' = DOMAIN inferring \cup {m} /\ inferring'[m].prev = 0
      /\ \A x \in DOMAIN inferring : inferring'[x] = inferring[x]
  BY <1>6, <1>7, <1>9
<1>11. inferring' \in [DOMAIN inferring' -> Inference]
  BY <1>0, <1>6, <1>7 DEF ProvenanceTypeOK
<1>12. DOMAIN inferring' \subseteq 1..Len(captures')
  BY <1>0, <1>8, <1>9, <1>10
<1>13. ProvenanceTypeOK'
  <2>1. edges' \in Seq(Edge) /\ expired' = expired
    BY <1>0, <1>1 DEF ProvenanceTypeOK
  <2>2. Len(captures') <= MaxCaptures /\ Len(sessionOf') <= Len(captures')
    BY <1>0, <1>8, ProvenanceAssumption
  <2> QED
    BY <1>8, <1>11, <1>12, <2>1, <2>2 DEF ProvenanceTypeOK
<1>14. Len(sessionOf') \in Nat /\ Len(captures') \in Nat /\ Len(captures) <= Len(captures')
  BY <1>0, <1>8
<1>15. \A c, p : Follows(c, p) => Follows(c, p)'
  BY <1>1, <1>8, <1>14, FollowsStays
<1>16. ASSUME NEW c \in 1..Len(captures'), captures'[c].first
       PROVE  /\ captures'[c].event \in 1..Len(sessionOf')
              /\ sessionOf'[captures'[c].event] = captures'[c].session
  <2>1. CASE c = m
    BY <1>2, <1>8, <1>16, <2>1
  <2>2. CASE c \in 1..Len(captures)
    <3>1. captures'[c] = captures[c]
      BY <1>8, <2>2
    <3>2. captures[c].event \in 1..Len(sessionOf) /\ sessionOf[captures[c].event] = captures[c].session
      BY <1>16, <2>2, <3>1 DEF ProvenanceInv
    <3>3. captures[c].event \in 1..Len(sessionOf')
      BY <1>0, <1>14, <3>2
    <3> QED
      BY <3>1, <3>2, <3>3
  <2> QED
    BY <1>0, <1>8, <2>1, <2>2
<1>17. \A c \in DOMAIN inferring' : inferring'[c].prev # 0 => Follows(c, inferring'[c].prev)
  <2> SUFFICES ASSUME NEW c \in DOMAIN inferring', inferring'[c].prev # 0
               PROVE  Follows(c, inferring'[c].prev)
    OBVIOUS
  <2>1. c \in DOMAIN inferring /\ inferring'[c] = inferring[c]
    BY <1>10
  <2> QED
    BY <2>1 DEF ProvenanceInv
<1>18. edges' = edges
  BY <1>1
<1>19. \A i \in 1..Len(edges) : edges[i].type = "derives_from" =>
          edges[i].from = captures'[edges[i].ts].event /\ Follows(edges[i].ts, edges[i].to)
  BY <1>8 DEF ProvenanceInv, Follows
<1> QED
  BY <1>13, <1>15, <1>16, <1>17, <1>18, <1>19 DEF ProvenanceInv

LEMMA CaptureStep == ProvenanceInv /\ CaptureEvent => ProvenanceInv'
<1> SUFFICES ASSUME ProvenanceInv, CaptureEvent PROVE ProvenanceInv'
  OBVIOUS
<1> DEFINE e == Len(sessionOf) + 1
<1>0. /\ ProvenanceTypeOK /\ Len(sessionOf) \in Nat /\ sessionOf \in Seq(Sessions)
      /\ Len(captures) \in Nat /\ Len(captures) < MaxCaptures /\ MaxCaptures \in Nat
  BY ProvenanceAssumption DEF ProvenanceInv, ProvenanceTypeOK, CaptureEvent
<1>1. PICK s \in Sessions :
         /\ sessionOf' = Append(sessionOf, s) /\ stored' = stored \cup {e} /\ BeginInference(e, s, TRUE)
  BY DEF CaptureEvent
<1>2. /\ sessionOf' \in Seq(Sessions) /\ Len(sessionOf') = e /\ sessionOf'[e] = s
      /\ \A x \in 1..Len(sessionOf) : sessionOf'[x] = sessionOf[x]
  BY <1>0, <1>1
<1>3. Len(sessionOf) <= Len(captures)
  BY DEF ProvenanceInv, ProvenanceTypeOK
<1>4. e \in Captured /\ e \in 1..Len(sessionOf') /\ Len(sessionOf) <= Len(sessionOf')
      /\ Len(sessionOf') <= Len(captures) + 1
  BY <1>0, <1>2, <1>3 DEF Captured
<1>5. stored' \cup expired = 1..Len(sessionOf')
  BY <1>0, <1>1, <1>2 DEF ProvenanceTypeOK
<1> QED
  BY <1>0, <1>1, <1>2, <1>4, <1>5, BeginStep

LEMMA RepeatStep == ProvenanceInv /\ CaptureRepeated => ProvenanceInv'
<1> SUFFICES ASSUME ProvenanceInv, CaptureRepeated PROVE ProvenanceInv'
  OBVIOUS
<1>1. PICK same \in stored, e \in Captured : BeginInference(e, sessionOf[same], FALSE)
  BY DEF CaptureRepeated
<1>2. /\ UNCHANGED <<sessionOf, stored>> /\ Len(captures) < MaxCaptures
      /\ sessionOf \in Seq(Sessions) /\ Len(sessionOf) \in Nat /\ Len(captures) \in Nat
      /\ Len(sessionOf) <= Len(captures) /\ stored \cup expired = 1..Len(sessionOf)
  BY DEF CaptureRepeated, ProvenanceInv, ProvenanceTypeOK
<1>3. sessionOf[same] \in Sessions
  BY <1>2
<1>4. /\ sessionOf' \in Seq(Sessions) /\ Len(sessionOf) <= Len(sessionOf')
      /\ Len(sessionOf') <= Len(captures) + 1 /\ stored' \cup expired = 1..Len(sessionOf')
      /\ \A x \in 1..Len(sessionOf) : sessionOf'[x] = sessionOf[x]
  BY <1>2
<1> QED
  BY <1>1, <1>2, <1>3, <1>4, BeginStep

LEMMA SweepStep == ProvenanceInv /\ SweepEvent => ProvenanceInv'
<1> SUFFICES ASSUME ProvenanceInv, SweepEvent PROVE ProvenanceInv'
  OBVIOUS
<1>1. /\ UNCHANGED <<sessionOf, captures, inferring, edges>> /\ expired \subseteq expired'
      /\ stored' \cup expired' = stored \cup expired
  BY DEF SweepEvent
<1>2. \A x, p : Follows(x, p) => Follows(x, p)'
  BY <1>1 DEF Follows
<1>3. ProvenanceTypeOK'
  BY <1>1 DEF ProvenanceInv, ProvenanceTypeOK
<1> QED
  BY <1>1, <1>2, <1>3 DEF ProvenanceInv

LEMMA NextProvenanceInv == ProvenanceInv /\ [ProvenanceNext]_provenanceVars => ProvenanceInv'
<1> SUFFICES ASSUME ProvenanceInv, [ProvenanceNext]_provenanceVars PROVE ProvenanceInv'
  OBVIOUS
<1>1. CASE BeginWalk \/ ReadOutgoing \/ ReadIncoming \/ UNCHANGED provenanceVars
  <2>1. UNCHANGED <<sessionOf, stored, captures, inferring, expired, edges>>
    BY <1>1 DEF BeginWalk, ReadOutgoing, ReadIncoming, provenanceVars, captureVars
  <2> QED
    BY <2>1 DEF ProvenanceInv, ProvenanceTypeOK, Follows
<1> QED
  BY <1>1, CaptureStep, RepeatStep, InferSteps, SweepStep DEF ProvenanceNext, Infer

\* An edge of the chain leads to an earlier event of the session that was captured, and the one a
\* capture writes for its own event to the event just before it, whatever is captured, repeated,
\* read or swept between the steps of an inference (inferEdgesForEvent).
THEOREM ChainsFollowSessions == ProvenanceSpec => []ChainFollowsSession
<1>1. ProvenanceInit => ProvenanceInv
  BY InitProvenanceInv
<1>2. ProvenanceInv /\ [ProvenanceNext]_provenanceVars => ProvenanceInv'
  BY NextProvenanceInv
<1>3. ProvenanceInv => ChainFollowsSession
  <2> SUFFICES ASSUME ProvenanceInv, NEW i \in DOMAIN edges, edges[i].type = "derives_from",
                      NEW c, c = edges[i].ts, NEW e, e = edges[i].from, NEW p, p = edges[i].to
               PROVE  /\ p < e /\ sessionOf[p] = captures[c].session
                      /\ captures[c].first =>
                           /\ sessionOf[e] = captures[c].session
                           /\ \A x \in p + 1..e - 1 : sessionOf[x] = captures[c].session => x \in expired
    BY DEF ChainFollowsSession
  <2>1. e = captures[c].event /\ Follows(c, p) /\ c \in 1..Len(captures)
    BY DEF ProvenanceInv, ProvenanceTypeOK, Follows
  <2>2. captures[c].first => sessionOf[e] = captures[c].session
    BY <2>1 DEF ProvenanceInv
  <2> QED
    BY <2>1, <2>2 DEF Follows
<1> QED
  BY <1>1, <1>2, <1>3, PTL DEF ProvenanceSpec

-------------------------------------------------------------------------------
(* The walks. WalkInv is inductive: the nodes met form a tree, level by level *)
(* (Linked, Levels), and of the nodes read every edge there was when the walk *)
(* began was taken (Explored).                                                *)

\* What an operation on a sequence does to its entries.
LEMMA EntriesAppended ==
  \A T : \A s \in Seq(T) : \A x \in T :
      /\ Append(s, x) \in Seq(T) /\ Entries(Append(s, x)) = Entries(s) \cup {x}
      /\ NoneTwice(s) /\ x \notin Entries(s) => NoneTwice(Append(s, x))
<1> SUFFICES ASSUME NEW T, NEW s \in Seq(T), NEW x \in T
             PROVE  /\ Append(s, x) \in Seq(T) /\ Entries(Append(s, x)) = Entries(s) \cup {x}
                    /\ NoneTwice(s) /\ x \notin Entries(s) => NoneTwice(Append(s, x))
  OBVIOUS
<1> DEFINE a == Append(s, x)
<1>1. /\ a \in Seq(T) /\ Len(s) \in Nat /\ Len(a) = Len(s) + 1 /\ a[Len(s) + 1] = x
      /\ \A n \in 1..Len(s) : a[n] = s[n]
  OBVIOUS
<1> HIDE DEF a
<1>2. \A n \in 1..Len(a) : n \in 1..Len(s) \/ n = Len(s) + 1
  BY <1>1
<1>3. \A n \in 1..Len(s) : n \in 1..Len(a)
  BY <1>1
<1>4. Len(s) + 1 \in 1..Len(a)
  BY <1>1
<1>5. Entries(a) = Entries(s) \cup {x}
  BY <1>1, <1>2, <1>3, <1>4 DEF Entries
<1>6. NoneTwice(s) /\ x \notin Entries(s) => NoneTwice(a)
  BY <1>1, <1>2 DEF Entries, NoneTwice
<1> QED
  BY <1>1, <1>5, <1>6 DEF a

LEMMA EntriesOfTail ==
  \A T : \A s \in Seq(T) : s # <<>> =>
      /\ Head(s) \in T /\ Head(s) \in Entries(s) /\ Tail(s) \in Seq(T)
      /\ NoneTwice(s) => NoneTwice(Tail(s)) /\ Entries(Tail(s)) = Entries(s) \ {Head(s)}
<1> SUFFICES ASSUME NEW T, NEW s \in Seq(T), s # <<>>
             PROVE  /\ Head(s) \in T /\ Head(s) \in Entries(s) /\ Tail(s) \in Seq(T)
                    /\ NoneTwice(s) => NoneTwice(Tail(s)) /\ Entries(Tail(s)) = Entries(s) \ {Head(s)}
  OBVIOUS
<1> DEFINE t == Tail(s)
<1>1. /\ Head(s) = s[1] /\ Len(s) \in Nat \ {0} /\ t \in Seq(T) /\ Len(t) = Len(s) - 1
      /\ \A n \in 1..Len(t) : t[n] = s[n + 1]
      /\ Head(s) \in T
  OBVIOUS
<1> HIDE DEF t
<1>2. 1 \in 1..Len(s) /\ \A n \in 1..Len(t) : n + 1 \in 1..Len(s) /\ n + 1 # 1
  BY <1>1
<1>3. \A n \in 1..Len(s) : n # 1 => n - 1 \in 1..Len(t) /\ (n - 1) + 1 = n
  BY <1>1
<1>4. Head(s) \in Entries(s)
  BY <1>1, <1>2 DEF Entries
<1>5. ASSUME NoneTwice(s) PROVE NoneTwice(t) /\ Entries(t) = Entries(s) \ {Head(s)}
  <2>1. \A m, n \in 1..Len(t) : m + 1 = n + 1 => m = n
    BY <1>1
  <2>2. NoneTwice(t)
    BY <1>1, <1>2, <1>5, <2>1 DEF NoneTwice
  <2>3. Entries(t) \subseteq Entries(s) \ {Head(s)}
    BY <1>1, <1>2, <1>5 DEF NoneTwice, Entries
  <2>4. ASSUME NEW x \in Entries(s), x # Head(s) PROVE x \in Entries(t)
    <3>1. PICK n \in 1..Len(s) : x = s[n]
      BY DEF Entries
    <3>2. n # 1
      BY <1>1, <2>4, <3>1
    <3> QED
      BY <1>1, <1>3, <3>1, <3>2 DEF Entries
  <2> QED
    BY <2>2, <2>3, <2>4
<1> QED
  BY <1>1, <1>4, <1>5 DEF t

LEMMA EntriesJoined ==
  \A T : \A s, t \in Seq(T) : s \o t \in Seq(T) /\ Entries(s \o t) = Entries(s) \cup Entries(t)
<1> SUFFICES ASSUME NEW T, NEW s \in Seq(T), NEW t \in Seq(T)
             PROVE  s \o t \in Seq(T) /\ Entries(s \o t) = Entries(s) \cup Entries(t)
  OBVIOUS
<1> DEFINE u == s \o t
<1>1. /\ u \in Seq(T) /\ Len(s) \in Nat /\ Len(t) \in Nat /\ Len(u) = Len(s) + Len(t)
      /\ \A n \in 1..Len(s) : u[n] = s[n]
      /\ \A n \in 1..Len(t) : u[Len(s) + n] = t[n]
  OBVIOUS
<1> HIDE DEF u
<1>2. \A n \in 1..Len(u) : n \in 1..Len(s) \/ (n - Len(s) \in 1..Len(t) /\ Len(s) + (n - Len(s)) = n)
  BY <1>1
<1>3. \A n \in 1..Len(s) : n \in 1..Len(u)
  BY <1>1
<1>4. \A n \in 1..Len(t) : Len(s) + n \in 1..Len(u)
  BY <1>1
<1>5. Entries(u) \subseteq Entries(s) \cup Entries(t)
  <2> SUFFICES ASSUME NEW n \in 1..Len(u) PROVE u[n] \in Entries(s) \cup Entries(t)
    BY DEF Entries
  <2>1. CASE n \in 1..Len(s)
    BY <1>1, <2>1 DEF Entries
  <2>2. CASE n - Len(s) \in 1..Len(t) /\ Len(s) + (n - Len(s)) = n
    <3>1. u[n] = t[n - Len(s)]
      BY <1>1, <2>2
    <3> QED
      BY <2>2, <3>1 DEF Entries
  <2> QED
    BY <1>2, <2>1, <2>2
<1>6. Entries(s) \subseteq Entries(u) /\ Entries(t) \subseteq Entries(u)
  BY <1>1, <1>3, <1>4 DEF Entries
<1> QED
  BY <1>1, <1>5, <1>6 DEF u

\* The rows of a SELECT come each once, in the order asked for.
LEMMA NewestFirstLists ==
  ASSUME edges \in Seq(Edge), NEW S, S \subseteq 1..Len(edges)
  PROVE  /\ NewestFirst(S) \in Seq(S) /\ NoneTwice(NewestFirst(S)) /\ Entries(NewestFirst(S)) = S
<1> DEFINE before(a, b) == edges[a].ts > edges[b].ts \/ (edges[a].ts = edges[b].ts /\ a < b)
           Ahead(a) == {b \in S : before(b, a)}
           c == Cardinality(S)
           r == [a \in S |-> Cardinality(Ahead(a)) + 1]
           s == NewestFirst(S)
<1>1. IsFiniteSet(S) /\ c \in Nat /\ \A a \in S : a \in Int /\ edges[a].ts \in Int
  <2>1. IsFiniteSet(S)
    <3>1. IsFiniteSet(1..Len(edges))
      BY FS_Interval
    <3> QED
      BY <3>1, FS_Subset
  <2>2. \A a \in S : edges[a] \in Edge
    OBVIOUS
  <2> QED
    BY <2>1, <2>2, FS_CardinalityType, ProvenanceAssumption DEF Edge
<1>2. \A a, b \in S : a = b \/ before(a, b) \/ before(b, a)
  BY <1>1
<1>3. \A a \in S : ~before(a, a)
  BY <1>1
<1>4. \A a, b, x \in S : before(x, a) /\ before(a, b) => before(x, b)
  BY <1>1
<1> HIDE DEF before, c
<1>5. \A a \in S : IsFiniteSet(Ahead(a)) /\ Cardinality(Ahead(a)) \in Nat
  <2>1. \A a \in S : Ahead(a) \in SUBSET S
    OBVIOUS
  <2> QED
    BY <1>1, <2>1, FS_Subset, FS_CardinalityType
<1>6. ASSUME NEW a \in S, NEW b \in S, before(a, b)
      PROVE  r[a] < r[b]
  <2>1. Ahead(a) \in SUBSET Ahead(b)
    BY <1>4, <1>6
  <2>2. a \in Ahead(b) /\ a \notin Ahead(a)
    BY <1>3, <1>6
  <2> HIDE DEF Ahead
  <2>3. Cardinality(Ahead(a)) <= Cardinality(Ahead(b)) /\ Cardinality(Ahead(a)) # Cardinality(Ahead(b))
    BY <1>5, <2>1, <2>2, FS_Subset
  <2> QED
    BY <1>5, <2>3
<1>7. \A a \in S : r[a] \in 1..c
  <2> SUFFICES ASSUME NEW a \in S PROVE r[a] \in 1..c
    OBVIOUS
  <2>1. Ahead(a) \in SUBSET S /\ a \notin Ahead(a)
    BY <1>3
  <2> HIDE DEF Ahead
  <2>2. Cardinality(Ahead(a)) <= c /\ Cardinality(Ahead(a)) # c
    BY <1>1, <2>1, FS_Subset DEF c
  <2> QED
    BY <1>1, <1>5, <2>2
<1> HIDE DEF Ahead
<1>8. r \in [S -> 1..c] /\ \A a, b \in S : r[a] = r[b] => a = b
  <2>1. \A a \in S : r[a] \in Int
    BY <1>5
  <2>2. r \in [S -> 1..c]
    BY <1>7
  <2> HIDE DEF r
  <2> QED
    BY <1>2, <1>6, <2>1, <2>2
<1>9. r \in Surjection(S, 1..c)
  <2>1. r \in Injection(S, 1..c)
    BY <1>8 DEF Injection, IsInjective
  <2>2. IsFiniteSet(1..c) /\ Cardinality(1..c) = c
    BY <1>1, FS_Interval
  <2> QED
    BY <2>1, <2>2, FS_Injection DEF c
<1>10. \A n \in 1..c : \E a \in S : r[a] = n
  BY <1>9 DEF Surjection
<1>11. s = [n \in 1..c |-> CHOOSE a \in S : Cardinality(Ahead(a)) = n - 1]
  BY DEF NewestFirst, before, Ahead, c
<1>12. \A n \in 1..c : s[n] \in S /\ r[s[n]] = n
  <2> SUFFICES ASSUME NEW n \in 1..c PROVE s[n] \in S /\ r[s[n]] = n
    OBVIOUS
  <2>1. PICK a \in S : r[a] = n
    BY <1>10
  <2>2. Cardinality(Ahead(a)) = n - 1
    BY <1>1, <1>5, <2>1
  <2>3. s[n] = CHOOSE x \in S : Cardinality(Ahead(x)) = n - 1
    BY <1>11
  <2>4. s[n] \in S /\ Cardinality(Ahead(s[n])) = n - 1
    BY <2>2, <2>3
  <2> QED
    BY <1>1, <2>4
<1>13. s \in Seq(S) /\ Len(s) = c
  <2>1. s = [n \in 1..c |-> s[n]]
    BY <1>11
  <2>2. \A n \in 1..c : s[n] \in S
    BY <1>12
  <2> HIDE DEF s, r
  <2> QED
    BY <1>1, <2>1, <2>2
<1> HIDE DEF s, r
<1>14. NoneTwice(s)
  BY <1>12, <1>13 DEF NoneTwice
<1>15. Entries(s) \subseteq S
  BY <1>12, <1>13 DEF Entries
<1>16. S \subseteq Entries(s)
  <2> SUFFICES ASSUME NEW a \in S PROVE a \in Entries(s)
    OBVIOUS
  <2>1. r[a] \in 1..c
    BY <1>8
  <2>2. s[r[a]] \in S /\ r[s[r[a]]] = r[a]
    BY <1>12, <2>1
  <2>3. s[r[a]] = a
    BY <1>8, <2>2
  <2> QED
    BY <1>13, <2>1, <2>3 DEF Entries
<1> QED
  BY <1>13, <1>14, <1>15, <1>16 DEF s

\* The walk after one edge more is Take of the walk before it.
LEMMA TakenIs ==
  ASSUME NEW adj, Len(adj) \in Nat
  PROVE  /\ Taken(adj)[0] = [walk EXCEPT !.adjacent = <<>>, !.half = FALSE]
         /\ \A j \in 1..Len(adj) : Taken(adj)[j] = Take(Taken(adj)[j - 1], adj[j], Here)
<1> DEFINE Goes(g, n) == IF n = 0 THEN [walk EXCEPT !.adjacent = <<>>, !.half = FALSE]
                         ELSE Take(g[n - 1], adj[n], Here)
           Builds(g, j) == g = [n \in 0..j |-> Goes(g, n)]
           S == {j \in Nat : \E g : Builds(g, j)}
<1>1. 0 \in S
  <2> DEFINE g == [n \in 0..0 |-> [walk EXCEPT !.adjacent = <<>>, !.half = FALSE]]
  <2>1. Builds(g, 0)
    OBVIOUS
  <2> QED
    BY <2>1
<1>2. ASSUME NEW j \in Nat, j \in S
      PROVE  j + 1 \in S
  <2>1. PICK g : Builds(g, j)
    BY <1>2
  <2> DEFINE h == [n \in 0..(j + 1) |-> IF n = j + 1 THEN Goes(g, n) ELSE g[n]]
  <2> HIDE DEF Goes
  <2>2. \A n \in 0..j : h[n] = g[n] /\ g[n] = Goes(g, n)
    BY <2>1
  <2>3. \A n \in 0..(j + 1) : (n # j + 1 => n \in 0..j) /\ (n # 0 => n - 1 \in 0..j)
    OBVIOUS
  <2>4. \A n \in 0..(j + 1) : h[n] = Goes(g, n) /\ (n # 0 => n - 1 \in 0..j)
    BY <2>2, <2>3
  <2>5. h = [n \in 0..(j + 1) |-> h[n]]
    OBVIOUS
  <2> HIDE DEF h
  <2>6. \A n \in 0..(j + 1) : Goes(g, n) = Goes(h, n)
    BY <2>2, <2>4 DEF Goes
  <2>7. Builds(h, j + 1)
    BY <2>4, <2>5, <2>6
  <2> QED
    BY <2>7
<1> HIDE DEF S
<1>3. Len(adj) \in S
  BY <1>1, <1>2, SetInduction
<1>4. PICK g : Builds(g, Len(adj))
  BY <1>3 DEF S
<1>5. Builds(Taken(adj), Len(adj))
  BY <1>4 DEF Taken
<1> HIDE DEF Goes
<1>6. \A n \in 0..Len(adj) : Taken(adj)[n] = Goes(Taken(adj), n)
  BY <1>5
<1>7. 0 \in 0..Len(adj) /\ \A n \in 1..Len(adj) : n \in 0..Len(adj) /\ n # 0
  OBVIOUS
<1> QED
  BY <1>6, <1>7 DEF Goes

\* Edges that are added while a walk goes on change nothing of it.
LEMMA EdgesGrow ==
  ASSUME ProvenanceTypeOK, WalkInv, UNCHANGED <<walk, known>>, edges' \in Seq(Edge), Len(edges) <= Len(edges'),
         \A i \in 1..Len(edges) : edges'[i] = edges[i]
  PROVE  WalkInv'
<1>1. Len(edges) \in Nat /\ Len(edges') \in Nat
  BY DEF ProvenanceTypeOK
<1>2. known' \in 0..Len(edges')
  BY <1>1 DEF WalkInv
<1> SUFFICES ASSUME walk.kind # "none" PROVE WalkInv'
  BY <1>2 DEF WalkInv
<1>3. /\ walk \in Walk /\ Entries(walk.out) \subseteq 1..Len(edges) /\ Entries(walk.adjacent) \subseteq 1..Len(edges)
      /\ Linked(walk) /\ Levels(walk) /\ OutSound(walk) /\ OutRead(walk) /\ Half(walk) /\ Ended(walk)
      /\ \A n \in Met(walk) : Read(walk, n) => Explored(walk, n) \/ Full(walk)
  BY DEF WalkInv, WalkOK
<1>4. \A i \in 1..Len(edges) : i \in 1..Len(edges') /\ edges'[i] = edges[i]
  BY <1>1
<1>5. Known' = Known /\ Known \subseteq 1..Len(edges)
  BY <1>1 DEF WalkInv, Known
<1>6. /\ Entries(walk.out)' = Entries(walk.out) /\ Entries(walk.adjacent)' = Entries(walk.adjacent)
      /\ Entries(walk.out)' \cup Entries(walk.adjacent)' \subseteq 1..Len(edges')
  BY <1>3, <1>4 DEF Entries
<1>7. \A n : walk.out[n] \in Entries(walk.out) <=> walk.out[n] \in Entries(walk.out)'
  BY <1>6
<1>8. \A i \in 1..Len(edges) : \A kind, a, b : Leads(kind, i, a, b)' = Leads(kind, i, a, b)
  BY <1>4 DEF Leads
<1>9. Linked(walk)'
  BY <1>3, <1>4, <1>6, <1>8 DEF Linked, Met, Level
<1>10. Levels(walk)' /\ Ended(walk)'
  BY <1>3 DEF Levels, Ended, Found, Full, Read, Met, Level, Entries
<1>11. OutSound(walk)'
  <2>1. \A n \in 1..Len(walk.out) : walk.out[n] \in 1..Len(edges)
    BY <1>3 DEF Entries
  <2>2. \A n \in 1..Len(walk.out) : edges'[walk.out[n]] = edges[walk.out[n]]
    BY <1>4, <2>1
  <2>3. \A i \in Entries(walk.out) : edges'[i] = edges[i]
    BY <1>3, <1>4
  <2>4. walk.out \in Seq(Nat)
    BY <1>3 DEF Walk
  <2>5. walk.kind = "trace" =>
           \A n \in 1..Len(walk.out) :
            \/ edges'[walk.out[n]].from = walk.from
            \/ \E m \in 1..n - 1 : edges'[walk.out[m]].to = edges'[walk.out[n]].from
    <3>1. \A n \in 1..Len(walk.out) : \A m \in 1..n - 1 : m \in 1..Len(walk.out)
      BY <2>4
    <3> QED
      BY <1>3, <2>2, <3>1 DEF OutSound
  <2> QED
    BY <1>3, <1>6, <2>3, <2>5 DEF OutSound, NoneTwice, Met
<1>12. OutRead(walk)'
  <2>1. \A i \in Entries(walk.out) : edges'[i] = edges[i]
    BY <1>3, <1>4
  <2>2. \A n : Read(walk, n)' = Read(walk, n)
    BY DEF Read, Met, Level, Entries
  <2> QED
    BY <1>3, <1>6, <2>1, <2>2 DEF OutRead
<1>13. Half(walk)'
  BY <1>3, <1>4, <1>5, <1>6 DEF Half
<1>14. \A n \in Met(walk) : Read(walk, n)' => Explored(walk, n)' \/ Full(walk)'
  BY <1>3, <1>5, <1>6, <1>8 DEF Explored, Read, Met, Level, Full, Entries
<1> QED
  BY <1>2, <1>3, <1>6, <1>9, <1>10, <1>11, <1>12, <1>13, <1>14 DEF WalkInv, WalkOK, Met

\* Where no edge is added, what holds of the new walk as a value holds of it in the new state.
LEMMA StepUnchanged ==
  ASSUME NEW v, walk' = v, UNCHANGED edges
  PROVE  /\ Linked(v) => Linked(walk)'
         /\ Levels(v) => Levels(walk)'
         /\ OutSound(v) => OutSound(walk)'
         /\ OutRead(v) => OutRead(walk)'
         /\ Ended(v) => Ended(walk)'
         /\ \A n : Read(walk, n)' = Read(v, n) /\ Full(walk)' = Full(v)
         /\ Met(walk)' = Met(v) /\ Entries(walk.out)' = Entries(v.out) /\ Entries(walk.adjacent)' = Entries(v.adjacent)
<1>1. /\ \A n : Read(walk, n)' = Read(v, n) /\ Full(walk)' = Full(v)
      /\ Met(walk)' = Met(v) /\ Entries(walk.out)' = Entries(v.out) /\ Entries(walk.adjacent)' = Entries(v.adjacent)
  BY DEF Read, Full, Met, Level, Entries
<1>2. Linked(v) => Linked(walk)'
  BY DEF Linked, Met, Level, Leads, Entries
<1>3. Levels(v) => Levels(walk)'
  BY DEF Levels, Met, Level, NoneTwice, Entries
<1>4. OutSound(v) => OutSound(walk)'
  BY DEF OutSound, Met, NoneTwice, Entries
<1>5. OutRead(v) => OutRead(walk)'
  BY DEF OutRead, Read, Met, Level, Entries
<1>6. Ended(v) => Ended(walk)'
  BY DEF Ended, Found, Full, Read, Met, Level, Entries
<1> QED
  BY <1>1, <1>2, <1>3, <1>4, <1>5, <1>6

LEMMA WalkBegins == ProvenanceTypeOK /\ BeginWalk => WalkInv'
<1> SUFFICES ASSUME ProvenanceTypeOK, BeginWalk PROVE WalkInv'
  OBVIOUS
<1>0. Kinds \subseteq {"trace", "subgraph", "path"}
  BY ProvenanceAssumption
<1>1. PICK kind \in {"trace", "subgraph", "path"}, from \in Node, to \in Node :
         /\ kind # "path" => to = from
         /\ walk' = [kind |-> kind, from |-> from, to |-> to, depth |-> 0,
                     frontier |-> <<from>>, next |-> <<>>, adjacent |-> <<>>, half |-> FALSE,
                     link |-> [n \in {from} |-> [prev |-> from, edge |-> 0, level |-> 0]],
                     out |-> <<>>, done |-> (kind = "path" /\ from = to) \/ maxDepth = 0]
  BY <1>0 DEF BeginWalk
<1> DEFINE link == [n \in {from} |-> [prev |-> from, edge |-> 0, level |-> 0]]
<1>2. PICK v : v = walk'
  OBVIOUS
<1>3. /\ v.kind = kind /\ v.from = from /\ v.to = to /\ v.depth = 0 /\ v.frontier = <<from>>
      /\ v.next = <<>> /\ v.adjacent = <<>> /\ v.half = FALSE /\ v.link = link /\ v.out = <<>>
      /\ v.done = ((kind = "path" /\ from = to) \/ maxDepth = 0)
  BY <1>1, <1>2
<1>4. Entries(<<from>>) = {from} /\ NoneTwice(<<from>>) /\ Entries(<<>>) = {} /\ NoneTwice(<<>>) /\ Len(<<>>) = 0
  BY DEF Entries, NoneTwice
<1>5. Met(v) = {from} /\ Level(v, from) = 0
  BY <1>3 DEF Met, Level
<1>6. v \in Walk
  <2>1. link \in [{from} -> Link] /\ {from} \in SUBSET Node
    BY DEF Link
  <2>2. v = [kind |-> kind, from |-> from, to |-> to, depth |-> 0,
             frontier |-> <<from>>, next |-> <<>>, adjacent |-> <<>>, half |-> FALSE,
             link |-> link, out |-> <<>>, done |-> v.done]
    BY <1>1, <1>2, <1>3
  <2>3. PICK done \in BOOLEAN : done = v.done
    BY <1>3
  <2>4. <<from>> \in Seq(Node) /\ <<>> \in Seq(Node) /\ <<>> \in Seq(Nat)
    OBVIOUS
  <2> HIDE DEF link
  <2>5. link \in UNION {[S -> Link] : S \in SUBSET Node}
    BY <2>1
  <2>6. v = [kind |-> kind, from |-> from, to |-> to, depth |-> 0,
             frontier |-> <<from>>, next |-> <<>>, adjacent |-> <<>>, half |-> FALSE,
             link |-> link, out |-> <<>>, done |-> done]
    BY <2>2, <2>3
  <2> QED
    BY <2>4, <2>5, <2>6 DEF Walk
<1> HIDE DEF link
<1>7. known' \in 0..Len(edges') /\ UNCHANGED edges
  BY DEF BeginWalk, ProvenanceTypeOK
<1>8. Linked(v)
  BY <1>3, <1>5 DEF Linked
<1>9. Levels(v)
  BY <1>3, <1>4, <1>5, ProvenanceAssumption DEF Levels
<1>10. OutSound(v)
  <2>1. \A n \in 1..Len(v.out) : FALSE
    BY <1>3, <1>4
  <2> QED
    BY <1>3, <1>4, <2>1, ProvenanceAssumption DEF OutSound
<1>11. OutRead(v)
  BY <1>3, <1>4 DEF OutRead
<1>12. \A n : ~Read(v, n)
  BY <1>3, <1>4, <1>5 DEF Read
<1>13. Ended(v)
  <2>1. CASE kind = "path" /\ from = to
    BY <1>3, <1>5, <2>1 DEF Ended, Found
  <2>2. CASE maxDepth = 0 /\ ~(kind = "path" /\ from = to)
    <3>1. v.done
      BY <1>3, <2>2, Zenon
    <3>2. \A n \in Met(v) : ~(Level(v, n) < maxDepth)
      BY <1>5, <2>2
    <3>3. ~(v.kind = "path" /\ v.to \in Met(v))
      BY <1>3, <1>5, <2>2
    <3> QED
      BY <3>1, <3>2, <3>3 DEF Ended
  <2>3. CASE maxDepth # 0 /\ ~(kind = "path" /\ from = to)
    <3>1. ~v.done
      BY <1>3, <2>3
    <3>2. v.depth < maxDepth /\ v.frontier # <<>>
      BY <1>3, <2>3, ProvenanceAssumption
    <3>3. v.kind = "path" => v.to \notin Met(v)
      BY <1>3, <1>5, <2>3
    <3> QED
      BY <3>1, <3>2, <3>3 DEF Ended
  <2> QED
    BY <2>1, <2>2, <2>3
<1>14. Half(walk)'
  BY <1>2, <1>3 DEF Half
<1> QED
  BY <1>2, <1>3, <1>4, <1>6, <1>7, <1>8, <1>9, <1>10, <1>11, <1>12, <1>13, <1>14, StepUnchanged DEF WalkInv, WalkOK

\* A walk that met the other end of an edge it read of a node, with what it then answers.
Grown(w, i, n, other, out, done) ==
    [kind |-> w.kind, from |-> w.from, to |-> w.to, depth |-> w.depth, frontier |-> w.frontier,
     next |-> IF other \in Met(w) THEN w.next ELSE Append(w.next, other),
     adjacent |-> w.adjacent, half |-> w.half,
     link |-> [x \in Met(w) \cup {other} |->
                 IF x \in Met(w) THEN w.link[x] ELSE [prev |-> n, edge |-> i, level |-> w.depth + 1]],
     out |-> out, done |-> done]

LEMMA TakeIs ==
  ASSUME NEW w \in Walk, NEW i, NEW n
  PROVE  /\ w.kind = "trace" => Take(w, i, n) = Grown(w, i, n, edges[i].to, Append(w.out, i), w.done)
         /\ w.kind = "subgraph" =>
              Take(w, i, n) = IF Full(w) \/ i \in Entries(w.out) THEN w
                              ELSE Grown(w, i, n, OtherEnd(i, n), Append(w.out, i), w.done)
         /\ w.kind = "path" =>
              Take(w, i, n) = IF w.done THEN w
                              ELSE Grown(w, i, n, OtherEnd(i, n), w.out, OtherEnd(i, n) = w.to)
<1>1. w = [kind |-> w.kind, from |-> w.from, to |-> w.to, depth |-> w.depth, frontier |-> w.frontier,
           next |-> w.next, adjacent |-> w.adjacent, half |-> w.half, link |-> w.link, out |-> w.out, done |-> w.done]
  BY DEF Walk
<1>2. w.link = [x \in Met(w) |-> w.link[x]]
  BY DEF Walk, Met
<1>3. ASSUME NEW other
      PROVE  Discover(w, i, n, other) = Grown(w, i, n, other, w.out, w.done)
  <2>1. CASE other \in Met(w)
    <3>1. Met(w) \cup {other} = Met(w)
      BY <2>1
    <3>2. w.link = [x \in Met(w) \cup {other} |->
                 IF x \in Met(w) THEN w.link[x] ELSE [prev |-> n, edge |-> i, level |-> w.depth + 1]]
      BY <1>2, <3>1
    <3>3. Discover(w, i, n, other) = w
      BY <2>1 DEF Discover, Met
    <3> QED
      BY <1>1, <2>1, <3>2, <3>3 DEF Grown
  <2>2. CASE other \notin Met(w)
    <3> DEFINE link == [x \in Met(w) \cup {other} |->
                         IF x = other THEN [prev |-> n, edge |-> i, level |-> w.depth + 1] ELSE w.link[x]]
    <3>1. link = [x \in Met(w) \cup {other} |->
                 IF x \in Met(w) THEN w.link[x] ELSE [prev |-> n, edge |-> i, level |-> w.depth + 1]]
      BY <2>2
    <3>2. Discover(w, i, n, other) = [w EXCEPT !.link = link, !.next = Append(w.next, other)]
      BY <2>2 DEF Discover, Met
    <3> HIDE DEF link
    <3>3. Discover(w, i, n, other) =
            [kind |-> w.kind, from |-> w.from, to |-> w.to, depth |-> w.depth, frontier |-> w.frontier,
             next |-> Append(w.next, other), adjacent |-> w.adjacent, half |-> w.half, link |-> link,
             out |-> w.out, done |-> w.done]
      BY <1>1, <3>2
    <3> QED
      BY <2>2, <3>1, <3>3 DEF Grown
  <2> QED
    BY <2>1, <2>2
<1>4. ASSUME NEW other, NEW out
      PROVE  /\ [Grown(w, i, n, other, w.out, w.done) EXCEPT !.out = out] = Grown(w, i, n, other, out, w.done)
             /\ [Grown(w, i, n, other, w.out, w.done) EXCEPT !.done = out] = Grown(w, i, n, other, w.out, out)
  <2> DEFINE next == IF other \in Met(w) THEN w.next ELSE Append(w.next, other)
             link == [x \in Met(w) \cup {other} |->
                        IF x \in Met(w) THEN w.link[x] ELSE [prev |-> n, edge |-> i, level |-> w.depth + 1]]
  <2>1. \A o, d : Grown(w, i, n, other, o, d) =
           [kind |-> w.kind, from |-> w.from, to |-> w.to, depth |-> w.depth, frontier |-> w.frontier,
            next |-> next, adjacent |-> w.adjacent, half |-> w.half, link |-> link, out |-> o, done |-> d]
    BY DEF Grown
  <2> HIDE DEF next, link
  <2> QED
    BY <2>1
<1>5. w.kind = "trace" => Take(w, i, n) = Grown(w, i, n, edges[i].to, Append(w.out, i), w.done)
  BY <1>3, <1>4 DEF Take
<1>6. w.kind = "subgraph" =>
              Take(w, i, n) = IF Full(w) \/ i \in Entries(w.out) THEN w
                              ELSE Grown(w, i, n, OtherEnd(i, n), Append(w.out, i), w.done)
  BY <1>3, <1>4 DEF Take, Full
<1>7. w.kind = "path" =>
              Take(w, i, n) = IF w.done THEN w
                              ELSE Grown(w, i, n, OtherEnd(i, n), w.out, OtherEnd(i, n) = w.to)
  <2> SUFFICES ASSUME w.kind = "path"
               PROVE  Take(w, i, n) = IF w.done THEN w
                                      ELSE Grown(w, i, n, OtherEnd(i, n), w.out, OtherEnd(i, n) = w.to)
    OBVIOUS
  <2> DEFINE arrived == OtherEnd(i, n) = w.to
  <2>1. Take(w, i, n) = IF w.done THEN w ELSE [Discover(w, i, n, OtherEnd(i, n)) EXCEPT !.done = arrived]
    BY DEF Take
  <2> HIDE DEF arrived
  <2>2. [Discover(w, i, n, OtherEnd(i, n)) EXCEPT !.done = arrived] = Grown(w, i, n, OtherEnd(i, n), w.out, arrived)
    BY <1>3, <1>4
  <2>3. Take(w, i, n) = IF w.done THEN w ELSE Grown(w, i, n, OtherEnd(i, n), w.out, arrived)
    BY <2>1, <2>2
  <2> QED
    BY <2>3 DEF arrived
<1> QED
  BY <1>5, <1>6, <1>7

\* The tree stays a tree: a node met for the first time is a level below the node whose edges are read.
LEMMA GrownTree ==
  ASSUME NEW w \in Walk, Linked(w), Levels(w), NEW n \in Met(w), Level(w, n) = w.depth, w.depth < maxDepth,
         NEW i \in 1..Len(edges), NEW other \in Node, Leads(w.kind, i, n, other),
         NEW out \in Seq(Nat), Entries(w.out) \subseteq Entries(out), w.kind # "path" => i \in Entries(out),
         NEW done \in BOOLEAN, NEW u, u = Grown(w, i, n, other, out, done), edges \in Seq(Edge)
  PROVE  /\ u \in Walk /\ Linked(u) /\ Levels(u)
         /\ u.kind = w.kind /\ u.from = w.from /\ u.to = w.to /\ u.depth = w.depth /\ u.frontier = w.frontier
         /\ u.adjacent = w.adjacent /\ u.half = w.half /\ u.out = out /\ u.done = done
         /\ Met(u) = Met(w) \cup {other} /\ \A x \in Met(w) : u.link[x] = w.link[x]
         /\ other \notin Met(w) => Level(u, other) = w.depth + 1
<1>1. /\ u.kind = w.kind /\ u.from = w.from /\ u.to = w.to /\ u.depth = w.depth /\ u.frontier = w.frontier
      /\ u.adjacent = w.adjacent /\ u.half = w.half /\ u.out = out /\ u.done = done
      /\ u.next = IF other \in Met(w) THEN w.next ELSE Append(w.next, other)
      /\ u.link = [x \in Met(w) \cup {other} |->
                 IF x \in Met(w) THEN w.link[x] ELSE [prev |-> n, edge |-> i, level |-> w.depth + 1]]
  BY DEF Grown
<1>2. /\ w.kind \in {"trace", "subgraph", "path"} /\ w.from \in Node /\ w.to \in Node /\ w.depth \in Nat
      /\ w.frontier \in Seq(Node) /\ w.next \in Seq(Node) /\ w.adjacent \in Seq(Nat) /\ w.half \in BOOLEAN
      /\ w.link \in UNION {[S -> Link] : S \in SUBSET Node}
  BY DEF Walk
<1>3. w.link \in [Met(w) -> Link] /\ Met(w) \in SUBSET Node
  BY <1>2 DEF Met
<1>4. /\ Met(u) = Met(w) \cup {other} /\ \A x \in Met(w) : u.link[x] = w.link[x]
      /\ other \notin Met(w) => u.link[other] = [prev |-> n, edge |-> i, level |-> w.depth + 1]
  BY <1>1 DEF Met
<1>5. Len(edges) \in Nat /\ i \in Nat /\ n \in Node
  BY <1>3
<1>6. u.link \in UNION {[S -> Link] : S \in SUBSET Node}
  <2>1. [prev |-> n, edge |-> i, level |-> w.depth + 1] \in Link
    BY <1>2, <1>5 DEF Link
  <2>2. u.link \in [Met(w) \cup {other} -> Link]
    BY <1>1, <1>3, <2>1
  <2>3. Met(w) \cup {other} \in SUBSET Node
    BY <1>3
  <2> QED
    BY <2>2, <2>3
<1>7. u.next \in Seq(Node)
  BY <1>1, <1>2, EntriesAppended
<1>8. u \in Walk
  <2>1. PICK link \in UNION {[S -> Link] : S \in SUBSET Node} : link = u.link
    BY <1>6
  <2>2. PICK next \in Seq(Node) : next = u.next
    BY <1>7
  <2>3. u = [kind |-> w.kind, from |-> w.from, to |-> w.to, depth |-> w.depth, frontier |-> w.frontier,
             next |-> next, adjacent |-> w.adjacent, half |-> w.half, link |-> link, out |-> out, done |-> done]
    BY <1>1, <2>1, <2>2 DEF Grown
  <2> QED
    BY <1>2, <2>3 DEF Walk
<1>9. \A x \in Met(w) : Level(u, x) = Level(w, x) /\ Level(w, x) \in Nat
  BY <1>3, <1>4 DEF Level, Link
<1>10. other \notin Met(w) => Level(u, other) = w.depth + 1
  BY <1>4 DEF Level
<1>11. Linked(u)
  <2>1. u.from \in Met(u) /\ Level(u, u.from) = 0
    BY <1>1, <1>4, <1>9 DEF Linked
  <2>2. ASSUME NEW x \in Met(w) \ {w.from}
        PROVE  /\ u.link[x].prev \in Met(u) /\ Level(u, x) = Level(u, u.link[x].prev) + 1
               /\ u.link[x].edge \in 1..Len(edges) /\ Leads(u.kind, u.link[x].edge, u.link[x].prev, x)
               /\ u.kind # "path" => u.link[x].edge \in Entries(u.out)
    <3>1. u.link[x] = w.link[x]
      BY <1>4
    <3> QED
      BY <1>1, <1>4, <1>9, <3>1 DEF Linked
  <2>3. ASSUME other \notin Met(w)
        PROVE  /\ u.link[other].prev \in Met(u) /\ Level(u, other) = Level(u, u.link[other].prev) + 1
               /\ u.link[other].edge \in 1..Len(edges) /\ Leads(u.kind, u.link[other].edge, u.link[other].prev, other)
               /\ u.kind # "path" => u.link[other].edge \in Entries(u.out)
    <3>1. u.link[other].prev = n /\ u.link[other].edge = i
      BY <1>4, <2>3
    <3>2. Level(u, n) = w.depth
      BY <1>9
    <3> QED
      BY <1>1, <1>4, <1>10, <2>3, <3>1, <3>2
  <2> QED
    BY <1>1, <1>4, <2>1, <2>2, <2>3 DEF Linked
<1>12. Levels(u)
  <2>1. maxDepth \in Nat
    BY ProvenanceAssumption
  <2>2. \A x \in Met(u) : Level(u, x) <= u.depth + 1 /\ Level(u, x) <= maxDepth
    <3>1. \A x \in Met(w) : Level(u, x) <= u.depth + 1 /\ Level(u, x) <= maxDepth
      BY <1>1, <1>9 DEF Levels
    <3>2. w.depth + 1 <= w.depth + 1 /\ w.depth + 1 <= maxDepth
      BY <1>2, <2>1
    <3> QED
      BY <1>1, <1>4, <1>10, <3>1, <3>2
  <2>3. \A x \in Entries(u.frontier) : x \in Met(u) /\ Level(u, x) = u.depth
    BY <1>1, <1>4, <1>9 DEF Levels
  <2>4. Entries(u.next) = {x \in Met(u) : Level(u, x) = u.depth + 1} /\ NoneTwice(u.next)
    <3>1. CASE other \in Met(w)
      BY <1>1, <1>4, <1>9, <3>1 DEF Levels
    <3>2. CASE other \notin Met(w)
      <4>1. Entries(u.next) = Entries(w.next) \cup {other}
        BY <1>1, <1>2, <3>2, EntriesAppended
      <4>2. other \notin Entries(w.next)
        BY <3>2 DEF Levels
      <4>3. NoneTwice(u.next)
        BY <1>1, <1>2, <3>2, <4>2, EntriesAppended DEF Levels
      <4> QED
        BY <1>1, <1>4, <1>9, <1>10, <3>2, <4>1, <4>3 DEF Levels
    <3> QED
      BY <3>1, <3>2
  <2> QED
    BY <1>1, <2>2, <2>3, <2>4 DEF Levels
<1> QED
  BY <1>1, <1>4, <1>8, <1>10, <1>11, <1>12

\* Where an edge of the node that is read leads.
Far(i) == IF walk.kind = "trace" THEN edges[i].to ELSE OtherEnd(i, Here)
OfHere(i) == i \in 1..Len(edges) /\ (edges[i].from = Here \/ (walk.kind # "trace" /\ edges[i].to = Here))

\* The walk when it has taken the edges J of the node it reads.
Stage(w, J) ==
    /\ w \in Walk /\ w.kind = walk.kind /\ w.from = walk.from /\ w.to = walk.to /\ w.depth = walk.depth
    /\ w.frontier = walk.frontier /\ w.adjacent = <<>> /\ w.half = FALSE
    /\ Met(walk) \subseteq Met(w) /\ \A x \in Met(walk) : w.link[x] = walk.link[x]
    /\ \A x \in Met(w) \ Met(walk) : Level(w, x) = w.depth + 1
    /\ Entries(walk.out) \subseteq Entries(w.out) /\ Entries(w.out) \subseteq Entries(walk.out) \cup J
    /\ Full(walk) => Full(w)
    /\ Linked(w) /\ Levels(w) /\ OutSound(w)
    /\ \A i \in J : \/ Full(w) \/ (w.kind = "path" /\ w.done)
                    \/ Far(i) \in Met(w) /\ (w.kind # "path" => i \in Entries(w.out))
    /\ w.kind # "path" => ~w.done
    /\ w.kind = "path" /\ w.done => w.to \in Met(w) /\ Level(w, w.to) = w.depth + 1
    /\ w.kind = "path" /\ ~w.done => w.to \notin Met(w)

\* What a walk that has not ended knows of the node it reads next.
LEMMA AtHere ==
  ASSUME ProvenanceTypeOK, WalkInv, Walking
  PROVE  /\ WalkOK(walk) /\ walk \in Walk /\ walk.frontier \in Seq(Node) /\ walk.frontier # <<>>
         /\ walk.depth \in Nat /\ walk.depth < maxDepth /\ walk.link \in [Met(walk) -> Link]
         /\ Here \in Entries(walk.frontier) /\ Here \in Met(walk) /\ Level(walk, Here) = walk.depth /\ Here \in Node
         /\ walk.kind = "path" => walk.to \notin Met(walk)
<1>1. WalkOK(walk) /\ walk \in Walk /\ Levels(walk) /\ Ended(walk) /\ ~walk.done
  BY DEF WalkInv, WalkOK, Walking
<1>2. walk.frontier \in Seq(Node) /\ walk.depth \in Nat /\ walk.link \in [Met(walk) -> Link]
  BY <1>1 DEF Walk, Met
<1>3. walk.frontier # <<>> /\ walk.depth < maxDepth /\ (walk.kind = "path" => walk.to \notin Met(walk))
  BY <1>1 DEF Ended
<1>4. Here \in Entries(walk.frontier) /\ Here \in Node
  BY <1>2, <1>3, EntriesOfTail DEF Here
<1> QED
  BY <1>1, <1>2, <1>3, <1>4 DEF Levels

LEMMA StageBegins ==
  ASSUME ProvenanceTypeOK, WalkInv, Walking, NEW w, w = [walk EXCEPT !.adjacent = <<>>, !.half = FALSE]
  PROVE  Stage(w, {})
<1>1. walk \in Walk /\ WalkOK(walk) /\ (walk.kind = "path" => walk.to \notin Met(walk)) /\ ~walk.done
  BY AtHere DEF Walking
<1>2. w = [kind |-> walk.kind, from |-> walk.from, to |-> walk.to, depth |-> walk.depth, frontier |-> walk.frontier,
           next |-> walk.next, adjacent |-> <<>>, half |-> FALSE, link |-> walk.link, out |-> walk.out,
           done |-> walk.done]
  BY <1>1 DEF Walk
<1>3. w \in Walk
  <2>1. /\ walk.kind \in {"trace", "subgraph", "path"} /\ walk.from \in Node /\ walk.to \in Node
        /\ walk.depth \in Nat /\ walk.frontier \in Seq(Node) /\ walk.next \in Seq(Node)
        /\ walk.link \in UNION {[S -> Link] : S \in SUBSET Node} /\ walk.out \in Seq(Nat) /\ walk.done \in BOOLEAN
    BY <1>1 DEF Walk
  <2>2. <<>> \in Seq(Nat)
    OBVIOUS
  <2> QED
    BY <1>2, <2>1, <2>2 DEF Walk
<1>4. /\ w.kind = walk.kind /\ w.from = walk.from /\ w.to = walk.to /\ w.depth = walk.depth
      /\ w.frontier = walk.frontier /\ w.next = walk.next /\ w.adjacent = <<>> /\ w.half = FALSE
      /\ w.link = walk.link /\ w.out = walk.out /\ ~w.done
  BY <1>1, <1>2
<1>5. Linked(w)
  BY <1>1, <1>4 DEF WalkOK, Linked, Met, Level
<1>6. Levels(w)
  BY <1>1, <1>4 DEF WalkOK, Levels, Met, Level
<1>7. OutSound(w)
  BY <1>1, <1>4 DEF WalkOK, OutSound, Met
<1> QED
  BY <1>1, <1>3, <1>4, <1>5, <1>6, <1>7 DEF Stage, Met, Full

LEMMA StageTakes ==
  ASSUME ProvenanceTypeOK, WalkInv, Walking, NEW w, NEW J, Stage(w, J), NEW i, OfHere(i),
         walk.kind = "trace" => i \notin J
  PROVE  Stage(Take(w, i, Here), J \cup {i})
<1> DEFINE u == Take(w, i, Here)
<1>1. /\ walk \in Walk /\ walk.depth \in Nat /\ walk.depth < maxDepth /\ walk.link \in [Met(walk) -> Link]
      /\ Here \in Entries(walk.frontier) /\ Here \in Met(walk) /\ Level(walk, Here) = walk.depth /\ Here \in Node
      /\ WalkOK(walk)
  BY AtHere
<1>2. /\ w \in Walk /\ w.kind = walk.kind /\ w.from = walk.from /\ w.to = walk.to /\ w.depth = walk.depth
      /\ w.frontier = walk.frontier /\ w.adjacent = <<>> /\ w.half = FALSE
      /\ Met(walk) \subseteq Met(w) /\ (\A x \in Met(walk) : w.link[x] = walk.link[x])
      /\ \A x \in Met(w) \ Met(walk) : Level(w, x) = w.depth + 1
      /\ Entries(walk.out) \subseteq Entries(w.out) /\ Entries(w.out) \subseteq Entries(walk.out) \cup J
      /\ Full(walk) => Full(w)
      /\ Linked(w) /\ Levels(w) /\ OutSound(w)
  BY DEF Stage
<1>3. /\ w.kind \in {"trace", "subgraph", "path"} /\ w.out \in Seq(Nat) /\ w.done \in BOOLEAN /\ Len(w.out) \in Nat
      /\ w.depth \in Nat
  BY <1>2 DEF Walk
<1>4. edges \in Seq(Edge) /\ Len(edges) \in Nat /\ i \in 1..Len(edges) /\ i \in Nat
  BY DEF ProvenanceTypeOK, OfHere
<1>5. edges[i].from \in Node /\ edges[i].to \in Node
  <2>1. edges[i] \in Edge
    BY <1>4
  <2> QED
    BY <2>1 DEF Edge, Node
<1>6. Far(i) \in Node /\ Leads(w.kind, i, Here, Far(i))
  BY <1>2, <1>5 DEF Far, OtherEnd, Leads, OfHere
<1>7. Here \in Met(w) /\ Level(w, Here) = w.depth /\ w.depth < maxDepth
  BY <1>1, <1>2 DEF Level
<1>8. ASSUME NEW out \in Seq(Nat), Entries(w.out) \subseteq Entries(out), w.kind # "path" => i \in Entries(out),
             Entries(out) \subseteq Entries(w.out) \cup {i}, NEW done \in BOOLEAN,
             u = Grown(w, i, Here, Far(i), out, done)
      PROVE  /\ u \in Walk /\ Linked(u) /\ Levels(u)
             /\ u.kind = walk.kind /\ u.from = walk.from /\ u.to = walk.to /\ u.depth = walk.depth
             /\ u.frontier = walk.frontier /\ u.adjacent = <<>> /\ u.half = FALSE /\ u.out = out /\ u.done = done
             /\ Met(u) = Met(w) \cup {Far(i)} /\ (\A x \in Met(w) : u.link[x] = w.link[x])
             /\ Met(walk) \subseteq Met(u) /\ (\A x \in Met(walk) : u.link[x] = walk.link[x])
             /\ \A x \in Met(u) \ Met(walk) : Level(u, x) = u.depth + 1
             /\ Entries(walk.out) \subseteq Entries(u.out) /\ Entries(u.out) \subseteq Entries(walk.out) \cup J \cup {i}
             /\ Far(i) \notin Met(w) => Level(u, Far(i)) = w.depth + 1
  <2> HIDE DEF u
  <2>1. /\ u \in Walk /\ Linked(u) /\ Levels(u)
        /\ u.kind = w.kind /\ u.from = w.from /\ u.to = w.to /\ u.depth = w.depth /\ u.frontier = w.frontier
        /\ u.adjacent = w.adjacent /\ u.half = w.half /\ u.out = out /\ u.done = done
        /\ Met(u) = Met(w) \cup {Far(i)} /\ \A x \in Met(w) : u.link[x] = w.link[x]
        /\ Far(i) \notin Met(w) => Level(u, Far(i)) = w.depth + 1
    BY <1>2, <1>4, <1>6, <1>7, <1>8, GrownTree
  <2>2. \A x \in Met(u) \ Met(walk) : Level(u, x) = u.depth + 1
    BY <1>2, <2>1 DEF Level
  <2> QED
    BY <1>2, <1>8, <2>1, <2>2
<1>9. /\ Append(w.out, i) \in Seq(Nat) /\ Entries(Append(w.out, i)) = Entries(w.out) \cup {i}
      /\ i \notin Entries(w.out) => NoneTwice(Append(w.out, i))
      /\ Len(Append(w.out, i)) = Len(w.out) + 1 /\ Append(w.out, i)[Len(w.out) + 1] = i
      /\ \A n \in 1..Len(w.out) : Append(w.out, i)[n] = w.out[n]
  BY <1>2, <1>3, <1>4, EntriesAppended DEF OutSound
<1>10. CASE w.kind = "trace"
  <2>1. u = Grown(w, i, Here, Far(i), Append(w.out, i), w.done)
    BY <1>2, <1>10, TakeIs DEF Far
  <2>2. /\ u \in Walk /\ Linked(u) /\ Levels(u)
        /\ u.kind = walk.kind /\ u.from = walk.from /\ u.to = walk.to /\ u.depth = walk.depth
        /\ u.frontier = walk.frontier /\ u.adjacent = <<>> /\ u.half = FALSE
        /\ u.out = Append(w.out, i) /\ u.done = w.done
        /\ Met(u) = Met(w) \cup {Far(i)} /\ (\A x \in Met(w) : u.link[x] = w.link[x])
        /\ Met(walk) \subseteq Met(u) /\ (\A x \in Met(walk) : u.link[x] = walk.link[x])
        /\ \A x \in Met(u) \ Met(walk) : Level(u, x) = u.depth + 1
        /\ Entries(walk.out) \subseteq Entries(u.out) /\ Entries(u.out) \subseteq Entries(walk.out) \cup J \cup {i}
    BY <1>3, <1>8, <1>9, <2>1
  <2> HIDE DEF u
  <2>3. edges[i].from = Here /\ Far(i) = edges[i].to
    BY <1>2, <1>10 DEF OfHere, Far
  <2>4. i \notin Entries(w.out)
    <3>1. i \notin Entries(walk.out)
      BY <1>1, <1>2, <1>10, <2>3 DEF WalkOK, OutRead, Read
    <3> QED
      BY <1>2, <1>10, <3>1
  <2>5. OutSound(u)
    <3>1. \A x \in Entries(u.out) : edges[x].from \in Met(u) /\ edges[x].to \in Met(u)
      BY <1>2, <1>7, <1>9, <2>2, <2>3 DEF OutSound
    <3>2. \A n \in 1..Len(u.out) : n \in 1..Len(w.out) \/ n = Len(w.out) + 1
      BY <1>3, <1>9, <2>2
    <3>3. ASSUME NEW n \in 1..Len(w.out)
          PROVE  \/ edges[u.out[n]].from = u.from
                 \/ \E m \in 1..n - 1 : edges[u.out[m]].to = edges[u.out[n]].from
      <4>1. \A m \in 1..n - 1 : m \in 1..Len(w.out) /\ u.out[m] = w.out[m]
        BY <1>3, <1>9, <2>2
      <4>2. \/ edges[w.out[n]].from = w.from
            \/ \E m \in 1..n - 1 : edges[w.out[m]].to = edges[w.out[n]].from
        BY <1>2, <1>10 DEF OutSound
      <4>3. u.out[n] = w.out[n] /\ u.from = w.from
        BY <1>2, <1>9, <2>2
      <4> QED
        BY <4>1, <4>2, <4>3
    <3>4. \/ edges[u.out[Len(w.out) + 1]].from = u.from
          \/ \E m \in 1..(Len(w.out) + 1) - 1 : edges[u.out[m]].to = edges[u.out[Len(w.out) + 1]].from
      <4>1. edges[u.out[Len(w.out) + 1]].from = Here
        BY <1>9, <2>2, <2>3
      <4>2. CASE Here = u.from
        BY <4>1, <4>2
      <4>3. CASE Here # u.from
        <5>1. w.link[Here].edge \in Entries(w.out) /\ edges[w.link[Here].edge].to = Here
          BY <1>2, <1>7, <1>10, <2>2, <4>3 DEF Linked, Leads
        <5>2. PICK m \in 1..Len(w.out) : w.out[m] = w.link[Here].edge
          BY <5>1 DEF Entries
        <5>3. m \in 1..(Len(w.out) + 1) - 1 /\ u.out[m] = w.out[m]
          BY <1>3, <1>9, <2>2
        <5> QED
          BY <4>1, <5>1, <5>2, <5>3
      <4> QED
        BY <4>2, <4>3
    <3> QED
      BY <1>2, <1>9, <1>10, <2>2, <2>4, <3>1, <3>2, <3>3, <3>4 DEF OutSound
  <2>6. \A j \in J \cup {i} : Far(j) \in Met(u) /\ j \in Entries(u.out)
    <3>1. ~Full(w)
      BY <1>10 DEF Full
    <3>2. \A j \in J : Far(j) \in Met(w) /\ j \in Entries(w.out)
      BY <1>10, <3>1 DEF Stage
    <3> QED
      BY <1>9, <2>2, <3>2
  <2>7. ~u.done /\ u.kind # "path"
    BY <1>2, <1>10, <2>2 DEF Stage
  <2>8. ~Full(walk)
    BY <1>2, <1>10 DEF Full
  <2>9. Entries(u.out) \subseteq Entries(walk.out) \cup (J \cup {i})
    BY <2>2
  <2> QED
    BY <2>2, <2>5, <2>6, <2>7, <2>8, <2>9 DEF Stage, u
<1>11. CASE w.kind = "subgraph"
  <2>1. CASE Full(w) \/ i \in Entries(w.out)
    <3>1. u = w
      BY <1>2, <1>11, <2>1, TakeIs
    <3> HIDE DEF u
    <3>2. Full(w) \/ Far(i) \in Met(w)
      <4>1. CASE i \in Entries(w.out)
        BY <1>2, <1>11, <4>1 DEF OutSound, Far, OtherEnd
      <4> QED
        BY <2>1, <4>1
    <3>3. Entries(w.out) \subseteq Entries(walk.out) \cup (J \cup {i})
      BY <1>2
    <3>4. Stage(w, J \cup {i})
      BY <1>11, <2>1, <3>2, <3>3 DEF Stage
    <3> QED
      BY <3>1, <3>4 DEF u
  <2>2. CASE ~(Full(w) \/ i \in Entries(w.out))
    <3>1. u = Grown(w, i, Here, Far(i), Append(w.out, i), w.done)
      BY <1>2, <1>11, <2>2, TakeIs DEF Far
    <3>2. /\ u \in Walk /\ Linked(u) /\ Levels(u)
          /\ u.kind = walk.kind /\ u.from = walk.from /\ u.to = walk.to /\ u.depth = walk.depth
          /\ u.frontier = walk.frontier /\ u.adjacent = <<>> /\ u.half = FALSE
          /\ u.out = Append(w.out, i) /\ u.done = w.done
          /\ Met(u) = Met(w) \cup {Far(i)} /\ (\A x \in Met(w) : u.link[x] = w.link[x])
          /\ Met(walk) \subseteq Met(u) /\ (\A x \in Met(walk) : u.link[x] = walk.link[x])
          /\ \A x \in Met(u) \ Met(walk) : Level(u, x) = u.depth + 1
          /\ Entries(walk.out) \subseteq Entries(u.out) /\ Entries(u.out) \subseteq Entries(walk.out) \cup J \cup {i}
      BY <1>3, <1>8, <1>9, <3>1
    <3> HIDE DEF u
    <3>3. OutSound(u)
      <4>1. {edges[i].from, edges[i].to} \subseteq Met(u)
        BY <1>2, <1>7, <1>11, <3>2 DEF Far, OtherEnd, OfHere
      <4>2. \A x \in Entries(u.out) : edges[x].from \in Met(u) /\ edges[x].to \in Met(u)
        BY <1>2, <1>9, <3>2, <4>1 DEF OutSound
      <4>3. Len(u.out) <= maxEdges
        BY <1>3, <1>9, <1>11, <2>2, <3>2, ProvenanceAssumption DEF Full
      <4> QED
        BY <1>2, <1>9, <1>11, <2>2, <3>2, <4>2, <4>3 DEF OutSound
    <3>4. \A j \in J \cup {i} : Far(j) \in Met(u) /\ j \in Entries(u.out)
      <4>1. \A j \in J : Far(j) \in Met(w) /\ j \in Entries(w.out)
        BY <1>11, <2>2 DEF Stage
      <4> QED
        BY <1>9, <3>2, <4>1
    <3>5. ~u.done /\ u.kind # "path" /\ ~Full(walk)
      BY <1>2, <1>11, <2>2, <3>2 DEF Stage
    <3>6. Entries(u.out) \subseteq Entries(walk.out) \cup (J \cup {i})
      BY <3>2
    <3> QED
      BY <3>2, <3>3, <3>4, <3>5, <3>6 DEF Stage, u
  <2> QED
    BY <2>1, <2>2
<1>12. CASE w.kind = "path"
  <2>1. CASE w.done
    <3>1. u = w
      BY <1>2, <1>12, <2>1, TakeIs
    <3> HIDE DEF u
    <3>2. Stage(w, J \cup {i})
      <4>1. Entries(w.out) \subseteq Entries(walk.out) \cup (J \cup {i})
        BY <1>2
      <4> QED
        BY <1>12, <2>1, <4>1 DEF Stage
    <3> QED
      BY <3>1, <3>2 DEF u
  <2>2. CASE ~w.done
    <3>1. PICK done \in BOOLEAN : done <=> (Far(i) = w.to)
      OBVIOUS
    <3>2. u = Grown(w, i, Here, Far(i), w.out, done)
      BY <1>2, <1>12, <2>2, <3>1, TakeIs DEF Far
    <3>3. /\ u \in Walk /\ Linked(u) /\ Levels(u)
          /\ u.kind = walk.kind /\ u.from = walk.from /\ u.to = walk.to /\ u.depth = walk.depth
          /\ u.frontier = walk.frontier /\ u.adjacent = <<>> /\ u.half = FALSE /\ u.out = w.out /\ u.done = done
          /\ Met(u) = Met(w) \cup {Far(i)} /\ (\A x \in Met(w) : u.link[x] = w.link[x])
          /\ Met(walk) \subseteq Met(u) /\ (\A x \in Met(walk) : u.link[x] = walk.link[x])
          /\ \A x \in Met(u) \ Met(walk) : Level(u, x) = u.depth + 1
          /\ Entries(walk.out) \subseteq Entries(u.out) /\ Entries(u.out) \subseteq Entries(walk.out) \cup J \cup {i}
          /\ Far(i) \notin Met(w) => Level(u, Far(i)) = w.depth + 1
      BY <1>3, <1>8, <1>12, <3>2
    <3> HIDE DEF u
    <3>4. OutSound(u)
      BY <1>2, <1>12, <3>3 DEF OutSound
    <3>5. w.to \notin Met(w)
      BY <1>12, <2>2 DEF Stage
    <3>6. u.done => u.to \in Met(u) /\ Level(u, u.to) = u.depth + 1
      BY <1>2, <3>1, <3>3, <3>5
    <3>7. ~u.done => u.to \notin Met(u)
      BY <1>2, <3>1, <3>3, <3>5
    <3>8. \A j \in J \cup {i} : Far(j) \in Met(u)
      BY <1>12, <2>2, <3>3 DEF Stage, Full
    <3>9. ~Full(walk) /\ Entries(u.out) \subseteq Entries(walk.out) \cup (J \cup {i})
      BY <1>2, <1>12, <3>3 DEF Full
    <3> QED
      BY <1>2, <1>12, <3>3, <3>4, <3>6, <3>7, <3>8, <3>9 DEF Stage, u
  <2> QED
    BY <2>1, <2>2
<1> QED
  BY <1>3, <1>10, <1>11, <1>12

LEMMA StageOfAll ==
  ASSUME ProvenanceTypeOK, WalkInv, Walking, NEW adj \in Seq(Nat), \A i \in Entries(adj) : OfHere(i),
         walk.kind = "trace" => NoneTwice(adj)
  PROVE  Stage(Taken(adj)[Len(adj)], Entries(adj))
<1> DEFINE S == {j \in Nat : j <= Len(adj) => Stage(Taken(adj)[j], {adj[n] : n \in 1..j})}
<1>1. Len(adj) \in Nat
  OBVIOUS
<1>2. 0 \in S
  <2>1. {adj[n] : n \in 1..0} = {}
    OBVIOUS
  <2>2. Taken(adj)[0] = [walk EXCEPT !.adjacent = <<>>, !.half = FALSE]
    BY <1>1, TakenIs
  <2>3. Stage(Taken(adj)[0], {})
    BY <2>2, StageBegins
  <2> QED
    BY <2>1, <2>3
<1>3. ASSUME NEW j \in Nat, j \in S PROVE j + 1 \in S
  <2> DEFINE J == {adj[n] : n \in 1..j}
             K == {adj[n] : n \in 1..(j + 1)}
  <2> SUFFICES ASSUME j + 1 <= Len(adj) PROVE Stage(Taken(adj)[j + 1], K)
    OBVIOUS
  <2>1. j + 1 \in 1..Len(adj) /\ (j + 1) - 1 = j /\ j <= Len(adj)
    BY <1>1
  <2>2. Stage(Taken(adj)[j], J)
    BY <1>3, <2>1
  <2>3. Taken(adj)[j + 1] = Take(Taken(adj)[j], adj[j + 1], Here)
    BY <1>1, <2>1, TakenIs
  <2>4. OfHere(adj[j + 1])
    BY <2>1 DEF Entries
  <2>5. walk.kind = "trace" => adj[j + 1] \notin J
    <3>1. \A n \in 1..j : n \in 1..Len(adj) /\ n # j + 1
      BY <1>1, <2>1
    <3> QED
      BY <2>1, <3>1 DEF NoneTwice
  <2>6. K = J \cup {adj[j + 1]}
    <3>1. \A n \in 1..(j + 1) : n \in 1..j \/ n = j + 1
      OBVIOUS
    <3>2. \A n \in 1..j : n \in 1..(j + 1)
      OBVIOUS
    <3>3. j + 1 \in 1..(j + 1)
      OBVIOUS
    <3> QED
      BY <3>1, <3>2, <3>3
  <2> HIDE DEF J, K
  <2> QED
    BY <2>2, <2>3, <2>4, <2>5, <2>6, StageTakes
<1> HIDE DEF S
<1>4. Len(adj) \in S
  BY <1>1, <1>2, <1>3, SetInduction
<1> QED
  BY <1>1, <1>4 DEF S, Entries

\* The nodes read, and what is explored of them, when all edges of a node are taken.
LEMMA HereIsExplored ==
  ASSUME ProvenanceTypeOK, WalkInv, Walking, NEW w, NEW J, Stage(w, J),
         \A i \in Known, m \in Node : Leads(walk.kind, i, Here, m) => i \in J
  PROVE  /\ (w.kind = "path" /\ w.done) \/ Explored(w, Here) \/ Full(w)
         /\ \A n : Read(walk, n) => Explored(w, n) \/ Full(w)
<1>1. /\ walk \in Walk /\ walk.link \in [Met(walk) -> Link] /\ Here \in Met(walk) /\ Level(walk, Here) = walk.depth
      /\ WalkOK(walk)
  BY AtHere
<1>2. /\ w.kind = walk.kind /\ w.depth = walk.depth /\ Levels(w)
      /\ Met(walk) \subseteq Met(w) /\ (\A x \in Met(walk) : w.link[x] = walk.link[x])
      /\ Entries(walk.out) \subseteq Entries(w.out) /\ (Full(walk) => Full(w))
  BY DEF Stage
<1>3. ASSUME ~(w.kind = "path" /\ w.done), ~Full(w) PROVE Explored(w, Here)
  <2> SUFFICES ASSUME NEW i \in Known, NEW m \in Node, Leads(w.kind, i, Here, m)
               PROVE  /\ m \in Met(w) /\ Level(w, m) <= Level(w, Here) + 1
                      /\ w.kind # "path" => i \in Entries(w.out)
    BY DEF Explored
  <2>1. i \in J
    BY <1>2
  <2>2. m = Far(i)
    BY <1>2 DEF Leads, Far, OtherEnd
  <2>3. m \in Met(w) /\ (w.kind # "path" => i \in Entries(w.out))
    BY <1>3, <2>1, <2>2 DEF Stage
  <2>4. Level(w, m) <= w.depth + 1
    BY <1>2, <2>3 DEF Levels
  <2>5. Level(w, Here) = w.depth
    BY <1>1, <1>2 DEF Level
  <2> QED
    BY <2>3, <2>4, <2>5
<1>4. ASSUME NEW n, Read(walk, n) PROVE Explored(w, n) \/ Full(w)
  <2>1. n \in Met(walk) /\ (Explored(walk, n) \/ Full(walk))
    BY <1>1, <1>4 DEF WalkOK, Read
  <2>2. ASSUME Explored(walk, n) PROVE Explored(w, n)
    BY <1>2, <2>1, <2>2 DEF Explored, Level
  <2> QED
    BY <1>2, <2>1, <2>2
<1> QED
  BY <1>3, <1>4

LEMMA AdvanceOK ==
  ASSUME ProvenanceTypeOK, WalkInv, Walking, NEW w, NEW J, Stage(w, J),
         \A i \in J : OfHere(i),
         \A i \in Known, m \in Node : Leads(walk.kind, i, Here, m) => i \in J,
         NEW u, u = Advance(w)
  PROVE  /\ u \in Walk /\ Entries(u.out) \subseteq 1..Len(edges)
         /\ u.adjacent = <<>> /\ u.half = FALSE
         /\ Linked(u) /\ Levels(u) /\ OutSound(u) /\ OutRead(u) /\ Ended(u)
         /\ \A n \in Met(u) : Read(u, n) => Explored(u, n) \/ Full(u)
<1>1. /\ walk \in Walk /\ walk.depth \in Nat /\ walk.depth < maxDepth /\ walk.link \in [Met(walk) -> Link]
      /\ walk.frontier \in Seq(Node) /\ walk.frontier # <<>> /\ Level(walk, Here) = walk.depth
      /\ Here \in Entries(walk.frontier) /\ Here \in Met(walk) /\ WalkOK(walk) /\ Levels(walk)
  BY AtHere DEF WalkOK
<1>2. /\ w \in Walk /\ w.kind = walk.kind /\ w.from = walk.from /\ w.to = walk.to /\ w.depth = walk.depth
      /\ w.frontier = walk.frontier /\ w.adjacent = <<>> /\ w.half = FALSE
      /\ Met(walk) \subseteq Met(w) /\ (\A x \in Met(walk) : w.link[x] = walk.link[x])
      /\ \A x \in Met(w) \ Met(walk) : Level(w, x) = w.depth + 1
      /\ Entries(walk.out) \subseteq Entries(w.out) /\ Entries(w.out) \subseteq Entries(walk.out) \cup J
      /\ Linked(w) /\ Levels(w) /\ OutSound(w)
      /\ w.kind # "path" => ~w.done
      /\ w.kind = "path" /\ w.done => w.to \in Met(w) /\ Level(w, w.to) = w.depth + 1
      /\ w.kind = "path" /\ ~w.done => w.to \notin Met(w)
  BY DEF Stage
<1>3. /\ w.kind \in {"trace", "subgraph", "path"} /\ w.from \in Node /\ w.to \in Node /\ w.depth \in Nat
      /\ w.frontier \in Seq(Node) /\ w.next \in Seq(Node) /\ w.link \in UNION {[S -> Link] : S \in SUBSET Node}
      /\ w.out \in Seq(Nat) /\ w.done \in BOOLEAN
  BY <1>2 DEF Walk
<1>13. w = [kind |-> w.kind, from |-> w.from, to |-> w.to, depth |-> w.depth, frontier |-> w.frontier,
            next |-> w.next, adjacent |-> w.adjacent, half |-> w.half, link |-> w.link, out |-> w.out, done |-> w.done]
  BY <1>2 DEF Walk
<1>4. maxDepth \in Nat /\ \A n \in Met(w) : Level(w, n) \in Nat
  BY <1>3, ProvenanceAssumption DEF Met, Level, Link
<1>5. Entries(w.out) \subseteq 1..Len(edges)
  BY <1>1, <1>2 DEF WalkOK, OfHere
<1>6. /\ (w.kind = "path" /\ w.done) \/ Explored(w, Here) \/ Full(w)
      /\ \A n : Read(walk, n) => Explored(w, n) \/ Full(w)
  BY HereIsExplored
\* What lies at or above the level that is read was met before.
<1>7. \A n \in Met(w) : Level(w, n) <= w.depth => n \in Met(walk) /\ Level(walk, n) = Level(w, n)
  BY <1>2, <1>3, <1>4 DEF Level
<1>8. w.kind = "trace" => \A i \in Entries(w.out) : Read(walk, edges[i].from) \/ edges[i].from = Here
  BY <1>1, <1>2 DEF WalkOK, OutRead, OfHere
<1>9. /\ Tail(w.frontier) \in Seq(Node) /\ NoneTwice(Tail(w.frontier))
      /\ Entries(Tail(w.frontier)) = Entries(w.frontier) \ {Here} /\ Here = Head(w.frontier)
      /\ Here \in Entries(w.frontier)
  BY <1>1, <1>2, EntriesOfTail DEF Levels, Here
<1>10. CASE w.done
  <2>1. u = w
    BY <1>10 DEF Advance
  <2>2. w.kind = "path" /\ Found(w)
    BY <1>2, <1>10 DEF Found
  <2>3. Ended(w) /\ OutRead(w)
    BY <1>10, <2>2 DEF Ended, OutRead
  <2>4. \A n \in Met(w) : Read(w, n) => Explored(w, n) \/ Full(w)
    <3>1. \A n : Read(w, n) => Read(walk, n)
      BY <1>2, <1>7 DEF Read
    <3> QED
      BY <1>6, <3>1
  <2> QED
    BY <1>2, <1>5, <2>1, <2>3, <2>4
<1>11. ASSUME ~w.done, Len(w.frontier) > 1
       PROVE  /\ u \in Walk /\ Entries(u.out) \subseteq 1..Len(edges)
              /\ u.adjacent = <<>> /\ u.half = FALSE
              /\ Linked(u) /\ Levels(u) /\ OutSound(u) /\ OutRead(u) /\ Ended(u)
              /\ \A n \in Met(u) : Read(u, n) => Explored(u, n) \/ Full(u)
  <2>1. u = [w EXCEPT !.frontier = Tail(@)]
    BY <1>11 DEF Advance
  <2>2. u = [kind |-> w.kind, from |-> w.from, to |-> w.to, depth |-> w.depth, frontier |-> Tail(w.frontier),
              next |-> w.next, adjacent |-> <<>>, half |-> FALSE, link |-> w.link, out |-> w.out,
              done |-> w.done]
    <3>1. u = [kind |-> w.kind, from |-> w.from, to |-> w.to, depth |-> w.depth, frontier |-> Tail(w.frontier),
               next |-> w.next, adjacent |-> w.adjacent, half |-> w.half, link |-> w.link, out |-> w.out,
               done |-> w.done]
      BY <1>13, <2>1
    <3> QED
      BY <1>2, <3>1
  <2>3. /\ u.kind = w.kind /\ u.from = w.from /\ u.to = w.to /\ u.depth = w.depth /\ u.frontier = Tail(w.frontier)
        /\ u.next = w.next /\ u.adjacent = <<>> /\ u.half = FALSE /\ u.link = w.link /\ u.out = w.out
        /\ ~u.done /\ Met(u) = Met(w) /\ \A n : Level(u, n) = Level(w, n)
    BY <1>2, <1>11, <2>2 DEF Met, Level
  <2>4. u \in Walk
    <3>1. <<>> \in Seq(Nat) /\ Tail(w.frontier) \in Seq(Node)
      BY <1>9
    <3> QED
      BY <1>3, <2>2, <3>1 DEF Walk
  <2>5. Linked(u)
    BY <1>2, <2>3 DEF Linked
  <2>6. Levels(u)
    BY <1>2, <1>9, <2>3 DEF Levels
  <2>7. OutSound(u)
    BY <1>2, <2>3 DEF OutSound
  <2>8. \A n : Read(u, n) <=> Read(walk, n) \/ n = Here
    BY <1>1, <1>2, <1>3, <1>7, <1>9, <2>3 DEF Read, Level
  <2>9. OutRead(u)
    BY <1>8, <2>3, <2>8 DEF OutRead
  <2>10. Ended(u)
    <3>1. u.frontier # <<>>
      <4>1. w.frontier \in Seq(Node) /\ Len(w.frontier) > 1
        BY <1>3, <1>11
      <4>2. Len(Tail(w.frontier)) > 0
        BY <4>1
      <4>3. Tail(w.frontier) # <<>>
        BY <4>2
      <4> QED
        BY <2>3, <4>3
    <3> QED
      BY <1>1, <1>2, <1>11, <2>3, <3>1 DEF Ended
  <2>11. \A n \in Met(u) : Read(u, n) => Explored(u, n) \/ Full(u)
    BY <1>6, <1>11, <2>3, <2>8 DEF Explored, Full
  <2> QED
    BY <1>5, <2>3, <2>4, <2>5, <2>6, <2>7, <2>9, <2>10, <2>11
<1>12. ASSUME ~w.done, ~(Len(w.frontier) > 1)
       PROVE  /\ u \in Walk /\ Entries(u.out) \subseteq 1..Len(edges)
              /\ u.adjacent = <<>> /\ u.half = FALSE
              /\ Linked(u) /\ Levels(u) /\ OutSound(u) /\ OutRead(u) /\ Ended(u)
              /\ \A n \in Met(u) : Read(u, n) => Explored(u, n) \/ Full(u)
  <2>1. PICK done \in BOOLEAN : done <=> \/ w.next = <<>> \/ w.depth + 1 = maxDepth
                                         \/ w.kind = "subgraph" /\ Len(w.out) >= maxEdges
    OBVIOUS
  <2>2. u = [w EXCEPT !.frontier = w.next, !.next = <<>>, !.depth = @ + 1, !.done = done]
    BY <1>12, <2>1 DEF Advance
  <2>3. u = [kind |-> w.kind, from |-> w.from, to |-> w.to, depth |-> w.depth + 1, frontier |-> w.next,
              next |-> <<>>, adjacent |-> <<>>, half |-> FALSE, link |-> w.link, out |-> w.out,
              done |-> done]
    <3>1. u = [kind |-> w.kind, from |-> w.from, to |-> w.to, depth |-> w.depth + 1, frontier |-> w.next,
               next |-> <<>>, adjacent |-> w.adjacent, half |-> w.half, link |-> w.link, out |-> w.out,
               done |-> done]
      BY <1>13, <2>2
    <3> QED
      BY <1>2, <3>1
  <2>4. /\ u.kind = w.kind /\ u.from = w.from /\ u.to = w.to /\ u.depth = w.depth + 1 /\ u.frontier = w.next
        /\ u.next = <<>> /\ u.adjacent = <<>> /\ u.half = FALSE /\ u.link = w.link /\ u.out = w.out
        /\ u.done = done /\ Met(u) = Met(w) /\ \A n : Level(u, n) = Level(w, n)
    BY <1>2, <2>3 DEF Met, Level
  <2>5. u \in Walk
    <3>1. <<>> \in Seq(Nat) /\ <<>> \in Seq(Node) /\ w.depth + 1 \in Nat
      BY <1>3
    <3> QED
      BY <1>3, <2>3, <3>1 DEF Walk
  <2>6. Linked(u)
    BY <1>2, <2>4 DEF Linked
  <2>7. Levels(u)
    <3>1. Entries(<<>>) = {} /\ NoneTwice(<<>>)
      BY DEF Entries, NoneTwice
    <3>2. \A n \in Met(w) : Level(w, n) <= (w.depth + 1) + 1 /\ Level(w, n) # (w.depth + 1) + 1
      BY <1>2, <1>3, <1>4 DEF Levels
    <3> QED
      BY <1>2, <2>4, <3>1, <3>2 DEF Levels
  <2>8. OutSound(u)
    BY <1>2, <2>4 DEF OutSound
  <2>9. Entries(w.frontier) = {Here}
    <3>1. Len(w.frontier) = 1
      <4>1. w.frontier \in Seq(Node) /\ w.frontier # <<>>
        BY <1>1, <1>2
      <4>2. Len(w.frontier) \in Nat /\ Len(w.frontier) # 0
        BY <4>1
      <4>3. PICK j \in Nat : j = Len(w.frontier)
        BY <4>2
      <4>4. j <= 1
        BY <1>12, <4>3
      <4>5. j # 0
        BY <4>2, <4>3
      <4>6. j = 1
        BY <4>4, <4>5
      <4> QED
        BY <4>3, <4>6
    <3> QED
      BY <1>9, <3>1 DEF Entries
  <2>10. \A n \in Met(w) : Level(w, n) <= w.depth <=> Level(w, n) # w.depth + 1
    BY <1>2, <1>3, <1>4 DEF Levels
  <2>11. \A n : Read(u, n) <=> n \in Met(w) /\ Level(w, n) <= w.depth
    BY <1>2, <1>3, <1>4, <2>4, <2>10 DEF Read, Levels
  <2>12. \A n : Read(u, n) <=> Read(walk, n) \/ n = Here
    BY <1>1, <1>2, <1>7, <2>9, <2>11 DEF Read, Level
  <2>13. OutRead(u)
    BY <1>8, <2>4, <2>12 DEF OutRead
  <2>14. Ended(u)
    <3>1. CASE ~done
      <4>1. w.next # <<>> /\ w.depth + 1 # maxDepth
        BY <2>1, <3>1
      <4>2. w.depth + 1 < maxDepth
        BY <1>1, <1>2, <1>4, <4>1
      <4> QED
        BY <1>2, <1>12, <2>4, <3>1, <4>1, <4>2 DEF Ended
    <3>2. CASE done
      <4>1. CASE Full(w)
        BY <2>4, <3>2, <4>1 DEF Ended, Full
      <4>2. CASE ~Full(w)
        <5>1. ~(u.kind = "path" /\ u.to \in Met(u))
          BY <1>2, <1>12, <2>4
        <5>2. w.next = <<>> \/ w.depth + 1 = maxDepth
          BY <2>1, <3>2, <4>2 DEF Full
        <5>3. \A n \in Met(u) : Level(u, n) < maxDepth => Read(u, n)
          <6>1. ASSUME w.next = <<>> PROVE \A n \in Met(w) : Level(w, n) # w.depth + 1
            <7>1. Entries(w.next) = {}
              BY <6>1 DEF Entries
            <7> QED
              BY <1>2, <7>1 DEF Levels
          <6> QED
            BY <1>4, <2>4, <2>10, <2>11, <5>2, <6>1
        <5> QED
          BY <2>4, <3>2, <5>1, <5>3 DEF Ended
      <4> QED
        BY <4>1, <4>2
    <3> QED
      BY <3>1, <3>2
  <2>15. \A n \in Met(u) : Read(u, n) => Explored(u, n) \/ Full(u)
    BY <1>6, <1>12, <2>4, <2>12 DEF Explored, Full
  <2> QED
    BY <1>5, <2>4, <2>5, <2>6, <2>7, <2>8, <2>13, <2>14, <2>15
<1> QED
  BY <1>3, <1>10, <1>11, <1>12

LEMMA Visits ==
  ASSUME ProvenanceTypeOK, WalkInv, Walking, UNCHANGED <<edges, known>>,
         NEW adj \in Seq(Nat), \A i \in Entries(adj) : OfHere(i), walk.kind = "trace" => NoneTwice(adj),
         \A i \in Known, m \in Node : Leads(walk.kind, i, Here, m) => i \in Entries(adj),
         walk' = Visit(adj)
  PROVE  WalkInv'
<1>1. PICK u : u = Visit(adj)
  OBVIOUS
<1>2. /\ u \in Walk /\ Entries(u.out) \subseteq 1..Len(edges) /\ u.adjacent = <<>> /\ u.half = FALSE
      /\ Linked(u) /\ Levels(u) /\ OutSound(u) /\ OutRead(u) /\ Ended(u)
      /\ \A n \in Met(u) : Read(u, n) => Explored(u, n) \/ Full(u)
  <2>1. PICK w : w = Taken(adj)[Len(adj)]
    OBVIOUS
  <2>2. Stage(w, Entries(adj))
    BY <2>1, StageOfAll
  <2>3. u = Advance(w)
    BY <1>1, <2>1 DEF Visit
  <2> QED
    BY <2>2, <2>3, AdvanceOK
<1>3. walk' = u /\ Entries(u.adjacent) = {}
  BY <1>1, <1>2 DEF Entries
<1>4. Half(walk)'
  BY <1>2, <1>3 DEF Half
<1>5. \A n : Explored(u, n) => Explored(walk, n)'
  BY <1>3 DEF Explored, Met, Level, Leads, Known, Entries
<1>6. known' \in 0..Len(edges')
  BY DEF WalkInv
<1>7. /\ Linked(walk)' /\ Levels(walk)' /\ OutSound(walk)' /\ OutRead(walk)' /\ Ended(walk)'
      /\ \A n : Read(walk, n)' = Read(u, n) /\ Full(walk)' = Full(u)
      /\ Met(walk)' = Met(u) /\ Entries(walk.out)' = Entries(u.out) /\ Entries(walk.adjacent)' = Entries(u.adjacent)
  BY <1>2, <1>3, StepUnchanged
<1> QED
  BY <1>2, <1>3, <1>4, <1>5, <1>6, <1>7 DEF WalkInv, WalkOK

\* The edges of the node that is read, as the two queries list them.
LEMMA AdjacentEdges ==
  ASSUME ProvenanceTypeOK, WalkInv, Walking
  PROVE  /\ outgoing(Here) \in Seq(Nat) /\ NoneTwice(outgoing(Here))
         /\ Entries(outgoing(Here)) = {i \in 1..Len(edges) : edges[i].from = Here}
         /\ incoming(Here) \in Seq(Nat)
         /\ Entries(incoming(Here)) = {i \in 1..Len(edges) : edges[i].to = Here}
         /\ Known \subseteq 1..Len(edges)
<1>1. edges \in Seq(Edge) /\ DOMAIN edges = 1..Len(edges) /\ Len(edges) \in Nat
  BY DEF ProvenanceTypeOK
<1> DEFINE From == {i \in 1..Len(edges) : edges[i].from = Here}
           To == {i \in 1..Len(edges) : edges[i].to = Here}
<1>2. From \subseteq 1..Len(edges) /\ To \subseteq 1..Len(edges) /\ From \subseteq Nat /\ To \subseteq Nat
  BY <1>1
<1>3. outgoing(Here) = NewestFirst(From) /\ incoming(Here) = NewestFirst(To)
  BY <1>1 DEF outgoing, incoming
<1> HIDE DEF From, To
<1>4. /\ NewestFirst(From) \in Seq(From) /\ NoneTwice(NewestFirst(From)) /\ Entries(NewestFirst(From)) = From
      /\ NewestFirst(To) \in Seq(To) /\ Entries(NewestFirst(To)) = To
  BY <1>1, <1>2, NewestFirstLists
<1>5. NewestFirst(From) \in Seq(Nat) /\ NewestFirst(To) \in Seq(Nat)
  <2>1. \A T \in SUBSET Nat : \A s \in Seq(T) : s \in Seq(Nat)
    <3> SUFFICES ASSUME NEW T \in SUBSET Nat, NEW s \in Seq(T) PROVE s \in Seq(Nat)
      OBVIOUS
    <3>1. Len(s) \in Nat /\ s = [n \in 1..Len(s) |-> s[n]] /\ \A n \in 1..Len(s) : s[n] \in T
      OBVIOUS
    <3>2. \A n \in 1..Len(s) : s[n] \in Nat
      BY <3>1
    <3>3. [n \in 1..Len(s) |-> s[n]] \in Seq(Nat)
      BY <3>1, <3>2
    <3> QED
      BY <3>1, <3>3
  <2>2. From \in SUBSET Nat /\ To \in SUBSET Nat
    BY <1>2
  <2> QED
    BY <1>4, <2>1, <2>2
<1>6. Known \subseteq 1..Len(edges)
  BY <1>1 DEF WalkInv, Known
<1> QED
  BY <1>3, <1>4, <1>5, <1>6 DEF From, To

LEMMA WalkReadsOutgoing == ProvenanceTypeOK /\ WalkInv /\ ReadOutgoing => WalkInv'
<1> SUFFICES ASSUME ProvenanceTypeOK, WalkInv, ReadOutgoing PROVE WalkInv'
  OBVIOUS
<1>1. Walking /\ ~walk.half /\ UNCHANGED <<edges, known>>
  BY DEF ReadOutgoing
<1>2. /\ outgoing(Here) \in Seq(Nat) /\ NoneTwice(outgoing(Here))
      /\ Entries(outgoing(Here)) = {i \in 1..Len(edges) : edges[i].from = Here}
      /\ Known \subseteq 1..Len(edges)
  BY <1>1, AdjacentEdges
<1>3. CASE walk.kind = "trace"
  <2>1. walk' = Visit(outgoing(Here))
    BY <1>3 DEF ReadOutgoing
  <2>2. \A i \in Entries(outgoing(Here)) : OfHere(i)
    BY <1>2 DEF OfHere
  <2>3. \A i \in Known, m \in Node : Leads(walk.kind, i, Here, m) => i \in Entries(outgoing(Here))
    BY <1>2, <1>3 DEF Leads
  <2> QED
    BY <1>1, <1>2, <2>1, <2>2, <2>3, Visits
<1>4. CASE walk.kind # "trace"
  <2> DEFINE adj == outgoing(Here)
  <2>1. walk' = [walk EXCEPT !.adjacent = adj, !.half = TRUE]
    BY <1>4 DEF ReadOutgoing
  <2>2. WalkOK(walk) /\ walk \in Walk /\ ~walk.done
    BY <1>1, AtHere DEF Walking
  <2>3. PICK u : u = walk'
    OBVIOUS
  <2> HIDE DEF adj
  <2>4. walk = [kind |-> walk.kind, from |-> walk.from, to |-> walk.to, depth |-> walk.depth,
                frontier |-> walk.frontier, next |-> walk.next, adjacent |-> walk.adjacent, half |-> walk.half,
                link |-> walk.link, out |-> walk.out, done |-> walk.done]
    BY <2>2 DEF Walk
  <2>5. u = [kind |-> walk.kind, from |-> walk.from, to |-> walk.to, depth |-> walk.depth,
             frontier |-> walk.frontier, next |-> walk.next, adjacent |-> adj, half |-> TRUE,
             link |-> walk.link, out |-> walk.out, done |-> walk.done]
    BY <2>1, <2>3, <2>4
  <2>6. /\ u.kind = walk.kind /\ u.from = walk.from /\ u.to = walk.to /\ u.depth = walk.depth
        /\ u.frontier = walk.frontier /\ u.next = walk.next /\ u.adjacent = adj /\ u.half = TRUE
        /\ u.link = walk.link /\ u.out = walk.out /\ ~u.done
        /\ Met(u) = Met(walk) /\ \A n : Level(u, n) = Level(walk, n)
    BY <2>2, <2>5 DEF Met, Level
  <2>7. u \in Walk
    <3>1. /\ walk.kind \in {"trace", "subgraph", "path"} /\ walk.from \in Node /\ walk.to \in Node
          /\ walk.depth \in Nat /\ walk.frontier \in Seq(Node) /\ walk.next \in Seq(Node)
          /\ walk.link \in UNION {[S -> Link] : S \in SUBSET Node} /\ walk.out \in Seq(Nat) /\ walk.done \in BOOLEAN
      BY <2>2 DEF Walk
    <3>2. adj \in Seq(Nat)
      BY <1>2 DEF adj
    <3> QED
      BY <2>5, <3>1, <3>2 DEF Walk
  <2>8. Linked(u)
    BY <2>2, <2>6 DEF WalkOK, Linked
  <2>9. Levels(u)
    BY <2>2, <2>6 DEF WalkOK, Levels
  <2>10. OutSound(u)
    BY <2>2, <2>6 DEF WalkOK, OutSound
  <2>11. \A n : (Read(u, n) <=> Read(walk, n)) /\ (Full(u) <=> Full(walk)) /\ (Explored(u, n) <=> Explored(walk, n))
    BY <2>6 DEF Read, Full, Explored
  <2>12. OutRead(u) /\ Ended(u)
    BY <2>2, <2>6, <2>11 DEF WalkOK, OutRead, Ended
  <2>13. Entries(adj) = {i \in 1..Len(edges) : edges[i].from = Here} /\ Here = Head(walk.frontier)
    BY <1>2 DEF adj, Here
  <2>14. Half(walk)'
    <3>1. \A i \in Known : edges[i].from = Head(u.frontier) => i \in Entries(adj)
      BY <1>2, <2>6, <2>13
    <3>2. \A i \in Entries(adj) : edges[i].from = Head(u.frontier)
      BY <2>6, <2>13
    <3>3. Entries(walk.adjacent)' = Entries(adj) /\ walk' = u /\ Known' = Known
      BY <1>1, <2>3, <2>6 DEF Entries, Known
    <3> QED
      BY <1>1, <1>4, <2>6, <3>1, <3>2, <3>3 DEF Half
  <2>15. \A n : Explored(u, n) => Explored(walk, n)'
    BY <1>1, <2>3 DEF Explored, Met, Level, Leads, Known, Entries
  <2>16. /\ Linked(walk)' /\ Levels(walk)' /\ OutSound(walk)' /\ OutRead(walk)' /\ Ended(walk)'
         /\ \A n : Read(walk, n)' = Read(u, n) /\ Full(walk)' = Full(u)
         /\ Met(walk)' = Met(u) /\ Entries(walk.out)' = Entries(u.out) /\ Entries(walk.adjacent)' = Entries(u.adjacent)
    BY <1>1, <2>3, <2>8, <2>9, <2>10, <2>12, StepUnchanged
  <2>17. Entries(u.out) \cup Entries(u.adjacent) \subseteq 1..Len(edges)
    BY <2>2, <2>6, <2>13 DEF WalkOK
  <2>18. \A n \in Met(u) : Read(u, n) => Explored(u, n) \/ Full(u)
    BY <2>2, <2>6, <2>11 DEF WalkOK
  <2> QED
    BY <1>1, <2>3, <2>7, <2>14, <2>15, <2>16, <2>17, <2>18 DEF WalkInv, WalkOK
<1> QED
  BY <1>3, <1>4

LEMMA WalkReadsIncoming == ProvenanceTypeOK /\ WalkInv /\ ReadIncoming => WalkInv'
<1> SUFFICES ASSUME ProvenanceTypeOK, WalkInv, ReadIncoming PROVE WalkInv'
  OBVIOUS
<1> DEFINE adj == walk.adjacent \o incoming(Here)
<1>1. Walking /\ walk.half /\ UNCHANGED <<edges, known>> /\ walk' = Visit(adj)
  BY DEF ReadIncoming
<1>2. WalkOK(walk) /\ walk.adjacent \in Seq(Nat)
  BY <1>1, AtHere DEF Walk
<1>3. /\ walk.kind # "trace" /\ Entries(walk.adjacent) \subseteq 1..Len(edges)
      /\ \A i \in Known : edges[i].from = Here => i \in Entries(walk.adjacent)
      /\ \A i \in Entries(walk.adjacent) : edges[i].from = Here
  BY <1>1, <1>2 DEF WalkOK, Half, Here
<1>4. /\ incoming(Here) \in Seq(Nat) /\ Known \subseteq 1..Len(edges)
      /\ Entries(incoming(Here)) = {i \in 1..Len(edges) : edges[i].to = Here}
  BY <1>1, AdjacentEdges
<1>5. adj \in Seq(Nat) /\ Entries(adj) = Entries(walk.adjacent) \cup Entries(incoming(Here))
  BY <1>2, <1>4, EntriesJoined
<1> HIDE DEF adj
<1>6. \A i \in Entries(adj) : OfHere(i)
  BY <1>3, <1>4, <1>5 DEF OfHere
<1>7. \A i \in Known, m \in Node : Leads(walk.kind, i, Here, m) => i \in Entries(adj)
  BY <1>3, <1>4, <1>5 DEF Leads
<1> QED
  BY <1>1, <1>3, <1>5, <1>6, <1>7, Visits

LEMMA InitWalkInv == ProvenanceInit => WalkInv
  BY DEF ProvenanceInit, WalkInv

LEMMA NextWalkInv == ProvenanceInv /\ WalkInv /\ [ProvenanceNext]_provenanceVars => WalkInv'
<1> SUFFICES ASSUME ProvenanceInv, WalkInv, [ProvenanceNext]_provenanceVars PROVE WalkInv'
  OBVIOUS
<1>1. ProvenanceTypeOK /\ ProvenanceTypeOK'
  BY NextProvenanceInv DEF ProvenanceInv
<1>2. edges \in Seq(Edge) /\ edges' \in Seq(Edge) /\ Len(edges) \in Nat
  BY <1>1 DEF ProvenanceTypeOK
<1>3. ASSUME NEW new, UNCHANGED <<walk, known>>, edges' = Append(edges, new) \/ UNCHANGED edges
      PROVE  WalkInv'
  <2>1. Len(edges) <= Len(edges') /\ \A i \in 1..Len(edges) : edges'[i] = edges[i]
    BY <1>2, <1>3
  <2> QED
    BY <1>1, <1>2, <1>3, <2>1, EdgesGrow
<1>4. CASE UNCHANGED provenanceVars \/ CaptureEvent \/ CaptureRepeated \/ SweepEvent
  BY <1>3, <1>4 DEF provenanceVars, captureVars, CaptureEvent, CaptureRepeated, BeginInference, SweepEvent
<1>5. CASE Infer
  BY <1>3, <1>5 DEF Infer, AddFileEdge, LookBack, AddChainEdge, InferenceFails
<1> QED
  BY <1>1, <1>4, <1>5, WalkBegins, WalkReadsOutgoing, WalkReadsIncoming DEF ProvenanceNext

LEMMA NearIs ==
  ASSUME NEW I
  PROVE  /\ Within(I, 0) = {walk.from}
         /\ \A d \in 1..maxDepth :
              Within(I, d) = Within(I, d - 1)
                             \cup {n \in Node : \E i \in I, m \in Within(I, d - 1) : Leads(walk.kind, i, m, n)}
<1> DEFINE Goes(g, d) == IF d = 0 THEN {walk.from}
                         ELSE g[d - 1] \cup {n \in Node : \E i \in I, m \in g[d - 1] : Leads(walk.kind, i, m, n)}
           Builds(g, j) == g = [d \in 0..j |-> Goes(g, d)]
           S == {j \in Nat : \E g : Builds(g, j)}
<1>1. 0 \in S
  <2> DEFINE g == [d \in 0..0 |-> {walk.from}]
  <2>1. Builds(g, 0)
    OBVIOUS
  <2> QED
    BY <2>1
<1>2. ASSUME NEW j \in Nat, j \in S
      PROVE  j + 1 \in S
  <2>1. PICK g : Builds(g, j)
    BY <1>2
  <2> DEFINE h == [d \in 0..(j + 1) |-> IF d = j + 1 THEN Goes(g, d) ELSE g[d]]
  <2> HIDE DEF Goes
  <2>2. \A d \in 0..j : h[d] = g[d] /\ g[d] = Goes(g, d)
    BY <2>1
  <2>3. \A d \in 0..(j + 1) : (d # j + 1 => d \in 0..j) /\ (d # 0 => d - 1 \in 0..j)
    OBVIOUS
  <2>4. \A d \in 0..(j + 1) : h[d] = Goes(g, d) /\ (d # 0 => d - 1 \in 0..j)
    BY <2>2, <2>3
  <2>5. h = [d \in 0..(j + 1) |-> h[d]]
    OBVIOUS
  <2> HIDE DEF h
  <2>6. \A d \in 0..(j + 1) : Goes(g, d) = Goes(h, d)
    BY <2>2, <2>4 DEF Goes
  <2>7. Builds(h, j + 1)
    BY <2>4, <2>5, <2>6
  <2> QED
    BY <2>7
<1> HIDE DEF S
<1>3. maxDepth \in S /\ maxDepth \in Nat
  BY <1>1, <1>2, SetInduction, ProvenanceAssumption
<1>4. PICK g : Builds(g, maxDepth)
  BY <1>3 DEF S
<1>5. Builds(Near(I), maxDepth)
  BY <1>4 DEF Near
<1> HIDE DEF Goes
<1>6. \A d \in 0..maxDepth : Near(I)[d] = Goes(Near(I), d)
  BY <1>5
<1>7. 0 \in 0..maxDepth /\ \A d \in 1..maxDepth : d \in 0..maxDepth /\ d # 0
  BY <1>3
<1> QED
  BY <1>6, <1>7 DEF Goes, Within

\* Where all nodes nearer than D were explored, what is within d <= D was met at d or nearer.
LEMMA ExploredIsNear ==
  ASSUME ProvenanceTypeOK, WalkInv, walk.kind # "none", NEW D \in Nat, D <= maxDepth,
         \A n \in Met(walk) : Level(walk, n) < D => Explored(walk, n)
  PROVE  \A d \in 0..D : \A n \in Within(Known, d) : n \in Met(walk) /\ Level(walk, n) <= d
<1>1. walk \in Walk /\ Linked(walk) /\ walk.link \in [Met(walk) -> Link] /\ maxDepth \in Nat
  BY ProvenanceAssumption DEF WalkInv, WalkOK, Walk, Met
<1>2. \A n \in Met(walk) : Level(walk, n) \in Nat
  BY <1>1 DEF Level, Link
<1> DEFINE P(d) == \A n \in Within(Known, d) : n \in Met(walk) /\ Level(walk, n) <= d
           S == {d \in Nat : d <= D => P(d)}
<1>3. 0 \in S
  <2>1. Within(Known, 0) = {walk.from}
    BY NearIs
  <2> QED
    BY <1>1, <2>1 DEF Linked
<1>4. ASSUME NEW d \in Nat, d \in S PROVE d + 1 \in S
  <2> SUFFICES ASSUME d + 1 <= D, NEW n \in Within(Known, d + 1)
               PROVE  n \in Met(walk) /\ Level(walk, n) <= d + 1
    OBVIOUS
  <2>1. d + 1 \in 1..maxDepth /\ (d + 1) - 1 = d /\ d <= D
    BY <1>1
  <2>2. Within(Known, d + 1) = Within(Known, d)
                      \cup {x \in Node : \E i \in Known, m \in Within(Known, d) : Leads(walk.kind, i, m, x)}
    BY <2>1, NearIs
  <2>3. \A x \in Within(Known, d) : x \in Met(walk) /\ Level(walk, x) <= d
    BY <1>4, <2>1
  <2>4. CASE n \in Within(Known, d)
    BY <1>2, <2>3, <2>4
  <2>5. CASE n \in Node /\ \E i \in Known, m \in Within(Known, d) : Leads(walk.kind, i, m, n)
    <3>1. PICK i \in Known, m \in Within(Known, d) : Leads(walk.kind, i, m, n)
      BY <2>5
    <3>2. m \in Met(walk) /\ Level(walk, m) <= d /\ Level(walk, m) < D
      BY <1>2, <2>3
    <3>3. n \in Met(walk) /\ Level(walk, n) <= Level(walk, m) + 1
      BY <2>5, <3>1, <3>2 DEF Explored
    <3> QED
      BY <1>2, <3>2, <3>3
  <2> QED
    BY <2>2, <2>4, <2>5
<1> HIDE DEF S
<1>5. \A d \in Nat : d \in S
  BY <1>3, <1>4, SetInduction
<1> QED
  BY <1>5 DEF S

\* A walk that was not cut short has read every node short of maxDepth.
LEMMA EndedExplored ==
  ASSUME ProvenanceTypeOK, WalkInv, walk.kind # "none", walk.done, ~Found(walk), ~Full(walk)
  PROVE  /\ ~(walk.kind = "path" /\ walk.to \in Met(walk))
         /\ \A n \in Met(walk) : Level(walk, n) < maxDepth => Explored(walk, n)
<1>1. /\ ~(walk.kind = "path" /\ walk.to \in Met(walk))
      /\ \A n \in Met(walk) : Level(walk, n) < maxDepth => Read(walk, n)
  BY DEF WalkInv, WalkOK, Ended
<1> QED
  BY <1>1 DEF WalkInv, WalkOK

LEMMA TracesAreWhole == ProvenanceTypeOK /\ WalkInv => TraceIsWhole
<1> SUFFICES ASSUME ProvenanceTypeOK, WalkInv, Answered("trace") PROVE TraceIsWhole
  BY DEF TraceIsWhole
<1>1. walk.kind = "trace" /\ walk.done /\ OutSound(walk) /\ maxDepth \in Nat
  BY ProvenanceAssumption DEF Answered, WalkInv, WalkOK
<1>2. \A n \in Met(walk) : Level(walk, n) < maxDepth => Explored(walk, n)
  BY <1>1, EndedExplored DEF Found, Full
<1>3. ASSUME maxDepth > 0, NEW i \in Known, edges[i].from \in Within(Known, maxDepth - 1)
      PROVE  i \in Entries(walk.out)
  <2>1. \A d \in 0..maxDepth : \A n \in Within(Known, d) : n \in Met(walk) /\ Level(walk, n) <= d
    BY <1>1, <1>2, ExploredIsNear
  <2>2. maxDepth - 1 \in 0..maxDepth
    BY <1>1, <1>3
  <2>3. edges[i].from \in Met(walk) /\ Level(walk, edges[i].from) <= maxDepth - 1
    BY <1>3, <2>1, <2>2
  <2>4. Level(walk, edges[i].from) \in Nat
    <3>1. walk.link \in [Met(walk) -> Link]
      BY <1>1 DEF WalkInv, WalkOK, Walk, Met
    <3> QED
      BY <2>3, <3>1 DEF Level, Link
  <2>5. Explored(walk, edges[i].from)
    BY <1>1, <1>2, <2>3, <2>4
  <2>6. edges[i].to \in Node
    <3>1. edges \in Seq(Edge) /\ i \in 1..Len(edges)
      BY DEF ProvenanceTypeOK, WalkInv, Known
    <3>2. edges[i] \in Edge
      BY <3>1
    <3> QED
      BY <3>2 DEF Edge
  <2> QED
    BY <1>1, <2>5, <2>6 DEF Explored, Leads
<1> QED
  BY <1>1, <1>3 DEF OutSound, TraceIsWhole

LEMMA SubgraphsAreWhole == ProvenanceTypeOK /\ WalkInv => SubgraphIsWhole
<1> SUFFICES ASSUME ProvenanceTypeOK, WalkInv, Answered("subgraph") PROVE SubgraphIsWhole
  BY DEF SubgraphIsWhole
<1>1. /\ walk.kind = "subgraph" /\ walk.done /\ walk \in Walk /\ OutSound(walk) /\ Linked(walk) /\ Levels(walk)
      /\ maxDepth \in Nat /\ maxEdges \in Nat /\ Entries(walk.out) \subseteq 1..Len(edges)
  BY ProvenanceAssumption DEF Answered, WalkInv, WalkOK
<1>2. walk.link \in [Met(walk) -> Link] /\ Met(walk) \subseteq Node /\ Len(walk.out) \in Nat
  BY <1>1 DEF Walk, Met
<1>3. \A n \in Met(walk) : Level(walk, n) \in Nat
  BY <1>2 DEF Level, Link
<1> DEFINE O == Entries(walk.out)
<1>4. /\ Within(O, 0) = {walk.from}
      /\ \A d \in 1..maxDepth :
           Within(O, d) = Within(O, d - 1)
                          \cup {n \in Node : \E i \in O, m \in Within(O, d - 1) : Leads(walk.kind, i, m, n)}
  BY NearIs
<1>5. \A d \in Nat : d <= maxDepth => Within(O, d) \subseteq Met(walk)
                                      /\ \A n \in Met(walk) : Level(walk, n) <= d => n \in Within(O, d)
  <2> DEFINE P(d) == Within(O, d) \subseteq Met(walk) /\ \A n \in Met(walk) : Level(walk, n) <= d => n \in Within(O, d)
             S == {d \in Nat : d <= maxDepth => P(d)}
  <2>1. 0 \in S
    <3>1. ASSUME NEW n \in Met(walk), Level(walk, n) <= 0 PROVE n = walk.from
      <4> SUFFICES ASSUME n # walk.from PROVE FALSE
        OBVIOUS
      <4>1. walk.link[n].prev \in Met(walk) /\ Level(walk, n) = Level(walk, walk.link[n].prev) + 1
        BY <1>1 DEF Linked
      <4> QED
        BY <1>3, <3>1, <4>1
    <3> QED
      BY <1>1, <1>4, <3>1 DEF Linked
  <2>2. ASSUME NEW d \in Nat, d \in S PROVE d + 1 \in S
    <3> SUFFICES ASSUME d + 1 <= maxDepth PROVE P(d + 1)
      OBVIOUS
    <3>1. d + 1 \in 1..maxDepth /\ (d + 1) - 1 = d /\ d <= maxDepth
      BY <1>1
    <3>2. Within(O, d + 1) = Within(O, d)
                       \cup {n \in Node : \E i \in O, m \in Within(O, d) : Leads(walk.kind, i, m, n)}
      BY <1>4, <3>1
    <3>3. P(d)
      BY <2>2, <3>1
    <3>4. \A i \in O : \A m, n : Leads(walk.kind, i, m, n) => n \in Met(walk)
      BY <1>1 DEF OutSound, Leads
    <3>5. ASSUME NEW n \in Met(walk), Level(walk, n) <= d + 1 PROVE n \in Within(O, d + 1)
      <4>1. CASE Level(walk, n) <= d
        BY <3>2, <3>3, <4>1
      <4>2. CASE Level(walk, n) = d + 1
        <5>1. n # walk.from
          BY <1>1, <4>2 DEF Linked
        <5>2. /\ walk.link[n].prev \in Met(walk) /\ Level(walk, n) = Level(walk, walk.link[n].prev) + 1
              /\ Leads(walk.kind, walk.link[n].edge, walk.link[n].prev, n) /\ walk.link[n].edge \in O
          BY <1>1, <5>1 DEF Linked
        <5>3. Level(walk, walk.link[n].prev) <= d
          BY <1>3, <4>2, <5>2
        <5>4. walk.link[n].prev \in Within(O, d)
          BY <3>3, <5>2, <5>3
        <5> QED
          BY <1>2, <3>2, <5>2, <5>4
      <4> QED
        BY <1>3, <3>5, <4>1, <4>2
    <3> QED
      BY <3>2, <3>3, <3>4, <3>5
  <2> HIDE DEF S
  <2>3. \A d \in Nat : d \in S
    BY <2>1, <2>2, SetInduction
  <2> QED
    BY <2>3 DEF S
<1>6. Met(walk) = Within(O, maxDepth)
  <2>1. \A n \in Met(walk) : Level(walk, n) <= maxDepth
    BY <1>1 DEF Levels
  <2>2. maxDepth <= maxDepth
    BY <1>1
  <2>3. /\ Within(O, maxDepth) \subseteq Met(walk)
        /\ \A n \in Met(walk) : Level(walk, n) <= maxDepth => n \in Within(O, maxDepth)
    BY <1>1, <1>5, <2>2
  <2> QED
    BY <2>1, <2>3
<1>7. ASSUME Len(walk.out) < maxEdges, maxDepth > 0, NEW i \in Known,
             {edges[i].from, edges[i].to} \cap Within(Known, maxDepth - 1) # {}
      PROVE  i \in Entries(walk.out)
  <2>1. ~Full(walk) /\ ~Found(walk)
    BY <1>1, <1>2, <1>7 DEF Full, Found
  <2>2. \A n \in Met(walk) : Level(walk, n) < maxDepth => Explored(walk, n)
    BY <1>1, <2>1, EndedExplored
  <2>3. \A d \in 0..maxDepth : \A n \in Within(Known, d) : n \in Met(walk) /\ Level(walk, n) <= d
    BY <1>1, <2>2, ExploredIsNear
  <2>4. maxDepth - 1 \in 0..maxDepth
    BY <1>1, <1>7
  <2>5. \A n \in Within(Known, maxDepth - 1) : Explored(walk, n)
    BY <1>1, <1>3, <2>2, <2>3, <2>4
  <2>6. edges[i].to \in Node /\ edges[i].from \in Node
    <3>1. edges \in Seq(Edge) /\ i \in 1..Len(edges)
      BY DEF ProvenanceTypeOK, WalkInv, Known
    <3>2. edges[i] \in Edge
      BY <3>1
    <3> QED
      BY <3>2 DEF Edge, Node
  <2>7. Leads("subgraph", i, edges[i].from, edges[i].to) /\ Leads("subgraph", i, edges[i].to, edges[i].from)
    BY DEF Leads
  <2> QED
    BY <1>1, <1>7, <2>5, <2>6, <2>7 DEF Explored
<1>8. \A i \in Entries(walk.out) : {edges[i].from, edges[i].to} \subseteq DOMAIN walk.link
  BY <1>1 DEF OutSound, Met
<1> QED
  BY <1>1, <1>6, <1>7, <1>8 DEF OutSound, SubgraphIsWhole, Met

\* The parent links are followed from any node back to the source.
LEMMA TrailIs ==
  ASSUME ProvenanceTypeOK, WalkInv, walk.kind # "none"
  PROVE  \A n \in Met(walk) :
           Trails[n] = IF n = walk.from THEN <<>> ELSE Append(Trails[walk.link[n].prev], walk.link[n].edge)
<1>1. walk \in Walk /\ Linked(walk) /\ Levels(walk) /\ walk.link \in [Met(walk) -> Link] /\ maxDepth \in Nat
  BY ProvenanceAssumption DEF WalkInv, WalkOK, Walk, Met
<1>2. \A n \in Met(walk) : Level(walk, n) \in Nat
  BY <1>1 DEF Level, Link
<1> DEFINE Goes(g, n) == IF n = walk.from THEN <<>> ELSE Append(g[walk.link[n].prev], walk.link[n].edge)
           Upto(j) == {n \in Met(walk) : Level(walk, n) <= j}
           Builds(g, j) == g = [n \in Upto(j) |-> Goes(g, n)]
           S == {j \in Nat : \E g : Builds(g, j)}
<1>3. \A n \in Met(walk) : n # walk.from => /\ walk.link[n].prev \in Met(walk)
                                            /\ Level(walk, n) = Level(walk, walk.link[n].prev) + 1
  BY <1>1 DEF Linked
<1>4. 0 \in S
  <2> DEFINE g == [n \in Upto(0) |-> <<>>]
  <2>1. \A n \in Upto(0) : n = walk.from
    BY <1>2, <1>3
  <2>2. Builds(g, 0)
    BY <2>1
  <2> QED
    BY <2>2
<1>5. ASSUME NEW j \in Nat, j \in S PROVE j + 1 \in S
  <2>1. PICK g : Builds(g, j)
    BY <1>5
  <2> DEFINE h == [n \in Upto(j + 1) |-> IF n \in Upto(j) THEN g[n] ELSE Goes(g, n)]
  <2> HIDE DEF Goes
  <2>2. \A n \in Upto(j) : n \in Upto(j + 1) /\ h[n] = g[n] /\ g[n] = Goes(g, n)
    BY <1>2, <2>1
  <2>3. \A n \in Upto(j + 1) : h[n] = Goes(g, n)
    BY <2>2
  <2>4. \A n \in Upto(j + 1) : n # walk.from => walk.link[n].prev \in Upto(j)
    BY <1>2, <1>3
  <2>5. h = [n \in Upto(j + 1) |-> h[n]]
    OBVIOUS
  <2> HIDE DEF h, Upto
  <2>6. \A n \in Upto(j + 1) : Goes(g, n) = Goes(h, n)
    BY <2>2, <2>4 DEF Goes
  <2>7. Builds(h, j + 1)
    BY <2>3, <2>5, <2>6
  <2> QED
    BY <2>7
<1> HIDE DEF S
<1>6. maxDepth \in S
  BY <1>1, <1>4, <1>5, SetInduction
<1>7. Upto(maxDepth) = DOMAIN walk.link /\ Met(walk) = DOMAIN walk.link
  BY <1>1 DEF Levels, Met
<1>8. PICK g : Builds(g, maxDepth)
  BY <1>6 DEF S
<1> HIDE DEF Upto
<1>9. g = [n \in DOMAIN walk.link |-> Goes(g, n)]
  BY <1>7, <1>8
<1>10. Trails = [n \in DOMAIN walk.link |-> Goes(Trails, n)]
  BY <1>9 DEF Trails
<1> HIDE DEF Goes
<1>11. \A n \in Met(walk) : Trails[n] = Goes(Trails, n)
  BY <1>7, <1>10
<1> QED
  BY <1>11 DEF Goes

\* Leads along s, from the source to a node.
Route(s, n, at) ==
    /\ at \in [0..Len(s) -> Node] /\ at[0] = walk.from /\ at[Len(s)] = n
    /\ \A j \in 1..Len(s) : Leads(walk.kind, s[j], at[j - 1], at[j])

\* The trail of a node is as long as its level.
LEMMA TrailLeads ==
  ASSUME ProvenanceTypeOK, WalkInv, walk.kind # "none"
  PROVE  \A n \in Met(walk) : /\ Trails[n] \in Seq(Nat) /\ Len(Trails[n]) = Level(walk, n)
                              /\ \E at : Route(Trails[n], n, at)
<1>1. walk \in Walk /\ Linked(walk) /\ walk.link \in [Met(walk) -> Link] /\ Met(walk) \subseteq Node
  BY DEF WalkInv, WalkOK, Walk, Met
<1>2. \A n \in Met(walk) : Level(walk, n) \in Nat /\ walk.link[n].edge \in Nat
  BY <1>1 DEF Level, Link
<1> DEFINE P(n) == Trails[n] \in Seq(Nat) /\ Len(Trails[n]) = Level(walk, n) /\ \E at : Route(Trails[n], n, at)
           S == {j \in Nat : \A n \in Met(walk) : Level(walk, n) = j => P(n)}
<1>3. P(walk.from)
  <2>1. Trails[walk.from] = <<>>
    BY <1>1, TrailIs DEF Linked
  <2>2. PICK at : at = [j \in 0..0 |-> walk.from]
    OBVIOUS
  <2>3. Route(<<>>, walk.from, at)
    BY <1>1, <2>2 DEF Route, Linked
  <2> QED
    BY <1>1, <2>1, <2>3 DEF Linked
<1>4. ASSUME NEW n \in Met(walk), n # walk.from, P(walk.link[n].prev) PROVE P(n)
  <2> DEFINE s == Trails[walk.link[n].prev]
             e == walk.link[n].edge
             t == Append(s, e)
             L == Len(s)
  <2>1. Trails[n] = t
    BY <1>4, TrailIs
  <2>2. s \in Seq(Nat) /\ e \in Nat /\ L \in Nat
    BY <1>2, <1>4
  <2>3. Leads(walk.kind, e, walk.link[n].prev, n) /\ Level(walk, n) = L + 1
    BY <1>1, <1>4 DEF Linked
  <2>4. PICK at : Route(s, walk.link[n].prev, at)
    BY <1>4
  <2> HIDE DEF s, e
  <2>5. t \in Seq(Nat) /\ Len(t) = L + 1 /\ t[L + 1] = e /\ \A j \in 1..L : t[j] = s[j]
    BY <2>2
  <2>6. PICK to : to = [j \in 0..(L + 1) |-> IF j = L + 1 THEN n ELSE at[j]]
    OBVIOUS
  <2>7. at \in [0..L -> Node] /\ at[0] = walk.from /\ at[L] = walk.link[n].prev
    BY <2>4 DEF Route
  <2> HIDE DEF L, t
  <2>8. \A j \in 0..(L + 1) : j # L + 1 => j \in 0..L
    BY <2>2
  <2>9. to \in [0..(L + 1) -> Node]
    BY <1>1, <2>6, <2>7, <2>8
  <2>10. to[0] = walk.from /\ to[L] = at[L] /\ to[L + 1] = n
    BY <2>2, <2>6, <2>7
  <2>11. \A j \in 1..L : j \in 0..(L + 1) /\ j # L + 1 /\ j - 1 \in 0..(L + 1) /\ j - 1 # L + 1
    BY <2>2
  <2>12. \A j \in 1..L : Leads(walk.kind, t[j], to[j - 1], to[j])
    <3>1. \A j \in 1..L : Leads(walk.kind, s[j], at[j - 1], at[j])
      BY <2>4 DEF Route, L
    <3> QED
      BY <2>5, <2>6, <2>11, <3>1
  <2>13. Leads(walk.kind, t[L + 1], to[(L + 1) - 1], to[L + 1])
    <3>1. (L + 1) - 1 = L
      BY <2>2
    <3> QED
      BY <2>3, <2>5, <2>7, <2>10, <3>1
  <2>14. \A j \in 1..(L + 1) : j \in 1..L \/ j = L + 1
    BY <2>2
  <2>15. Route(t, n, to)
    BY <2>5, <2>9, <2>10, <2>12, <2>13, <2>14 DEF Route
  <2> QED
    BY <2>1, <2>3, <2>5, <2>15
<1> HIDE DEF P
<1>5. 0 \in S
  <2>1. ASSUME NEW n \in Met(walk), Level(walk, n) = 0 PROVE n = walk.from
    <3> SUFFICES ASSUME n # walk.from PROVE FALSE
      OBVIOUS
    <3>1. walk.link[n].prev \in Met(walk) /\ Level(walk, n) = Level(walk, walk.link[n].prev) + 1
      BY <1>1 DEF Linked
    <3> QED
      BY <1>2, <2>1, <3>1
  <2> QED
    BY <1>3, <2>1
<1>6. ASSUME NEW j \in Nat, j \in S PROVE j + 1 \in S
  <2> SUFFICES ASSUME NEW n \in Met(walk), Level(walk, n) = j + 1 PROVE P(n)
    OBVIOUS
  <2>1. n # walk.from
    BY <1>1 DEF Linked
  <2>2. walk.link[n].prev \in Met(walk) /\ Level(walk, n) = Level(walk, walk.link[n].prev) + 1
    BY <1>1, <2>1 DEF Linked
  <2>3. Level(walk, walk.link[n].prev) = j
    BY <1>2, <2>2
  <2> QED
    BY <1>4, <1>6, <2>1, <2>2, <2>3
<1> HIDE DEF S
<1>7. \A j \in Nat : j \in S
  BY <1>5, <1>6, SetInduction
<1> QED
  BY <1>2, <1>7 DEF S, P

LEMMA PathsAreShortest == ProvenanceTypeOK /\ WalkInv => PathIsShortest
<1> SUFFICES ASSUME ProvenanceTypeOK, WalkInv, Answered("path") PROVE PathIsShortest
  BY DEF PathIsShortest
<1>1. /\ walk.kind = "path" /\ walk.done /\ walk \in Walk /\ Linked(walk) /\ Levels(walk)
      /\ maxDepth \in Nat /\ walk.depth \in Nat
  BY ProvenanceAssumption DEF Answered, WalkInv, WalkOK, Walk
<1>2. \A n \in Met(walk) : Level(walk, n) \in Nat /\ Level(walk, n) <= maxDepth
  <2>1. walk.link \in [Met(walk) -> Link]
    BY <1>1 DEF Walk, Met
  <2> QED
    BY <1>1, <2>1 DEF Level, Link, Levels
<1>3. ~Full(walk)
  BY <1>1 DEF Full
<1>4. CASE walk.to \in Met(walk)
  <2>1. Len(Trail) = Level(walk, walk.to) /\ \E at : Route(Trail, walk.to, at)
    BY <1>1, <1>4, TrailLeads DEF Trail
  <2>2. \E at \in [0..Len(Trail) -> Node] :
           /\ at[0] = walk.from /\ at[Len(Trail)] = walk.to
           /\ \A n \in 1..Len(Trail) : Leads("path", Trail[n], at[n - 1], at[n])
    BY <1>1, <2>1 DEF Route
  <2>3. walk.to = walk.from \/ Level(walk, walk.to) = walk.depth + 1
    BY <1>1, <1>3, <1>4, EndedExplored DEF Found
  <2>4. ASSUME NEW d \in 0..maxDepth, walk.to \in Within(Known, d) PROVE Level(walk, walk.to) <= d
    <3>1. CASE walk.to = walk.from
      BY <1>1, <3>1 DEF Linked
    <3>2. CASE Level(walk, walk.to) = walk.depth + 1 /\ d <= walk.depth
      <4>1. walk.depth <= maxDepth
        BY <1>1, <1>2, <1>4, <3>2
      <4>2. ASSUME NEW n \in Met(walk), Level(walk, n) < walk.depth PROVE Explored(walk, n)
        <5>1. Read(walk, n)
          BY <1>1, <1>2, <4>2 DEF Read, Levels
        <5> QED
          BY <1>1, <1>3, <5>1 DEF WalkInv, WalkOK
      <4>3. \A j \in 0..walk.depth : \A n \in Within(Known, j) : n \in Met(walk) /\ Level(walk, n) <= j
        BY <1>1, <4>1, <4>2, ExploredIsNear
      <4>4. d \in 0..walk.depth
        BY <1>1, <3>2
      <4> QED
        BY <2>4, <4>3, <4>4
    <3>3. CASE Level(walk, walk.to) = walk.depth + 1 /\ ~(d <= walk.depth)
      BY <1>1, <3>3
    <3> QED
      BY <2>3, <3>1, <3>2, <3>3
  <2> QED
    BY <1>2, <1>4, <2>1, <2>2, <2>4 DEF PathIsShortest, Met
<1>5. CASE walk.to \notin Met(walk)
  <2>1. \A n \in Met(walk) : Level(walk, n) < maxDepth => Explored(walk, n)
    BY <1>1, <1>3, <1>5, EndedExplored DEF Found
  <2>2. \A d \in 0..maxDepth : \A n \in Within(Known, d) : n \in Met(walk) /\ Level(walk, n) <= d
    BY <1>1, <2>1, ExploredIsNear
  <2>3. maxDepth \in 0..maxDepth
    BY <1>1
  <2>4. walk.to \notin Within(Known, maxDepth)
    BY <1>5, <2>2, <2>3
  <2> QED
    BY <1>5, <2>4 DEF PathIsShortest, Met
<1> QED
  BY <1>4, <1>5

\* The three walks answer rightly whatever is captured or swept while they read.
THEOREM WalksAreRight == ProvenanceSpec => []WalksRight
<1>1. ProvenanceInit => ProvenanceInv /\ WalkInv
  BY InitProvenanceInv, InitWalkInv
<1>2. ProvenanceInv /\ WalkInv /\ [ProvenanceNext]_provenanceVars => ProvenanceInv' /\ WalkInv'
  BY NextProvenanceInv, NextWalkInv
<1>3. ProvenanceInv /\ WalkInv => WalksRight
  BY PathsAreShortest, SubgraphsAreWhole, TracesAreWhole DEF WalksRight, ProvenanceInv
<1> QED
  BY <1>1, <1>2, <1>3, PTL DEF ProvenanceSpec

-------------------------------------------------------------------------------
(* The search. SearchInv is inductive: each read took place after the history *)
(* began and still knows of what has not changed since.                       *)

USE SearchAssumption

\* A cut list has no members of its own.
LEMMA TopIsCut ==
  ASSUME NEW S, NEW s \in Seq(S), NEW n \in Nat
  PROVE  /\ Top(s, n) \in Seq(S)
         /\ Members(Top(s, n)) \subseteq Members(s) /\ Members(s) \subseteq S
<1> DEFINE m == IF Len(s) < n THEN Len(s) ELSE n
<1>1. m \in 0..Len(s) /\ Len(s) \in Nat
  OBVIOUS
<1>2. Top(s, n) = SubSeq(s, 1, m)
  BY DEF Top
<1> HIDE DEF m
<1>3. /\ SubSeq(s, 1, m) \in Seq(S) /\ Len(SubSeq(s, 1, m)) = m
      /\ \A i \in 1..m : SubSeq(s, 1, m)[i] = s[i]
  BY <1>1
<1>4. Members(SubSeq(s, 1, m)) \subseteq Members(s)
  BY <1>1, <1>3 DEF Members
<1>5. Members(s) \subseteq S
  BY DEF Members
<1> QED
  BY <1>2, <1>3, <1>4, <1>5

\* An order of a finite set lists all of it.
LEMMA OrdersListAll ==
  ASSUME NEW S, IsFiniteSet(S), NEW s \in Orders(S)
  PROVE  s \in Seq(S) /\ Members(s) = S
<1> DEFINE n == Cardinality(S)
<1>1. n \in Nat
  BY FS_CardinalityType
<1>2. s \in [1..n -> S] /\ \A i, j \in 1..n : s[i] = s[j] => i = j
  BY DEF Orders
<1>3. IsFiniteSet(1..n) /\ Cardinality(1..n) = n
  BY <1>1, FS_Interval
<1>4. s \in Injection(1..n, S)
  BY <1>2 DEF Injection, IsInjective
<1>5. s \in Surjection(1..n, S)
  BY <1>3, <1>4, FS_Injection
<1>6. \A x \in S : \E i \in 1..n : s[i] = x
  BY <1>5 DEF Surjection
<1> HIDE DEF n
<1>7. s \in Seq(S) /\ Len(s) = n
  BY <1>1, <1>2
<1>8. Members(s) = S
  BY <1>2, <1>6, <1>7 DEF Members
<1> QED
  BY <1>7, <1>8

\* The summaries are few.
LEMMA SumsAreFinite ==
  ASSUME NEW S, S \subseteq Sum
  PROVE  IsFiniteSet(S)
<1>1. 0 \in Int /\ 1 \in Int /\ MaxSum \in Int
  OBVIOUS
<1>2. IsFiniteSet(1..MaxSum)
  BY <1>1, FS_Interval
<1> QED
  BY <1>2, FS_Subset DEF Sum

\* What the indexes find is there, or was.
LEMMA IndexesFind ==
  ASSUME SearchTypeOK
  PROVE  /\ \A s \in LiveOf(fts) : Top(s, pool) \in Seq(Sum) /\ Members(Top(s, pool)) \subseteq live
         /\ \A result \in Nearest : result \in Seq(Sum)
<1>1. ASSUME NEW s \in Seq(Sum), NEW t \in LiveOf(s)
      PROVE  Top(t, pool) \in Seq(Sum) /\ Members(Top(t, pool)) \subseteq live
  <2> DEFINE there == Members(s) \cap live
  <2>1. there \subseteq Sum /\ there \subseteq live
    BY DEF SearchTypeOK
  <2>2. t \in Orders(there)
    BY DEF LiveOf
  <2> HIDE DEF there
  <2>3. t \in Seq(there)
    BY <2>1, <2>2, SumsAreFinite, OrdersListAll
  <2>4. Top(t, pool) \in Seq(there) /\ Members(Top(t, pool)) \subseteq there
    BY <2>3, TopIsCut
  <2> QED
    BY <2>1, <2>4
<1>2. fts \in Seq(Sum)
  <2>1. PICK S \in SUBSET Sum : fts \in Orders(S)
    BY DEF SearchTypeOK
  <2>2. fts \in Seq(S)
    BY <2>1, SumsAreFinite, OrdersListAll
  <2> QED
    BY <2>1, <2>2
<1>3. near \in Seq(Sum)
  BY DEF near, Sum
<1>4. \A result \in Nearest : result \in Seq(Sum)
  <2> SUFFICES ASSUME NEW result \in Nearest
               PROVE  result \in Seq(Sum)
    OBVIOUS
  <2>1. PICK s : s \in (IF how.vecEnabled THEN {near} ELSE LiveOf(near)) /\ result = Top(s, pool)
    BY DEF Nearest
  <2>2. CASE s = near
    BY <1>3, <2>1, <2>2, TopIsCut
  <2>3. CASE s \in LiveOf(near)
    BY <1>1, <1>3, <2>1, <2>3
  <2> QED
    BY <2>1, <2>2, <2>3
<1> QED
  BY <1>1, <1>2, <1>4

-----------------------------------------------------------------------------
(* The others.                                                                *)

LEMMA TouchKeeps ==
  ASSUME SearchInv, Touch, UNCHANGED how,
         live' \subseteq live, pairs' \subseteq live' \X live', pins' \subseteq live'
  PROVE  SearchInv'
<1>0. SearchTypeOK /\ HistoryIsTrue
  BY DEF SearchInv
<1>1. /\ UNCHANGED <<fts, step, bm25, vec, seenDropped, seenPins, seenRows, hits, final>>
      /\ step \notin {"done", "thrown"}
      /\ touched < MaxTouch /\ touched' = touched + 1
  BY DEF Touch, readVars
<1>2. ASSUME Searching
      PROVE  /\ buried' \subseteq buried /\ buried' \subseteq Older(pairs') \ pins'
             /\ kept' \subseteq kept \cap pins' /\ gone' = gone
  BY <1>2 DEF Touch
<1>3. ASSUME ~Searching
      PROVE  /\ buried' = Older(pairs') \ pins' /\ kept' = pins' /\ gone' = Sum \ live' /\ step = "start"
  BY <1>1, <1>3 DEF Touch, Searching
<1>4. HistoryIsTrue'
  BY <1>0, <1>2, <1>3 DEF HistoryIsTrue, SearchTypeOK, Older
<1>5. buried' \subseteq Sum /\ kept' \subseteq Sum /\ gone' \subseteq Sum
  BY <1>0, <1>2, <1>3 DEF SearchTypeOK, Older
<1>6. touched' \in 0..MaxTouch
  BY <1>0, <1>1 DEF SearchTypeOK
<1>7. SearchTypeOK'
  BY <1>0, <1>1, <1>5, <1>6 DEF SearchTypeOK
<1>8. (MarksSeen /\ PinsSeen /\ TextRead /\ RowsRead)'
  <2>1. CASE Searching
    BY <1>1, <1>2, <2>1 DEF SearchInv, MarksSeen, PinsSeen, TextRead, RowsRead, Members
  <2>2. CASE ~Searching
    BY <1>1, <1>3, <2>2 DEF MarksSeen, PinsSeen, TextRead, RowsRead
  <2> QED
    BY <2>1, <2>2
<1>9. ShownRightly'
  BY <1>1 DEF ShownRightly
<1> QED
  BY <1>4, <1>7, <1>8, <1>9 DEF SearchInv

LEMMA OthersStep ==
  ASSUME SearchInv, TouchPin \/ TouchUnpin \/ TouchMark \/ TouchDelete \/ TouchPrune
  PROVE  SearchInv'
<1>0. pairs \subseteq live \X live /\ pins \subseteq live
  BY DEF SearchInv, SearchTypeOK
<1>1. CASE TouchPin
  BY <1>0, <1>1, TouchKeeps DEF TouchPin, Touch
<1>2. CASE TouchUnpin
  BY <1>0, <1>2, TouchKeeps DEF TouchUnpin, Touch
<1>3. CASE TouchMark
  BY <1>0, <1>3, TouchKeeps DEF TouchMark, Touch
<1>4. ASSUME NEW S, Delete(S)
      PROVE  live' \subseteq live /\ pairs' \subseteq live' \X live' /\ pins' \subseteq live'
  <2>1. \A p \in live \X live : p[1] \in live /\ p[2] \in live /\ p = <<p[1], p[2]>>
    OBVIOUS
  <2> QED
    BY <1>0, <1>4, <2>1 DEF Delete
<1>5. CASE TouchDelete
  BY <1>4, <1>5, TouchKeeps DEF TouchDelete, Touch
<1>6. CASE TouchPrune
  BY <1>4, <1>6, TouchKeeps DEF TouchPrune, Touch
<1> QED
  BY <1>1, <1>2, <1>3, <1>5, <1>6

-----------------------------------------------------------------------------
(* The search.                                                                *)

LEMMA SearchStep ==
  ASSUME SearchInv,
         SearchFts \/ SearchVec \/ SearchVecFails \/ ReadSuperseded \/ ReadPinned \/ FetchMissing
  PROVE  SearchInv'
<1>0. /\ SearchTypeOK /\ HistoryIsTrue /\ MarksSeen /\ PinsSeen /\ TextRead
      /\ UNCHANGED <<fts, live, pairs, pins, how, touched, buried, kept, gone>>
  BY DEF SearchInv, SearchFts, SearchVec, SearchVecFails, ReadSuperseded, ReadPinned, FetchMissing,
         Reads, tableVars, historyVars
<1>1. HistoryIsTrue'
  BY <1>0 DEF HistoryIsTrue
<1>2. CASE SearchFts
  <2>1. PICK s \in LiveOf(fts) : bm25' = Top(s, pool)
    BY <1>2 DEF SearchFts
  <2>2. bm25' \in Seq(Sum) /\ Members(bm25') \subseteq live
    BY <1>0, <2>1, IndexesFind
  <2>3. /\ step' = "vector"
        /\ UNCHANGED <<vec, seenDropped, seenPins, seenRows, hits, final>>
    BY <1>2 DEF SearchFts
  <2>4. SearchTypeOK'
    BY <1>0, <2>2, <2>3 DEF SearchTypeOK, Step
  <2>5. gone' \cap Members(bm25') = {}
    BY <1>0, <2>2 DEF HistoryIsTrue
  <2> QED
    BY <1>1, <2>3, <2>4, <2>5
    DEF SearchInv, MarksSeen, PinsSeen, TextRead, RowsRead, ShownRightly, Members
<1>3. CASE SearchVec \/ SearchVecFails
  <2>1. vec' \in Seq(Sum)
    BY <1>0, <1>3, IndexesFind DEF SearchVec, SearchVecFails, SearchTypeOK
  <2>2. /\ step = "vector" /\ step' \in {"dropped", "thrown"}
        /\ UNCHANGED <<bm25, seenDropped, seenPins, seenRows, hits, final>>
    BY <1>3 DEF SearchVec, SearchVecFails
  <2>3. SearchTypeOK'
    BY <1>0, <2>1, <2>2 DEF SearchTypeOK, Step
  <2> QED
    BY <1>0, <1>1, <2>2, <2>3
    DEF SearchInv, MarksSeen, PinsSeen, TextRead, RowsRead, ShownRightly, Members, Step
<1>4. CASE ReadSuperseded
  <2>1. /\ step = "dropped" /\ step' = "pins" /\ seenDropped' = Older(pairs)
        /\ UNCHANGED <<bm25, vec, seenPins, seenRows, hits, final>>
    BY <1>4 DEF ReadSuperseded
  <2>2. Older(pairs) \subseteq Sum /\ buried \subseteq Older(pairs)
    BY <1>0 DEF Older, SearchTypeOK, HistoryIsTrue
  <2>3. SearchTypeOK'
    BY <1>0, <2>1, <2>2 DEF SearchTypeOK, Step
  <2>4. (MarksSeen /\ PinsSeen /\ RowsRead /\ ShownRightly)'
    BY <1>0, <2>1, <2>2 DEF MarksSeen, PinsSeen, RowsRead, ShownRightly
  <2>5. TextRead'
    BY <1>0, <2>1 DEF TextRead, Members, Step
  <2> QED
    BY <1>1, <2>3, <2>4, <2>5 DEF SearchInv
<1>5. CASE ReadPinned
  <2>1. /\ step = "pins" /\ step' = "rows" /\ seenPins' = pins
        /\ UNCHANGED <<bm25, vec, seenDropped, seenRows, hits, final>>
    BY <1>5 DEF ReadPinned
  <2>2. SearchTypeOK'
    BY <1>0, <2>1 DEF SearchTypeOK, Step
  <2> QED
    BY <1>0, <1>1, <2>1, <2>2
    DEF SearchInv, HistoryIsTrue, MarksSeen, PinsSeen, TextRead, RowsRead, ShownRightly, Members, Step
<1>6. CASE FetchMissing
  <2>1. /\ step = "rows" /\ step' = "rank"
        /\ seenRows' = Members(bm25) \cup (Members(vec) \cap live)
        /\ UNCHANGED <<bm25, vec, seenDropped, seenPins, hits, final>>
    BY <1>6 DEF FetchMissing
  <2>2. Members(bm25) \subseteq Sum /\ Members(bm25') = Members(bm25) /\ Members(vec') = Members(vec)
    BY <1>0, <2>1 DEF SearchTypeOK, Members
  <2>3. SearchTypeOK'
    BY <1>0, <2>1, <2>2 DEF SearchTypeOK, Step
  <2>4. (MarksSeen /\ PinsSeen /\ TextRead)'
    BY <1>0, <2>1, <2>2 DEF MarksSeen, PinsSeen, TextRead, Step
  <2>5. gone \cap Members(bm25) = {} /\ gone \cap live = {} /\ kept \subseteq live
    BY <1>0, <2>1 DEF HistoryIsTrue, TextRead, Step, SearchTypeOK
  <2>6. RowsRead'
    BY <1>0, <2>1, <2>2, <2>5 DEF RowsRead
  <2>7. ShownRightly'
    BY <2>1 DEF ShownRightly
  <2> QED
    BY <1>1, <2>3, <2>4, <2>6, <2>7 DEF SearchInv
<1> QED
  BY <1>2, <1>3, <1>4, <1>5, <1>6

LEMMA FuseStep ==
  ASSUME SearchInv, Fuse
  PROVE  SearchInv'
<1>0. /\ SearchTypeOK /\ HistoryIsTrue /\ MarksSeen /\ PinsSeen /\ TextRead /\ RowsRead
      /\ step = "rank" /\ step' = "done"
      /\ UNCHANGED <<fts, live, pairs, pins, how, touched, buried, kept, gone>>
      /\ UNCHANGED <<bm25, vec, seenDropped, seenPins, seenRows>>
  BY DEF SearchInv, Fuse, Reads, tableVars, historyVars, readVars
<1>1. Sieve \subseteq seenRows /\ Sieve \subseteq Sum /\ IsFiniteSet(Sieve)
  BY <1>0, SumsAreFinite DEF Sieve, SearchTypeOK
<1>2. PICK s \in Ranked :
        /\ hits' = s
        /\ IF how.rerank
           THEN \E r \in Orders(Members(Top(s, pool))) : final' = Top(r, k)
           ELSE final' = Top(s, k)
  BY DEF Fuse
<1>3. s \in Seq(Sieve) /\ Members(s) = Sieve
  BY <1>1, OrdersListAll DEF Ranked
<1>4. final' \in Seq(Sieve) /\ Members(final') \subseteq Sieve
  <2>1. CASE final' = Top(s, k)
    BY <1>3, <2>1, TopIsCut
  <2>2. ASSUME NEW r \in Orders(Members(Top(s, pool))), final' = Top(r, k)
        PROVE  final' \in Seq(Sieve) /\ Members(final') \subseteq Sieve
    <3> DEFINE best == Members(Top(s, pool))
    <3>1. best \subseteq Sieve
      BY <1>3, TopIsCut
    <3>2. IsFiniteSet(best)
      BY <1>1, <3>1, FS_Subset
    <3>3. r \in Orders(best)
      OBVIOUS
    <3> HIDE DEF best
    <3>4. r \in Seq(best)
      BY <3>2, <3>3, OrdersListAll
    <3>5. final' \in Seq(best) /\ Members(final') \subseteq best
      BY <2>2, <3>4, TopIsCut
    <3> QED
      BY <3>1, <3>5
  <2> QED
    BY <1>2, <2>1, <2>2
<1>5. SearchTypeOK'
  <2>1. hits' \in Seq(Sum) /\ final' \in Seq(Sum)
    BY <1>1, <1>2, <1>3, <1>4
  <2> QED
    BY <1>0, <2>1 DEF SearchTypeOK, Step
<1>6. Sieve \cap (buried \cup gone) = {}
  BY <1>0 DEF Sieve, MarksSeen, PinsSeen, RowsRead
<1>7. kept \cap (Members(bm25) \cup Members(vec)) \subseteq Sieve
  BY <1>0 DEF Sieve, PinsSeen, RowsRead
<1>8. Members(hits') = Sieve /\ Members(bm25') = Members(bm25) /\ Members(vec') = Members(vec)
  BY <1>0, <1>2, <1>3 DEF Members
<1>9. Members(final)' = Members(final') /\ Members(hits)' = Members(hits')
      /\ Members(bm25)' = Members(bm25') /\ Members(vec)' = Members(vec')
  BY DEF Members
<1>10. ShownRightly'
  BY <1>0, <1>4, <1>6, <1>7, <1>8, <1>9 DEF ShownRightly
<1>11. (HistoryIsTrue /\ MarksSeen /\ PinsSeen /\ RowsRead)'
  BY <1>0 DEF HistoryIsTrue, MarksSeen, PinsSeen, RowsRead
<1>12. TextRead'
  BY <1>0, <1>8, <1>9 DEF TextRead, Step
<1> QED
  BY <1>5, <1>10, <1>11, <1>12 DEF SearchInv

-----------------------------------------------------------------------------

LEMMA SearchBegins ==
  ASSUME SearchInit
  PROVE  SearchInv
<1>1. /\ bm25 = <<>> /\ vec = <<>> /\ hits = <<>> /\ final = <<>> /\ step = "start"
      /\ live = Sum /\ pairs = {} /\ pins = {}
      /\ seenDropped = {} /\ seenPins = {} /\ seenRows = {}
      /\ touched = 0 /\ buried = {} /\ kept = {} /\ gone = {}
      /\ fts \in UNION {Orders(S) : S \in SUBSET Sum}
  BY DEF SearchInit
<1>2. SearchTypeOK
  BY <1>1 DEF SearchTypeOK, Step
<1> QED
  BY <1>1, <1>2
  DEF SearchInv, HistoryIsTrue, MarksSeen, PinsSeen, TextRead, RowsRead, ShownRightly

LEMMA SearchRests ==
  ASSUME SearchInv, UNCHANGED searchVars
  PROVE  SearchInv'
<1>1. UNCHANGED <<fts, live, pairs, pins, how, step, bm25, vec, seenDropped, seenPins, seenRows, hits,
                  final, emitted, touched, buried, kept, gone>>
  BY DEF searchVars, tableVars, readVars, historyVars
<1>2. SearchTypeOK'
  BY <1>1 DEF SearchInv, SearchTypeOK, Members
<1>3. HistoryIsTrue' /\ MarksSeen' /\ PinsSeen'
  BY <1>1 DEF SearchInv, HistoryIsTrue, MarksSeen, PinsSeen
<1>4. TextRead' /\ RowsRead' /\ ShownRightly'
  BY <1>1 DEF SearchInv, TextRead, RowsRead, ShownRightly, Members
<1> QED
  BY <1>2, <1>3, <1>4 DEF SearchInv

LEMMA SearchGoesOn ==
  ASSUME SearchInv, [SearchNext]_searchVars
  PROVE  SearchInv'
BY OthersStep, SearchStep, FuseStep, SearchRests DEF SearchNext

\* The reads of a search, each in an await of its own, agree with one another on what the
\* summaries were throughout (hybridSearch, hybridSearchStream).
THEOREM SearchIsSound == SearchSpec => []SearchInv
<1>1. SearchInit => SearchInv
  BY SearchBegins
<1>2. SearchInv /\ [SearchNext]_searchVars => SearchInv'
  BY SearchGoesOn
<1> QED
  BY <1>1, <1>2, PTL DEF SearchSpec

\* Nothing that was superseded before the search is shown, unless it was pinned or its mark
\* deleted with one of its two ends meanwhile; nothing deleted before the search is shown; and
\* nothing that is pinned all the while and found by an index is lost (fuseAndRank).
THEOREM SearchShowsRightly == SearchSpec => []ShownRightly
<1>1. SearchInv => ShownRightly
  BY DEF SearchInv
<1> QED
  BY <1>1, SearchIsSound, PTL

-------------------------------------------------------------------------------
(* Fusion. RankInv is inductive: an index lists a summary once, and the hits  *)
(* are in the order of the scores their ranks give them. A rank is better,    *)
(* and its reciprocal greater, exactly when the index has the one summary     *)
(* before the other.                                                          *)

USE ScaleAssumption

LEMMA OrdersAreShort ==
  ASSUME NEW S, S \subseteq Sum, NEW s \in Orders(S)
  PROVE  s \in Seq(Sum) /\ Listed(s)
<1>1. 1 \in Int /\ MaxSum \in Int
  OBVIOUS
<1>2. IsFiniteSet(Sum) /\ Cardinality(Sum) = MaxSum
  BY <1>1, FS_Interval DEF Sum
<1>3. IsFiniteSet(S) /\ Cardinality(S) <= MaxSum /\ Cardinality(S) \in Nat
  BY <1>2, FS_Subset, FS_CardinalityType
<1>4. s \in [1..Cardinality(S) -> S] /\ \A m, n \in 1..Cardinality(S) : s[m] = s[n] => m = n
  BY DEF Orders
<1> QED
  BY <1>3, <1>4 DEF Listed

LEMMA TopIsListed ==
  ASSUME NEW s \in Seq(Sum), Listed(s)
  PROVE  Listed(Top(s, pool))
<1> DEFINE m == IF Len(s) < pool THEN Len(s) ELSE pool
<1>1. m \in 0..Len(s) /\ Len(s) \in Nat
  OBVIOUS
<1>2. Top(s, pool) = SubSeq(s, 1, m)
  BY DEF Top
<1> HIDE DEF m
<1>3. Len(SubSeq(s, 1, m)) = m /\ \A i \in 1..m : SubSeq(s, 1, m)[i] = s[i]
  BY <1>1
<1> QED
  BY <1>1, <1>2, <1>3 DEF Listed

LEMMA IndexesList ==
  ASSUME SearchTypeOK
  PROVE  /\ \A s \in LiveOf(fts) : Listed(Top(s, pool))
         /\ \A result \in Nearest : Listed(result)
<1>1. ASSUME NEW s \in Seq(Sum), NEW t \in LiveOf(s)
      PROVE  Listed(Top(t, pool))
  <2>1. t \in Orders(Members(s) \cap live) /\ Members(s) \cap live \subseteq Sum
    BY DEF LiveOf, SearchTypeOK
  <2> QED
    BY <2>1, OrdersAreShort, TopIsListed
<1>2. fts \in Seq(Sum)
  BY OrdersAreShort DEF SearchTypeOK
<1>3. near \in Seq(Sum) /\ Listed(near)
  BY DEF near, Sum, Listed
<1>4. Listed(Top(near, pool))
  BY <1>3, TopIsListed
<1>5. \A result \in Nearest : Listed(result)
  BY <1>1, <1>3, <1>4 DEF Nearest
<1> QED
  BY <1>1, <1>2, <1>5

\* The ranks are those of the list.
LEMMA RankIs ==
  ASSUME NEW s \in Seq(Sum), Listed(s), NEW i
  PROVE  /\ i \notin Members(s) => RankIn(s, i) = 0
         /\ i \in Members(s) => RankIn(s, i) \in 1..Len(s) /\ RankIn(s, i) \in Sum /\ s[RankIn(s, i)] = i
<1>1. ASSUME i \in Members(s)
      PROVE  RankIn(s, i) \in 1..Len(s) /\ s[RankIn(s, i)] = i
  <2>1. \E n \in 1..Len(s) : s[n] = i
    BY <1>1 DEF Members
  <2> QED
    BY <1>1, <2>1 DEF RankIn
<1>2. 1..Len(s) \subseteq Sum
  BY DEF Listed, Sum
<1> QED
  BY <1>1, <1>2 DEF RankIn

LEMMA ReciprocalsFall ==
  /\ Reciprocal(0) = 0
  /\ \A r \in Sum : Reciprocal(r) \in Nat \ {0}
  /\ \A m, n \in Sum : m < n => Reciprocal(n) < Reciprocal(m)
<1>1. \A r \in Sum : Reciprocal(r) \in Int
  <2> SUFFICES ASSUME NEW r \in Sum PROVE scale \div (rrfK + r) \in Int
    BY DEF Reciprocal, Sum
  <2>1. rrfK + r \in Nat \ {0}
    BY DEF Sum
  <2> QED
    BY <2>1
<1> QED
  BY <1>1 DEF Reciprocal

\* One list's say: who is not behind has at least the reciprocal, and who is ahead has more.
LEMMA AheadHasMore ==
  ASSUME NEW s \in Seq(Sum), Listed(s), NEW a, NEW b
  PROVE  /\ Reciprocal(RankIn(s, a)) \in Nat /\ Reciprocal(RankIn(s, b)) \in Nat
         /\ ~Precedes(s, b, a) => Reciprocal(RankIn(s, b)) <= Reciprocal(RankIn(s, a))
         /\ Precedes(s, a, b) => Reciprocal(RankIn(s, b)) < Reciprocal(RankIn(s, a))
<1> DEFINE ra == RankIn(s, a)
           rb == RankIn(s, b)
<1>1. /\ a \notin Members(s) => ra = 0
      /\ a \in Members(s) => ra \in 1..Len(s) /\ ra \in Sum /\ s[ra] = a
      /\ b \notin Members(s) => rb = 0
      /\ b \in Members(s) => rb \in 1..Len(s) /\ rb \in Sum /\ s[rb] = b
  BY RankIs
<1> HIDE DEF ra, rb
<1>2. Reciprocal(ra) \in Nat /\ Reciprocal(rb) \in Nat
  BY <1>1, ReciprocalsFall
<1>3. ASSUME ~Precedes(s, b, a)
      PROVE  Reciprocal(rb) <= Reciprocal(ra)
  <2>1. CASE b \notin Members(s)
    BY <1>1, <1>2, <2>1, ReciprocalsFall
  <2>2. CASE b \in Members(s)
    <3>1. PICK n \in 1..rb : s[n] = a
      BY <1>1, <1>3, <2>2 DEF Precedes
    <3>2. n \in 1..Len(s) /\ a \in Members(s) /\ n = ra
      BY <1>1, <2>2, <3>1 DEF Members, Listed
    <3>3. ra < rb \/ ra = rb
      BY <1>1, <2>2, <3>1, <3>2
    <3> QED
      BY <1>1, <1>2, <2>2, <3>2, <3>3, ReciprocalsFall
  <2> QED
    BY <2>1, <2>2
<1>4. ASSUME Precedes(s, a, b)
      PROVE  Reciprocal(rb) < Reciprocal(ra)
  <2>1. PICK m \in 1..Len(s) : s[m] = a /\ \A n \in 1..m : s[n] # b
    BY <1>4 DEF Precedes
  <2>2. a \in Members(s) /\ m = ra
    BY <1>1, <2>1 DEF Members, Listed
  <2>3. CASE b \notin Members(s)
    BY <1>1, <2>2, <2>3, ReciprocalsFall
  <2>4. CASE b \in Members(s)
    <3>1. ra < rb
      BY <1>1, <2>1, <2>2, <2>4
    <3> QED
      BY <1>1, <2>2, <2>4, <3>1, ReciprocalsFall
  <2> QED
    BY <2>3, <2>4
<1> QED
  BY <1>2, <1>3, <1>4 DEF ra, rb

\* Greater reciprocals, at no worse recency and boost, give a greater score.
LEMMA GreaterScore ==
  ASSUME NEW x \in Nat, NEW y \in Nat, x < y,
         NEW p \in {2, 3}, NEW q \in {2, 3}, NEW u \in {2, 3}, NEW v \in {2, 3}, p <= q, u <= v
  PROVE  x * p * u < y * q * v
<1>1. CASE p = 2 /\ u = 2
  <2>1. CASE q = 2 /\ v = 2
    BY <1>1, <2>1
  <2>2. CASE q = 3 /\ v = 2
    BY <1>1, <2>2
  <2>3. CASE q = 2 /\ v = 3
    BY <1>1, <2>3
  <2>4. CASE q = 3 /\ v = 3
    BY <1>1, <2>4
  <2> QED
    BY <2>1, <2>2, <2>3, <2>4
<1>2. CASE p = 3 /\ u = 2
  <2>1. CASE v = 2
    BY <1>2, <2>1
  <2>2. CASE v = 3
    BY <1>2, <2>2
  <2> QED
    BY <2>1, <2>2
<1>3. CASE p = 2 /\ u = 3
  <2>1. CASE q = 2
    BY <1>3, <2>1
  <2>2. CASE q = 3
    BY <1>3, <2>2
  <2> QED
    BY <2>1, <2>2
<1>4. CASE p = 3 /\ u = 3
  BY <1>4
<1> QED
  BY <1>1, <1>2, <1>3, <1>4

LEMMA RankedMonotonic == RankInv => FusionMonotonic
<1> SUFFICES ASSUME RankInv, NEW m \in 1..Len(hits), NEW n \in 1..Len(hits), NEW a, NEW b,
                    a = hits[m], b = hits[n],
                    recency(a) >= recency(b), boostFn(a) >= boostFn(b),
                    ~Precedes(bm25, b, a), ~Precedes(vec, b, a),
                    Precedes(bm25, a, b) \/ Precedes(vec, a, b), ~(m < n)
             PROVE  FALSE
  BY DEF FusionMonotonic
<1>1. bm25 \in Seq(Sum) /\ vec \in Seq(Sum) /\ hits \in Seq(Sum) /\ Listed(bm25) /\ Listed(vec) /\ HitsRanked
  BY DEF RankInv, SearchTypeOK
<1> DEFINE ta == Reciprocal(RankIn(bm25, a))
           va == Reciprocal(RankIn(vec, a))
           tb == Reciprocal(RankIn(bm25, b))
           vb == Reciprocal(RankIn(vec, b))
<1>2. /\ ta \in Nat /\ tb \in Nat /\ tb <= ta /\ (Precedes(bm25, a, b) => tb < ta)
      /\ va \in Nat /\ vb \in Nat /\ vb <= va /\ (Precedes(vec, a, b) => vb < va)
  BY <1>1, AheadHasMore
<1>3. Score(a) = (ta + va) * recency(a) * boostFn(a) /\ Score(b) = (tb + vb) * recency(b) * boostFn(b)
  BY DEF Score
<1> HIDE DEF ta, va, tb, vb
<1>4. tb + vb < ta + va /\ tb + vb \in Nat /\ ta + va \in Nat
  BY <1>2
<1>5. recency(a) \in {2, 3} /\ recency(b) \in {2, 3} /\ boostFn(a) \in {2, 3} /\ boostFn(b) \in {2, 3}
  BY DEF recency, boostFn
<1>6. Score(b) < Score(a) /\ Score(a) \in Int /\ Score(b) \in Int
  <2>1. recency(b) <= recency(a) /\ boostFn(b) <= boostFn(a)
    BY <1>5
  <2>2. (tb + vb) * recency(b) * boostFn(b) < (ta + va) * recency(a) * boostFn(a)
    BY <1>4, <1>5, <2>1, GreaterScore
  <2>3. (tb + vb) * recency(b) * boostFn(b) \in Int /\ (ta + va) * recency(a) * boostFn(a) \in Int
    BY <1>4, <1>5
  <2> QED
    BY <1>3, <2>2, <2>3
<1>7. m = n \/ n < m
  OBVIOUS
<1>8. Score(b) >= Score(a)
  BY <1>1, <1>6, <1>7 DEF HitsRanked
<1> QED
  BY <1>6, <1>8

\* The scores depend on what the indexes have answered only.
LEMMA ScoresStay ==
  ASSUME UNCHANGED <<bm25, vec>>, NEW i
  PROVE  Score(i)' = Score(i)
BY DEF Score, RankIn, Members, Reciprocal, recency, boostFn

LEMMA SearchRanks ==
  ASSUME RankInv, SearchTypeOK', [SearchNext]_searchVars
  PROVE  RankInv'
<1>0. SearchTypeOK /\ Listed(bm25) /\ Listed(vec) /\ HitsRanked /\ Listed(<<>>)
  BY DEF RankInv, Listed
<1>1. CASE UNCHANGED <<bm25, vec, hits>> /\ (step' = "done" => step = "done") /\ (step = "done" => step' = "done")
  <2>1. HitsRanked'
    BY <1>0, <1>1, ScoresStay DEF HitsRanked
  <2> QED
    BY <1>0, <1>1, <2>1 DEF RankInv, Listed
<1>2. CASE SearchFts \/ SearchVec \/ SearchVecFails
  <2>1. step # "done" /\ step' # "done" /\ hits' = hits
    BY <1>2 DEF SearchFts, SearchVec, SearchVecFails
  <2>2. Listed(bm25) /\ Listed(vec) /\ Listed(bm25') /\ Listed(vec')
    BY <1>0, <1>2, IndexesList DEF SearchFts, SearchVec, SearchVecFails
  <2>3. HitsRanked'
    BY <1>0, <2>1 DEF HitsRanked
  <2> QED
    BY <2>2, <2>3 DEF RankInv, Listed
<1>3. CASE Fuse
  <2>1. UNCHANGED <<bm25, vec>> /\ step' = "done" /\ hits' \in Ranked
    BY <1>3 DEF Fuse, readVars
  <2>2. Sieve \subseteq Sum
    BY <1>0 DEF Sieve, SearchTypeOK
  <2>3. hits' \in Orders(Sieve) /\ \A m, n \in 1..Len(hits') : m < n => Score(hits'[m]) >= Score(hits'[n])
    BY <2>1 DEF Ranked
  <2>4. Listed(hits') /\ hits' \in Seq(Sum)
    BY <2>2, <2>3, OrdersAreShort
  <2>5. \A m, n \in 1..Len(hits') : m < n => hits'[m] # hits'[n]
    BY <2>4 DEF Listed
  <2>6. HitsRanked'
    BY <2>1, <2>3, <2>5, ScoresStay DEF HitsRanked
  <2> QED
    BY <1>0, <2>1, <2>6 DEF RankInv, Listed
<1>4. CASE TouchPin \/ TouchUnpin \/ TouchMark \/ TouchDelete \/ TouchPrune
  BY <1>1, <1>4 DEF TouchPin, TouchUnpin, TouchMark, TouchDelete, TouchPrune, Touch, readVars
<1>5. CASE ReadSuperseded \/ ReadPinned \/ FetchMissing
  BY <1>1, <1>5 DEF ReadSuperseded, ReadPinned, FetchMissing
<1>6. CASE UNCHANGED searchVars
  BY <1>1, <1>6 DEF searchVars, readVars
<1> QED
  BY <1>2, <1>3, <1>4, <1>5, <1>6 DEF SearchNext

\* A hit that is at least as good in both indexes, in recency and in boost, and better in one
\* index, comes first (fuseAndRank), for any number of summaries, any pool, rrfK and any order of
\* the full-text index.
THEOREM FusionIsMonotonic == SearchSpec => []FusionMonotonic
<1>1. SearchInit => RankInv
  BY SearchBegins DEF SearchInit, SearchInv, RankInv, Listed, HitsRanked
<1>2. RankInv /\ SearchInv' /\ [SearchNext]_searchVars => RankInv'
  BY SearchRanks DEF SearchInv
<1> QED
  BY <1>1, <1>2, RankedMonotonic, SearchIsSound, PTL DEF SearchSpec
===============================================================================
