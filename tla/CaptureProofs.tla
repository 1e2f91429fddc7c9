---------------------------- MODULE CaptureProofs ----------------------------
(***************************************************************************)
(* The capture path keeps its log ahead of its table, for any number of    *)
(* payloads, concurrent requests and stops.  IInv of CaptureLog is         *)
(* inductive: a handler inserts only what it has logged (LineFirst), so a  *)
(* new row is covered by its line; only Truncate removes lines, and then   *)
(* every line has been folded in (FoldedIn) and the rows not on disk yet   *)
(* are noted as exposed.                                                   *)
(***************************************************************************)
EXTENDS CaptureLog, TLAPS

LEMMA InitIInv == Init => IInv
  BY CaptureAssumption
  DEF Init, IInv, TypeOK, Row, Rows, OnDisk, ReplayOnly, FoldedIn, LineFirst, WriteAhead,
      LoggedKept

\* The steps of a handler before its insert leave the table and the boot alone.
LEMMA RequestStep ==
  ASSUME IInv, NEW h \in Handler,
         \/ \E p \in Payload : Capture(h, p) \/ Backfill(h, p)
         \/ BackfillCheck(h)
         \/ Append(h)
  PROVE  IInv'
  BY CaptureAssumption
  DEF IInv, TypeOK, Row, Rows, OnDisk, ReplayOnly, FoldedIn, LineFirst, WriteAhead, LoggedKept,
      Capture, Backfill, BackfillCheck, Append, Goto, Answer, tableVars, logVars, bootVars

\* An insert adds a row whose line is in the log.
LEMMA InsertStep ==
  ASSUME IInv, NEW h \in Handler, Insert(h)
  PROVE  IInv'
<1>1. req[h] \in log /\ req[h] \in Payload /\ phase = "up"
  BY DEF IInv, ReplayOnly, LineFirst, Insert
<1>2. CASE UNCHANGED tableVars
  BY <1>1, <1>2, CaptureAssumption
  DEF IInv, TypeOK, Row, Rows, OnDisk, ReplayOnly, FoldedIn, LineFirst, WriteAhead, LoggedKept,
      Insert, RecordEvent, Goto, Answer, tableVars, logVars, bootVars
<1>3. CASE req[h] \notin Rows /\ \E as \in Row \ {"absent"} : InsertRow(req[h], as)
  <2>1. UNCHANGED <<disk, logVars, bootVars>>
    BY <1>3 DEF Insert, InsertRow
  <2>2. row' \in [Payload -> Row] /\ Rows' = Rows \cup {req[h]} /\ OnDisk' = OnDisk
    <3>1. PICK as \in Row \ {"absent"} : row' = [row EXCEPT ![req[h]] = as]
      BY <1>3 DEF InsertRow
    <3> QED
      BY <1>1, <2>1, <3>1 DEF Rows, OnDisk, Row, IInv, TypeOK
  <2>3. gone' = gone \ {req[h]} /\ last' = req[h]
    BY <1>3 DEF InsertRow
  <2>4. /\ at' \in [Handler -> {"idle", "check", "append", "insert", "edges"}]
        /\ kind' \in [Handler -> {"capture", "backfill"}]
        /\ req' \in [Handler -> Payload \cup {NoRow}]
        /\ handle' \in [Handler -> Payload \cup {NoRow}]
    <3>1. handle' = [handle EXCEPT ![h] = req[h]] \/ Answer(h)
      BY <1>1, <1>3 DEF Insert, RecordEvent
    <3> QED
      BY <3>1 DEF Insert, Goto, Answer, IInv, TypeOK
  <2>5. /\ \A k \in Handler : at'[k] # "idle" => phase = "up" /\ req'[k] \in Payload
        /\ \A k \in Handler : at'[k] = "insert" => req'[k] \in log
    BY <1>1 DEF Insert, Goto, Answer, IInv, TypeOK, ReplayOnly, LineFirst
  <2>6. TypeOK'
    BY <1>1, <2>1, <2>2, <2>3, <2>4 DEF IInv, TypeOK, logVars, bootVars
  <2>7. ReplayOnly' /\ LineFirst' /\ FoldedIn'
    BY <1>1, <2>1, <2>5 DEF IInv, ReplayOnly, LineFirst, FoldedIn, logVars, bootVars
  <2>8. WriteAhead' /\ LoggedKept'
    BY <1>1, <2>1, <2>2, <2>3 DEF IInv, WriteAhead, LoggedKept, logVars, bootVars
  <2> QED
    BY <2>6, <2>7, <2>8 DEF IInv
<1> QED
  BY <1>2, <1>3 DEF Insert, RecordEvent, Row

LEMMA EdgesStep ==
  ASSUME IInv, NEW h \in Handler, InferEdges(h)
  PROVE  IInv'
  BY CaptureAssumption
  DEF IInv, TypeOK, Row, Rows, OnDisk, ReplayOnly, FoldedIn, LineFirst, WriteAhead, LoggedKept,
      InferEdges, Goto, Answer, logVars, bootVars

\* A deleted row is accounted for by `gone'; deletions never meet a replay.
LEMMA DeleteStep ==
  ASSUME IInv, NEW S \in SUBSET Payload, Delete(S)
  PROVE  IInv'
  BY CaptureAssumption
  DEF IInv, TypeOK, Row, Rows, OnDisk, ReplayOnly, FoldedIn, LineFirst, WriteAhead, LoggedKept,
      Delete, logVars, bootVars, handlerVars

\* A checkpoint puts every row on disk, so no row is exposed any more.
LEMMA CheckpointStep ==
  ASSUME IInv, Checkpoint
  PROVE  IInv'
  BY CaptureAssumption
  DEF IInv, TypeOK, Row, Rows, OnDisk, ReplayOnly, FoldedIn, LineFirst, WriteAhead, LoggedKept,
      Checkpoint, logVars, handlerVars

\* A kill keeps both the table and the log.
LEMMA StopProcessStep ==
  ASSUME IInv, StopProcess
  PROVE  IInv'
  BY CaptureAssumption
  DEF IInv, TypeOK, Row, Rows, OnDisk, ReplayOnly, FoldedIn, LineFirst, WriteAhead, LoggedKept,
      StopProcess, Stop, Idle, logVars

\* A power loss takes rows that are not on disk: those have a line or were exposed.
LEMMA PowerLossStep ==
  ASSUME IInv, PowerLoss
  PROVE  IInv'
  BY CaptureAssumption
  DEF IInv, TypeOK, Row, Rows, OnDisk, ReplayOnly, FoldedIn, LineFirst, WriteAhead, LoggedKept,
      PowerLoss, Stop, Idle, logVars

LEMMA BootLemma ==
  ASSUME IInv, Boot
  PROVE  IInv'
  BY CaptureAssumption
  DEF IInv, TypeOK, Row, Rows, OnDisk, ReplayOnly, FoldedIn, LineFirst, WriteAhead, LoggedKept,
      Boot, tableVars, logVars, handlerVars

\* A replayed line has a row afterwards, or is dropped.
LEMMA ReplayStep ==
  ASSUME IInv, NEW p \in Payload, ReplayFrame(p)
  PROVE  IInv'
  BY CaptureAssumption
  DEF IInv, TypeOK, Row, Rows, OnDisk, ReplayOnly, FoldedIn, LineFirst, WriteAhead, LoggedKept,
      ReplayFrame, InsertRow, tableVars, logVars, handlerVars

\* The log is emptied when no line is left to fold in.
LEMMA TruncateStep ==
  ASSUME IInv, Truncate
  PROVE  IInv'
  BY CaptureAssumption
  DEF IInv, TypeOK, Row, Rows, OnDisk, ReplayOnly, FoldedIn, LineFirst, WriteAhead, LoggedKept,
      Truncate, tableVars, logVars, handlerVars

LEMMA NextIInv == IInv /\ [Next]_vars => IInv'
<1> SUFFICES ASSUME IInv, [Next]_vars PROVE IInv'
  OBVIOUS
<1>1. CASE BootStep
  BY <1>1, BootLemma, ReplayStep, TruncateStep DEF BootStep
<1>2. CASE \E h \in Handler : HandlerStep(h)
  BY <1>2, RequestStep, InsertStep, EdgesStep DEF HandlerStep
<1>3. CASE SweepExpired \/ Prune
  <2>1. PICK S \in SUBSET Payload : Delete(S)
    BY <1>3 DEF SweepExpired, Prune, Rows
  <2> QED
    BY <2>1, DeleteStep
<1>4. CASE Checkpoint
  BY <1>4, CheckpointStep
<1>5. CASE StopProcess \/ PowerLoss
  BY <1>5, StopProcessStep, PowerLossStep
<1>6. CASE UNCHANGED vars
  BY <1>6
  DEF vars, tableVars, logVars, bootVars, IInv, TypeOK, Row, Rows, OnDisk, ReplayOnly, FoldedIn,
      LineFirst, WriteAhead, LoggedKept
<1> QED
  BY <1>1, <1>2, <1>3, <1>4, <1>5, <1>6 DEF Next

\* IInv is an invariant of the capture path.
THEOREM CaptureInvariance == Spec => []IInv
<1>1. Init => IInv
  BY InitIInv
<1>2. IInv /\ [Next]_vars => IInv'
  BY NextIInv
<1> QED
  BY <1>1, <1>2, PTL DEF Spec

\* The log is ahead of the table: every row a power loss could take still has its line in
\* wal.ndjson, or a boot truncated the line before SQLite had the row on disk.
THEOREM LogAhead == Spec => []WriteAhead
<1>1. IInv => WriteAhead
  BY DEF IInv
<1> QED
  BY <1>1, CaptureInvariance, PTL

\* What reached the log is in the table or in the log, through any sequence of kills, power
\* losses and interrupted replays, but for the four ways out that the invariant names.
THEOREM NothingLoggedIsLost == Spec => []LoggedKept
<1>1. IInv => LoggedKept
  BY DEF IInv
<1> QED
  BY <1>1, CaptureInvariance, PTL
=============================================================================
