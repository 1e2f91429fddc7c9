----------------------------- MODULE CaptureLog -----------------------------
(***************************************************************************)
(* How a captured tool call reaches the events table, and what a stop of   *)
(* the daemon does to it: the capture and backfill handlers of             *)
(* src/memory/daemon/server.ts, the fsynced log of daemon/wal.ts, and the  *)
(* boot of daemon/index.ts, which replays the log into the table and       *)
(* truncates it before the socket opens.                                   *)
(*                                                                         *)
(* An event is its payload: (session_id, input_hash) is UNIQUE, so a       *)
(* payload has one row at most, and a row is named by its payload.  The    *)
(* status of a row is the subject of EventStore; here any row may be one   *)
(* the drains have skipped.                                                *)
(*                                                                         *)
(* SQLite runs with journal_mode = WAL and synchronous = NORMAL: a commit  *)
(* survives the process, but the power supply only from the next           *)
(* checkpoint on.  The daemon's own log is fsynced line by line.           *)
(***************************************************************************)
EXTENDS Naturals

CONSTANTS
    Handler,     (* requests the daemon handles at the same time              *)
    Payload,     (* the distinct (session, input hash) pairs                  *)
    Ephemeral,   (* those captured with a ttl                                 *)
    NoRow,       (* the id of no event                                        *)
    MaxStops     (* bound: how often the daemon stops                         *)

ASSUME CaptureAssumption ==
    /\ Ephemeral \subseteq Payload
    /\ NoRow \notin Payload
    /\ MaxStops \in Nat

VARIABLES
    phase,     \* the daemon process: down, replaying the log, or serving
    row,       \* the events table: row[p] is absent, kept, or expiring (expires_at set)
    disk,      \* the table as of the last checkpoint: what a power loss cannot undo
    last,      \* the row lastInsertRowid of the connection names: none before its first
               \* insert, after an insert into another table any row or NoRow
    log,       \* the payloads with a line in wal.ndjson
    frames,    \* the lines WAL.replay returned that the boot has not folded in yet
    at,        \* where each handler is
    kind,      \* the request it handles, a capture or a backfill
    req,       \* the payload it handles
    handle,    \* the row that the id returned by recordEvent names
    logged,    \* history: payloads that ever reached the log
    gone,      \* history: payloads whose row was deleted since it was last inserted
    dropped,   \* history: lines whose replay failed
    exposed,   \* history: rows not on disk when the log was truncated
    stops      \* history: how many stops, for the bound

vars == <<phase, row, disk, last, log, frames, at, kind, req, handle,
          logged, gone, dropped, exposed, stops>>
tableVars == <<row, disk, last, gone>>
logVars == <<log, logged>>
bootVars == <<phase, frames, dropped, exposed, stops>>

Row == {"absent", "kept", "expiring"}
Rows == {p \in Payload : row[p] # "absent"}
OnDisk == {p \in Payload : disk[p] # "absent"}

\* Every variable has its type.
TypeOK ==
    /\ phase \in {"down", "replay", "up"}
    /\ row \in [Payload -> Row] /\ disk \in [Payload -> Row]
    /\ last \in Payload \cup {NoRow, "none"}
    /\ log \in SUBSET Payload /\ frames \in SUBSET Payload
    /\ at \in [Handler -> {"idle", "check", "append", "insert", "edges"}]
    /\ kind \in [Handler -> {"capture", "backfill"}]
    /\ req \in [Handler -> Payload \cup {NoRow}]
    /\ handle \in [Handler -> Payload \cup {NoRow}]
    /\ logged \in SUBSET Payload /\ gone \in SUBSET Payload
    /\ dropped \in SUBSET Payload /\ exposed \in SUBSET Payload
    /\ stops \in 0..MaxStops

Init ==
    /\ phase = "down"
    /\ row = [p \in Payload |-> "absent"] /\ disk = [p \in Payload |-> "absent"]
    /\ last = "none"
    /\ log = {} /\ frames = {}
    /\ at = [h \in Handler |-> "idle"]
    /\ kind = [h \in Handler |-> "capture"]
    /\ req = [h \in Handler |-> NoRow]
    /\ handle = [h \in Handler |-> NoRow]
    /\ logged = {} /\ gone = {} /\ dropped = {} /\ exposed = {}
    /\ stops = 0

-----------------------------------------------------------------------------
Goto(h, step) == at' = [at EXCEPT ![h] = step]

\* The handler answers its client, with ok or with an error.
Answer(h) ==
    /\ Goto(h, "idle")
    /\ kind' = [kind EXCEPT ![h] = "capture"]
    /\ req' = [req EXCEPT ![h] = NoRow]
    /\ handle' = [handle EXCEPT ![h] = NoRow]

\* A capture arrives: redacted, stamped and hashed, its session ensured.
Capture(h, p) ==
    /\ phase = "up"
    /\ at[h] = "idle"
    /\ req' = [req EXCEPT ![h] = p]
    /\ Goto(h, "append")
    /\ UNCHANGED <<tableVars, logVars, bootVars, kind, handle>>

\* One frame of a transcript the backfill ingests: the same path, after a look at the
\* table.  Transcripts carry no ttl.
Backfill(h, p) ==
    /\ phase = "up"
    /\ at[h] = "idle"
    /\ p \notin Ephemeral
    /\ kind' = [kind EXCEPT ![h] = "backfill"]
    /\ req' = [req EXCEPT ![h] = p]
    /\ Goto(h, "check")
    /\ UNCHANGED <<tableVars, logVars, bootVars, handle>>

\* hasEvent: a duplicate is counted and skipped.
BackfillCheck(h) ==
    /\ at[h] = "check"
    /\ \/ /\ req[h] \in Rows
          /\ Answer(h)
       \/ /\ req[h] \notin Rows
          /\ Goto(h, "append")
          /\ UNCHANGED <<kind, req, handle>>
    /\ UNCHANGED <<tableVars, logVars, bootVars>>

\* Mutant: the line stays in a buffer, the insert does not wait for it.
AppendBuffered(h) ==
    /\ at[h] = "append"
    /\ Goto(h, "insert")
    /\ UNCHANGED <<tableVars, logVars, bootVars, kind, req, handle>>

\* wal.append: one line, written and fsynced before the handler goes on.
Append(h) ==
    /\ at[h] = "append"
    /\ log' = log \cup {req[h]}
    /\ logged' = logged \cup {req[h]}
    /\ Goto(h, "insert")
    /\ UNCHANGED <<tableVars, bootVars, kind, req, handle>>

\* The INSERT of a payload without a row.
InsertRow(p, as) ==
    /\ row' = [row EXCEPT ![p] = as]
    /\ gone' = gone \ {p}
    /\ last' = p
    /\ UNCHANGED disk

\* recordEvent.  On a conflict nothing is inserted and lastInsertRowid keeps the value of
\* an earlier insert; only when there was none is the existing row looked up.
RecordEvent(h) ==
    \/ /\ req[h] \notin Rows
       /\ InsertRow(req[h], IF req[h] \in Ephemeral THEN "expiring" ELSE "kept")
       /\ handle' = [handle EXCEPT ![h] = req[h]]
    \/ /\ req[h] \in Rows
       /\ handle' = [handle EXCEPT ![h] = IF last = "none" THEN req[h] ELSE last]
       /\ UNCHANGED tableVars

\* The capture goes on to its edges, the backfill to its next frame.  An insert that
\* throws is reported to the client, or counted.
Insert(h) ==
    /\ at[h] = "insert"
    /\ \/ /\ kind[h] = "capture"
          /\ RecordEvent(h)
          /\ Goto(h, "edges")
          /\ UNCHANGED <<kind, req>>
       \/ /\ kind[h] = "backfill"
          /\ req[h] \notin Rows
          /\ InsertRow(req[h], "kept")
          /\ Answer(h)
       \/ /\ Answer(h)
          /\ UNCHANGED tableVars
    /\ UNCHANGED <<logVars, bootVars>>

\* inferEdgesForEvent writes provenance edges under the id recordEvent returned, a failure
\* is swallowed, and the capture is answered.  The edges are no state of this module, but
\* their ids are what the connection inserted last.  (So are those of sessions, summaries
\* and cache entries; what the edges leave in `last' is arbitrary already.)
InferEdges(h) ==
    /\ at[h] = "edges"
    /\ last' \in Payload \cup {NoRow, last}
    /\ Answer(h)
    /\ UNCHANGED <<row, disk, gone, logVars, bootVars>>

HandlerStep(h) ==
    \/ \E p \in Payload : Capture(h, p) \/ Backfill(h, p)
    \/ BackfillCheck(h)
    \/ Append(h)
    \/ Insert(h)
    \/ InferEdges(h)

-----------------------------------------------------------------------------
handlerVars == <<at, kind, req, handle>>

\* DELETE FROM events WHERE ..: the rows of S.
Delete(S) ==
    /\ phase = "up"
    /\ S # {}
    /\ row' = [p \in Payload |-> IF p \in S THEN "absent" ELSE row[p]]
    /\ gone' = gone \cup S
    /\ UNCHANGED <<disk, last, logVars, bootVars, handlerVars>>

\* sweepExpired, by its timer or the RPC: some of the rows with a ttl have expired.
SweepExpired == \E S \in SUBSET {p \in Payload : row[p] = "expiring"} : Delete(S)

\* prune: any row may be one that was skipped long ago.
Prune == \E S \in SUBSET Rows : Delete(S)

\* SQLite moves its own write-ahead log into the database file, as it does from time to
\* time and when the last connection closes.
Checkpoint ==
    /\ phase # "down"
    /\ disk # row
    /\ disk' = row
    /\ exposed' = exposed \ Rows
    /\ UNCHANGED <<phase, row, last, gone, frames, dropped, stops, logVars, handlerVars>>

-----------------------------------------------------------------------------
Idle ==
    /\ at' = [h \in Handler |-> "idle"]
    /\ kind' = [h \in Handler |-> "capture"]
    /\ req' = [h \in Handler |-> NoRow]
    /\ handle' = [h \in Handler |-> NoRow]

Stop ==
    /\ phase # "down"
    /\ stops < MaxStops
    /\ stops' = stops + 1
    /\ phase' = "down"
    /\ frames' = {}
    /\ last' = "none"
    /\ Idle
    /\ UNCHANGED <<logVars, dropped, exposed>>

\* A kill, a crash, or the shutdown: it closes the database without waiting for the
\* handlers, and process.exit drops them.
StopProcess == Stop /\ UNCHANGED <<row, disk, gone>>

\* The machine loses power: what was committed since the last checkpoint may be undone.
PowerLoss ==
    /\ Stop
    /\ row' \in [Payload -> Row]
    /\ \A p \in Payload : row'[p] \in {row[p], disk[p]}
    /\ disk' = row'
    /\ UNCHANGED gone

\* Mutant: the log is truncated as soon as it is read.
BootTruncates ==
    /\ phase = "down"
    /\ phase' = "replay"
    /\ frames' = log
    /\ log' = {}
    /\ UNCHANGED <<tableVars, logged, dropped, exposed, stops, handlerVars>>

\* Mutant: the boot starts a fresh log without a replay.
BootAfresh ==
    /\ phase = "down"
    /\ phase' = "replay"
    /\ frames' = {}
    /\ UNCHANGED <<tableVars, logVars, dropped, exposed, stops, handlerVars>>

\* The next hook or command starts the daemon again: WAL.replay reads the log.
Boot ==
    /\ phase = "down"
    /\ phase' = "replay"
    /\ frames' = log
    /\ UNCHANGED <<tableVars, logVars, dropped, exposed, stops, handlerVars>>

\* One line of the log: skipped when its row is there, else recorded, without a ttl since
\* a line has none.  An error of either statement is swallowed, whatever it was.
ReplayFrame(p) ==
    /\ phase = "replay"
    /\ p \in frames
    /\ frames' = frames \ {p}
    /\ \/ p \in Rows /\ UNCHANGED <<tableVars, dropped>>
       \/ p \notin Rows /\ InsertRow(p, "kept") /\ UNCHANGED dropped
       \/ p \notin Rows /\ dropped' = dropped \cup {p} /\ UNCHANGED tableVars
    /\ UNCHANGED <<phase, exposed, stops, logVars, handlerVars>>

\* Mutant: the socket opens while lines are still being replayed.
TruncateEarly ==
    /\ phase = "replay"
    /\ phase' = "up"
    /\ log' = {}
    /\ exposed' = exposed \cup (Rows \ OnDisk)
    /\ UNCHANGED <<tableVars, logged, frames, dropped, stops, handlerVars>>

\* WAL.truncate, and the socket opens.
Truncate ==
    /\ phase = "replay"
    /\ frames = {}
    /\ phase' = "up"
    /\ log' = {}
    /\ exposed' = exposed \cup (Rows \ OnDisk)
    /\ UNCHANGED <<tableVars, logged, frames, dropped, stops, handlerVars>>

BootStep ==
    \/ Boot
    \/ \E p \in Payload : ReplayFrame(p)
    \/ Truncate

Next ==
    \/ BootStep
    \/ \E h \in Handler : HandlerStep(h)
    \/ SweepExpired \/ Prune
    \/ Checkpoint
    \/ StopProcess \/ PowerLoss

Spec == Init /\ [][Next]_vars

\* Every session start and every command finds a dead daemon and starts it, and the boot
\* runs to its end unless it is stopped; MaxStops bounds how often.
FairSpec == Spec /\ WF_vars(BootStep)

-----------------------------------------------------------------------------
\* The order the capture handler keeps, line before row: every row a power loss could take
\* still has its line in the log, or a boot truncated that line before SQLite had the row
\* on disk.
WriteAhead == Rows \ OnDisk \subseteq log \cup exposed

\* A payload that reached the log is in the table or still in the log, whatever stops come
\* in between, unless its row was deleted, its replay failed, or power went after a boot
\* truncated its line too early.  In particular a kill between the line and the row, or
\* in the middle of a replay, loses nothing.
LoggedKept == logged \subseteq Rows \cup log \cup gone \cup dropped \cup exposed

\* Every line that a stop leaves behind is folded into the table by a later boot.
Recovered ==
    \A p \in Payload :
        phase = "down" /\ p \in log ~> p \in Rows \cup gone \cup dropped

\* The strengthening: only the boot empties the log, a line at a time is accounted for,
\* and a handler about to insert has its line in the log.
ReplayOnly ==
    /\ phase # "replay" => frames = {}
    /\ \A h \in Handler : at[h] # "idle" => phase = "up" /\ req[h] \in Payload
    /\ log \subseteq logged /\ frames \subseteq log
FoldedIn == phase = "replay" => log \ frames \subseteq Rows \cup gone \cup dropped \cup exposed
LineFirst == \A h \in Handler : at[h] = "insert" => req[h] \in log

\* The inductive invariant of capture, log and boot, with WriteAhead and LoggedKept.
IInv == TypeOK /\ ReplayOnly /\ FoldedIn /\ LineFirst /\ WriteAhead /\ LoggedKept

-----------------------------------------------------------------------------
\* What comments say and the code does not do (see the README's findings).

\* daemon/index.ts at WAL.truncate, "once everything has been folded in": no boot throws a
\* line away whose payload has no row and was not deleted.
TruncatedFolded == [][\A p \in log \ log' : p \in Rows \cup gone]_vars
=============================================================================
