------------------------------- MODULE Transfer -------------------------------
(* Export and import of a store. The export reads a table at a time while     *)
(* other processes write; the import inserts row by row, under the ids of the *)
(* rows, into the store the snapshot comes from, into an empty one or into    *)
(* one with rows of its own, which captures go on filling.                    *)
(*                                                                            *)
(* AUTOINCREMENT never gives an id of a store again, so a row is told by the  *)
(* store it was first written to and by its id.                               *)
EXTENDS Integers, Sequences, FiniteSets

CONSTANTS
    MaxRows,      \* bound: the events, and the summaries, first written here
    MaxOwn,       \* bound: those first written there
    MaxPasses     \* bound: how often the snapshot is imported

Store == {"here", "there"}

VARIABLES
    events,       \* in each store: id -> the store the event was first written to
    summaries,    \* id -> [of: the store it was first written to, event: its event_id,
                  \*        about: the store of the event it was made from]
    marks,        \* the pairs of summary_supersedes
    lastEvent, lastSummary,   \* sqlite_sequence
    table,        \* the next table to export; 0 is before
    snapshot,     \* the rows exported
    target, reached, pass,    \* where it is imported to, the next row, which import
    counted,      \* inserted, skipped, errors of this import
    mixed,        \* history: the other store has numbered rows of its own
    deleted,      \* history: the target's rows deleted since the export
    found         \* history: the target's rows when this import began

sourceVars == <<events, summaries, marks, lastEvent, lastSummary>>
transferVars == <<sourceVars, table, snapshot, target, reached, pass, counted, mixed, deleted, found>>

Bound(s) == IF s = "here" THEN MaxRows ELSE MaxOwn

None == [i \in {} |-> 0]
With(f, i, v) == [x \in DOMAIN f \cup {i} |-> IF x = i THEN v ELSE f[x]]
Without(f, S) == [x \in DOMAIN f \ S |-> f[x]]
Greater(a, b) == IF a > b THEN a ELSE b

TransferInit ==
    /\ events = [s \in Store |-> None] /\ summaries = [s \in Store |-> None]
    /\ marks = [s \in Store |-> {}]
    /\ lastEvent = [s \in Store |-> 0] /\ lastSummary = [s \in Store |-> 0]
    /\ table = 0 /\ snapshot = <<>> /\ target = "here" /\ reached = 0 /\ pass = 0
    /\ counted = [inserted |-> 0, skipped |-> 0, errors |-> 0]
    /\ mixed = FALSE /\ deleted = {} /\ found = {}

RowsOf(s) ==
    {[in |-> "events", id |-> i, row |-> events[s][i]] : i \in DOMAIN events[s]}
    \cup {[in |-> "summaries", id |-> i, row |-> summaries[s][i]] : i \in DOMAIN summaries[s]}
    \cup {[in |-> "supersedes", id |-> m, row |-> TRUE] : m \in marks[s]}

-----------------------------------------------------------------------------
(* What goes on in either store meanwhile; once the export is done, in the    *)
(* target: the other store no longer matters.                                 *)

Writable(s) == table = 0 \/ (table < 4 /\ s = "here") \/ (table = 4 /\ s = target)

RecordEvent(s) ==
    /\ Writable(s) /\ lastEvent[s] < Bound(s)
    /\ LET i == lastEvent[s] + 1 IN
       /\ lastEvent' = [lastEvent EXCEPT ![s] = i]
       /\ events' = [events EXCEPT ![s] = With(@, i, s)]
    /\ mixed' = (mixed \/ s = "there")
    /\ UNCHANGED <<summaries, marks, lastSummary, table, snapshot, target, reached, pass, counted, deleted, found>>

RecordSummary(s) ==
    /\ Writable(s) /\ lastSummary[s] < Bound(s)
    /\ \E e \in DOMAIN events[s] :
          /\ summaries' = [summaries EXCEPT ![s] =
                            With(@, lastSummary[s] + 1, [of |-> s, event |-> e, about |-> events[s][e]])]
          /\ lastSummary' = [lastSummary EXCEPT ![s] = @ + 1]
    /\ mixed' = (mixed \/ s = "there")
    /\ UNCHANGED <<events, marks, lastEvent, table, snapshot, target, reached, pass, counted, deleted, found>>

RecordSupersedes(s) ==
    /\ Writable(s)
    /\ \E newer, older \in DOMAIN summaries[s] :
          newer > older /\ marks' = [marks EXCEPT ![s] = @ \cup {<<newer, older>>}]
    /\ UNCHANGED <<events, summaries, lastEvent, lastSummary, table, snapshot, target, reached, pass,
                   counted, mixed, deleted, found>>

\* Summaries take their marks with them, of either end.
DeleteRows(s, E, S) ==
    /\ Writable(s)
    /\ events' = [events EXCEPT ![s] = Without(@, E)]
    /\ summaries' = [summaries EXCEPT ![s] = Without(@, S)]
    /\ marks' = [marks EXCEPT ![s] = {m \in @ : {m[1], m[2]} \cap S = {}}]
    /\ deleted' = IF table > 0 /\ s = target THEN deleted \cup (RowsOf(s) \ RowsOf(s)') ELSE deleted
    /\ UNCHANGED <<lastEvent, lastSummary, table, snapshot, target, reached, pass, counted, mixed, found>>

\* An event goes, by prune or sweep, and its summaries with it.
DeleteEvent(s) ==
    \E e \in DOMAIN events[s] :
        DeleteRows(s, {e}, {i \in DOMAIN summaries[s] : summaries[s][i].event = e})

\* prune, asked for superseded summaries: their events stay.
PruneSuperseded(s) == marks[s] # {} /\ DeleteRows(s, {}, {m[2] : m \in marks[s]})

-----------------------------------------------------------------------------
(* exportRows                                                                 *)

\* Mutant: the summaries are written before their events.
SummariesFirst == <<"summaries", "events", "supersedes">>

\* The tables in the order of the snapshot.
tables == <<"events", "summaries", "supersedes">>

Before(a, b) ==
    \/ a.in = "supersedes" /\ (a.id[1] < b.id[1] \/ (a.id[1] = b.id[1] /\ a.id[2] < b.id[2]))
    \/ a.in # "supersedes" /\ a.id < b.id

\* The rows of one table in the order of their keys.
Listing(S) ==
    {rows \in [1..Cardinality(S) -> S] :
        /\ S \subseteq {rows[n] : n \in 1..Cardinality(S)}
        /\ \A m, n \in 1..Cardinality(S) : m < n => Before(rows[m], rows[n])}

ExportBegins ==
    /\ table = 0 /\ table' = 1
    /\ UNCHANGED <<sourceVars, snapshot, target, reached, pass, counted, mixed, deleted, found>>

ExportTable ==
    /\ table \in 1..3
    /\ \E rows \in Listing({r \in RowsOf("here") : r.in = tables[table]}) :
          snapshot' = snapshot \o rows
    /\ table' = table + 1
    /\ target' \in IF table = 3 THEN Store ELSE {target}
    /\ UNCHANGED <<sourceVars, reached, pass, counted, mixed, deleted, found>>

-----------------------------------------------------------------------------
(* importRow                                                                  *)

ImportBegins ==
    /\ table = 4 /\ reached = 0 /\ pass < MaxPasses
    /\ reached' = 1 /\ pass' = pass + 1
    /\ counted' = [inserted |-> 0, skipped |-> 0, errors |-> 0]
    /\ found' = RowsOf(target)
    /\ UNCHANGED <<sourceVars, table, snapshot, target, mixed, deleted>>

Row == snapshot[reached]
Counts(what) ==
    /\ counted' = [counted EXCEPT ![what] = @ + 1]
    /\ reached' = reached + 1
    /\ UNCHANGED <<table, snapshot, target, pass, mixed, deleted, found>>

\* INSERT OR IGNORE: the key is there already.
Exists(r) == \E q \in RowsOf(target) : q.in = r.in /\ q.id = r.id

\* FOREIGN KEY, which OR IGNORE does not ignore
Refers(r) ==
    \/ r.in = "events"
    \/ r.in = "summaries" /\ r.row.event \in DOMAIN events[target]
    \/ r.in = "supersedes" /\ {r.id[1], r.id[2]} \subseteq DOMAIN summaries[target]

Importing == reached \in 1..Len(snapshot)

\* Mutant: INSERT OR REPLACE, which deletes the row that is in the way, and cascades.
ImportReplaces ==
    /\ Importing /\ Refers(Row)
    /\ LET i == Row.id
           gone == IF Row.in = "events" THEN {x \in DOMAIN summaries[target] : summaries[target][x].event = i} ELSE {}
       IN /\ events' = IF Row.in = "events" THEN [events EXCEPT ![target] = With(@, i, Row.row)] ELSE events
          /\ summaries' = IF Row.in = "summaries" THEN [summaries EXCEPT ![target] = With(@, i, Row.row)]
                          ELSE [summaries EXCEPT ![target] = Without(@, gone)]
          /\ marks' = marks
    /\ UNCHANGED <<lastEvent, lastSummary>>
    /\ Counts("inserted")

ImportInserts ==
    /\ Importing /\ ~Exists(Row) /\ Refers(Row)
    /\ LET i == Row.id IN
       \/ /\ Row.in = "events"
          /\ events' = [events EXCEPT ![target] = With(@, i, Row.row)]
          /\ lastEvent' = [lastEvent EXCEPT ![target] = Greater(@, i)]
          /\ UNCHANGED <<summaries, marks, lastSummary>>
       \/ /\ Row.in = "summaries"
          /\ summaries' = [summaries EXCEPT ![target] = With(@, i, Row.row)]
          /\ lastSummary' = [lastSummary EXCEPT ![target] = Greater(@, i)]
          /\ UNCHANGED <<events, marks, lastEvent>>
       \/ /\ Row.in = "supersedes"
          /\ marks' = [marks EXCEPT ![target] = @ \cup {i}]
          /\ UNCHANGED <<events, summaries, lastEvent, lastSummary>>
    /\ Counts("inserted")

ImportSkips == Importing /\ Exists(Row) /\ UNCHANGED sourceVars /\ Counts("skipped")

ImportErrs == Importing /\ ~Exists(Row) /\ ~Refers(Row) /\ UNCHANGED sourceVars /\ Counts("errors")

ImportEnds ==
    /\ reached = Len(snapshot) + 1 /\ reached' = 0
    /\ UNCHANGED <<sourceVars, table, snapshot, target, pass, counted, mixed, deleted, found>>

TransferNext ==
    \/ \E s \in Store : RecordEvent(s) \/ RecordSummary(s) \/ RecordSupersedes(s)
    \/ \E s \in Store : DeleteEvent(s) \/ PruneSuperseded(s)
    \/ ExportBegins \/ ExportTable
    \/ ImportBegins \/ ImportInserts \/ ImportSkips \/ ImportErrs \/ ImportEnds

TransferSpec == TransferInit /\ [][TransferNext]_transferVars

-----------------------------------------------------------------------------
(* Properties                                                                 *)

Imported == table = 4 /\ reached = 0 /\ pass > 0
Exported == {snapshot[n] : n \in 1..Len(snapshot)}

\* The rows of the snapshot that refer only to rows of the snapshot: an export that other writers overtake can
\* hold more.
ExportedEvents == {r.id : r \in {q \in Exported : q.in = "events"}}
Closed ==
    {r \in Exported : r.in = "events" \/ (r.in = "summaries" /\ r.row.event \in ExportedEvents)}

\* Importing into the store the snapshot comes from, or into an empty one, gives back every row whose references
\* were exported with it, as it was, whatever was captured or deleted since in the store it comes from; a row
\* deleted in the target after the export may be missing with what hangs on it, and nothing else.
RestoresSnapshot ==
    Imported /\ ~mixed /\ deleted = {} => Closed \subseteq RowsOf(target)

\* An import takes nothing away: of what the target held when the import began, just what others deleted, by
\* prune or sweep, is not there after it.
ImportTakesNothing ==
    Imported => found \subseteq RowsOf(target) \cup deleted

\* The summaries of a store are about the events they are kept under.
SummariesKeepTheirEvent ==
    \A s \in Store : \A i \in DOMAIN summaries[s] :
        summaries[s][i].about = events[s][summaries[s][i].event]

-----------------------------------------------------------------------------
(* The inductive strengthening                                                *)

Summary == [of : Store, event : Nat, about : Store]
TableRow ==
    [in : {"events"}, id : Nat \ {0}, row : Store]
    \cup [in : {"summaries"}, id : Nat \ {0}, row : Summary]
    \cup [in : {"supersedes"}, id : Nat \X Nat, row : {TRUE}]

TransferTypeOK ==
    /\ DOMAIN events = Store /\ DOMAIN summaries = Store /\ DOMAIN marks = Store
    /\ lastEvent \in [Store -> Nat] /\ lastSummary \in [Store -> Nat]
    /\ table \in 0..4 /\ snapshot \in Seq(TableRow)
    /\ target \in Store /\ reached \in Nat /\ pass \in Nat
    /\ mixed \in BOOLEAN

\* No store has an id it has not given out or taken over.
IdsGiven ==
    \A s \in Store :
        /\ \A i \in DOMAIN events[s] : i \in 1..lastEvent[s] /\ events[s][i] \in Store
        /\ \A i \in DOMAIN summaries[s] : i \in 1..lastSummary[s] /\ summaries[s][i] \in Summary
        /\ marks[s] \subseteq (1..lastSummary[s]) \X (1..lastSummary[s])

\* A snapshot has a row once, the events first, and is complete before it is imported.
SnapshotInOrder ==
    /\ \A n \in 1..Len(snapshot) : \E j \in 1..3 : j < table /\ snapshot[n].in = tables[j]
    /\ \A m, n \in 1..Len(snapshot) :
           snapshot[m].in = "events" /\ snapshot[n].in # "events" => m < n
    /\ \A q, r \in Exported : q.in = r.in /\ q.id = r.id => q = r
    /\ table < 4 => target = "here" /\ pass = 0 /\ reached = 0
    /\ reached > 0 => pass > 0

\* An exported id stands for the exported row in the store it comes from, and in
\* the other one as long as that has numbered no rows of its own.
Agrees(s) ==
    \A r \in Exported :
        /\ r.in = "events" /\ r.id \in DOMAIN events[s] => events[s][r.id] = r.row
        /\ r.in = "summaries" /\ r.id \in DOMAIN summaries[s] => summaries[s][r.id] = r.row

IdsAgree ==
    /\ \A r \in Exported : /\ r.in = "events" => r.id <= lastEvent["here"]
                           /\ r.in = "summaries" => r.id <= lastSummary["here"]
    /\ Agrees("here")
    /\ mixed \/ (Agrees("there") /\ (table < 4 => /\ DOMAIN events["there"] = {}
                                                 /\ DOMAIN summaries["there"] = {}))

FoundStays == pass > 0 => found \subseteq RowsOf(target) \cup deleted

\* What an import has passed is in the target.
PassedIsThere ==
    ~mixed /\ deleted = {} /\ pass > 0 =>
        \A n \in 1..Len(snapshot) :
            (reached = 0 \/ n < reached) /\ snapshot[n] \in Closed => snapshot[n] \in RowsOf(target)

TransferInv ==
    TransferTypeOK /\ IdsGiven /\ SnapshotInOrder /\ IdsAgree /\ FoundStays /\ PassedIsThere
=============================================================================
