------------------------------ MODULE Curation -------------------------------
(* The daemon's curation of summaries: the consolidator marks older near      *)
(* duplicates as superseded, users and agents pin what must stay, prune and   *)
(* the sweeper delete. The consolidator's tick reads the embeddings, the      *)
(* superseded ids and the pins in three awaits and then writes one mark per   *)
(* await, so any request may come between what it read and what it writes.    *)
(*                                                                            *)
(* Summary ids are given in the order of their timestamps. A vector is a      *)
(* point on a line, and two are near duplicates when adjacent: nearness is    *)
(* not transitive, as the cosine of embeddings is not.                        *)
EXTENDS Integers, FiniteSets

CONSTANTS
    MaxId,        \* bound: summaries ever inserted
    Point,        \* the vectors there are
    Foreign,      \* ids whose embedding came from an embedder since replaced
    MinDelta,     \* opts.minNewSinceLastRun
    PairLimit,    \* opts.pairLimit
    MaxEdits,     \* bound: pins, unpins, prunes, expirations and compactions
    MaxRestarts   \* bound: restarts of the daemon

Id == 1..MaxId

ASSUME CurationAssumption ==
    /\ MaxId \in Nat /\ Point \subseteq Int /\ Foreign \subseteq Id
    /\ MinDelta \in Nat \ {0} /\ PairLimit \in Nat
    /\ MaxEdits \in Nat /\ MaxRestarts \in Nat

VARIABLES
    last,         \* the newest id: AUTOINCREMENT never gives one twice
    rows,         \* the summaries there are
    vec,          \* the vector of each summary
    embedded,     \* summaries that have an embedding row
    pinned,
    pairs,        \* summary_supersedes, as <<newer, older>>
    con,          \* the consolidator: where its tick is and what it has read
    edits, restarts,
    latePins,     \* history: pins placed too late to protect
    merged,       \* history: every pair ever recorded
    expired       \* history: summaries deleted by other means than prune

table == <<last, rows, vec, embedded, pinned, pairs>>
history == <<latePins, merged, expired>>
curation == <<table, con, edits, restarts, history>>

Older(P) == {p[2] : p \in P}
Idle(total) == [at |-> "armed", lastTotal |-> total, all |-> {}, dropped |-> {}, todo |-> {}]

CurationInit ==
    /\ last = 0 /\ rows = {} /\ embedded = {} /\ pinned = {} /\ pairs = {}
    /\ vec = [i \in Id |-> CHOOSE p \in Point : TRUE]
    /\ con = Idle(0)
    /\ edits = 0 /\ restarts = 0
    /\ latePins = {} /\ merged = {} /\ expired = {}

-----------------------------------------------------------------------------
(* What the requests do to the tables.                                        *)

Edit == edits < MaxEdits /\ edits' = edits + 1 /\ UNCHANGED <<last, vec, con, restarts>>

\* recordSummary, and putEmbedding when the embedder answers.
SummaryAdded ==
    /\ last < MaxId
    /\ last' = last + 1
    /\ rows' = rows \cup {last'}
    /\ \E p \in Point : vec' = [vec EXCEPT ![last'] = p]
    /\ embedded' \in {embedded, embedded \cup {last'}}
    /\ UNCHANGED <<pinned, pairs, con, edits, restarts, history>>

\* The consolidator no longer looks at a pin placed now.
TooLate(i) == i \in Older(pairs) \/ con.at = "mark"

PinAll(S) ==
    /\ Edit
    /\ pinned' = pinned \cup S
    /\ latePins' = latePins \cup {i \in S \ pinned : TooLate(i)}
    /\ UNCHANGED <<rows, embedded, pairs, merged, expired>>

\* `pin' of one summary.
Pin == \E i \in rows : PinAll({i})

\* auto_pin_patterns: every summary of a recurring input that has no pin yet.
AutoPin == \E S \in SUBSET (rows \ pinned) : Cardinality(S) > 1 /\ PinAll(S)

Unpin ==
    /\ Edit
    /\ \E i \in pinned : pinned' = pinned \ {i} /\ latePins' = latePins \ {i}
    /\ UNCHANGED <<rows, embedded, pairs, merged, expired>>

\* A deletion takes the embedding and the marks of the rows with it (ON DELETE CASCADE).
Delete(S) ==
    /\ rows' = rows \ S /\ embedded' = embedded \ S
    /\ pinned' = pinned \ S /\ latePins' = latePins \ S
    /\ pairs' = {p \in pairs : p[1] \notin S /\ p[2] \notin S}

\* Mutant: prune takes the column of the survivors.
PruneNewer == Edit /\ Delete({p[1] : p \in pairs}) /\ UNCHANGED <<merged, expired>>

\* prune with `superseded': pins are not asked.
Prune == Edit /\ pairs # {} /\ Delete(Older(pairs)) /\ UNCHANGED <<merged, expired>>

\* The sweeper deletes an event whose ttl has passed, and its summary.
Expire ==
    /\ Edit
    /\ \E i \in rows : Delete({i}) /\ expired' = expired \cup {i}
    /\ UNCHANGED merged

\* compact: embeddings of another dimension than the daemon's embedder's.
Compact ==
    /\ Edit
    /\ embedded \cap Foreign # {}
    /\ embedded' = embedded \ Foreign
    /\ UNCHANGED <<rows, pinned, pairs, history>>

-----------------------------------------------------------------------------
(* The consolidator.                                                          *)

Step == UNCHANGED <<last, rows, vec, embedded, pinned, edits, restarts, latePins, expired>>
Quiet == UNCHANGED <<pairs, merged>>

Near(i, j) == vec[i] - vec[j] \in -1..1

\* The summary that supersedes j among the live ones: the first newer one near to it.
Keeper(live, j) ==
    {i \in live : i > j /\ Near(i, j) /\ \A k \in live : k > j /\ k < i => ~Near(k, j)}

\* Comparisons the scan makes up to newer i and older j: a summary already superseded is
\* not looked at again.
Comparisons(live, i, j) ==
    Cardinality({c \in live \X live :
        /\ c[2] < c[1] /\ (c[1] < i \/ (c[1] = i /\ c[2] <= j))
        /\ \A k \in Keeper(live, c[2]) : c[1] <= k})

Marks(live) ==
    {p \in live \X live : p[1] \in Keeper(live, p[2]) /\ Comparisons(live, p[1], p[2]) <= PairLimit}

\* Mutant: the skipped tick does not arm the next one.
TickNoRearm ==
    /\ con.at = "armed"
    /\ con' = IF Cardinality(embedded) - con.lastTotal < MinDelta
              THEN [con EXCEPT !.at = "off"]
              ELSE [Idle(Cardinality(embedded)) EXCEPT !.at = "dropped", !.all = embedded]
    /\ Quiet /\ Step

\* The timer fires: too few new embeddings, or a snapshot of all of them is taken.
Tick ==
    /\ con.at = "armed"
    /\ Cardinality(embedded) - con.lastTotal >= MinDelta
    /\ con' = [Idle(Cardinality(embedded)) EXCEPT !.at = "dropped", !.all = embedded]
    /\ Quiet /\ Step

ReadDropped ==
    /\ con.at = "dropped"
    /\ con' = [con EXCEPT !.at = "pins", !.dropped = Older(pairs)]
    /\ Quiet /\ Step

Scan(live) ==
    /\ con.at = "pins"
    /\ con' = IF Marks(live) = {} THEN Idle(con.lastTotal)
              ELSE [con EXCEPT !.at = "mark", !.todo = Marks(live)]
    /\ Quiet /\ Step

\* Mutant: pinned summaries are compared like the others.
ScanPinned == Scan(con.all \ con.dropped)

ReadPins == Scan((con.all \ con.dropped) \ pinned)

\* The pair of P the scan comes to first: by newer, then by older.
IsNext(p, P) == \A q \in P : p[1] < q[1] \/ (p[1] = q[1] /\ p[2] <= q[2])

\* recordSupersedes of the next pair.
Mark ==
    /\ con.at = "mark"
    /\ \E p \in con.todo :
           /\ IsNext(p, con.todo)
           /\ {p[1], p[2]} \subseteq rows
           /\ pairs' = pairs \cup {p} /\ merged' = merged \cup {p}
           /\ con' = IF con.todo = {p} THEN Idle(con.lastTotal)
                     ELSE [con EXCEPT !.todo = @ \ {p}]
    /\ Step

\* A summary of the pair is gone: the foreign key fails, the exception leaves tick before
\* scheduleTick, and no timer is armed again.
MarkFails ==
    /\ con.at = "mark"
    /\ \E p \in con.todo : IsNext(p, con.todo) /\ ~({p[1], p[2]} \subseteq rows)
    /\ con' = [Idle(con.lastTotal) EXCEPT !.at = "dead"]
    /\ Quiet /\ Step

\* The daemon stops, wherever its consolidator is, and starts again.
Restart ==
    /\ restarts < MaxRestarts /\ restarts' = restarts + 1
    /\ con' = Idle(0)
    /\ UNCHANGED <<table, edits, history>>

Consolidate == Tick \/ ReadDropped \/ ReadPins \/ Mark \/ MarkFails
Curate == SummaryAdded \/ Pin \/ AutoPin \/ Unpin \/ Prune \/ Expire \/ Compact

CurationNext == Consolidate \/ Curate \/ Restart

\* The timer fires, and SQLite answers.
CurationSpec == CurationInit /\ [][CurationNext]_curation /\ WF_curation(Consolidate)

-----------------------------------------------------------------------------

\* A summary that is both pinned and superseded was pinned too late: after the mark, or
\* after the tick that marked it had read the pins. "Non-null timestamps survive supersede"
\* (schema.ts) and the comment at consolidator.ts:74 are about all pins.
PinProtects == pinned \cap Older(pairs) \subseteq latePins

\* What replaces i, through all marks ever recorded: the least set with i in it that has the newer
\* summary of every pair whose older one it has.
Heirs(i) ==
    {h \in Id : \A S \in SUBSET Id :
        i \in S /\ (\A p \in merged : p[2] \in S => p[1] \in S) => h \in S}

\* No family of near duplicates is deleted to the last member: what replaced a superseded
\* summary, or what replaced that, is still there and shown, unless it expired.
HeirRemains ==
    \A i \in Older(merged) : \E h \in Heirs(i) : h \in (rows \ Older(pairs)) \cup expired

\* When enough embeddings are new the consolidator gets to compare them, unless an
\* exception ended it or deletions brought the number back down.
BacklogCompared ==
    []<>(con.at = "dead" \/ Cardinality(embedded) - con.lastTotal < MinDelta)

\* schema.ts: pins "survive supersede + decay so the user (or an agent) can curate long-term
\* memories that the consolidator won't kill"; only unpin and a ttl end one.
PinsSurvive == [][\A i \in pinned \ pinned' : i \in rows' \/ i \in expired']_curation

-----------------------------------------------------------------------------
(* The inductive strengthening of PinProtects.                                *)

CurationTypeOK ==
    /\ pinned \subseteq Id /\ latePins \subseteq Id
    /\ pairs \subseteq Id \X Id
    /\ con \in [at : {"armed", "dropped", "pins", "mark", "off", "dead"}, lastTotal : Nat,
               all : SUBSET Id, dropped : SUBSET Id, todo : SUBSET (Id \X Id)]
    /\ rows \subseteq Id /\ embedded \subseteq Id /\ last \in 0..MaxId

\* What the consolidator is about to mark it has read as unpinned.
TodoUnpinned == con.at = "mark" => pinned \cap Older(con.todo) \subseteq latePins

PinInv == CurationTypeOK /\ PinProtects /\ TodoUnpinned

-----------------------------------------------------------------------------
(* The inductive strengthening of HeirRemains.                                *)

\* A mark leads from an older summary to a newer one.
Upward(P) == P \subseteq Id \X Id /\ \A p \in P : p[2] < p[1]

\* Prune takes only what was superseded.
KeepersStay == \A p \in merged : p[1] \in rows \cup expired \cup Older(merged)

HeirInv ==
    CurationTypeOK /\ Upward(merged) /\ Upward(con.todo) /\ pairs \subseteq merged /\ KeepersStay
=============================================================================
