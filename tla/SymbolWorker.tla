---------------------------- MODULE SymbolWorker ------------------------------
(* The daemon's symbol worker: it reads a batch of events whose symbols are   *)
(* NULL, newest first, and writes to each what the extractor finds, or an     *)
(* empty list. A write may meet a busy database. Extraction and writes are    *)
(* awaits: captures and deletions come between them.                          *)
EXTENDS Naturals, FiniteSets

CONSTANTS
    MaxEvent,     \* bound: events captured
    Code,         \* the events whose payload names a code file and carries its text
    Batch,        \* opts.batch
    MaxBusy       \* bound: writes that fail, and extractions that fail

Ev == 1..MaxEvent
ASSUME SymbolAssumption == Code \subseteq Ev /\ Batch \in Nat \ {0} /\ MaxBusy \in Nat

VARIABLES
    newest,       \* the last event captured
    symbols,      \* symbols_json: "null", "empty", "found", or "none" for no row
    at,           \* the worker: its timer is armed, it works, or its loop has ended
    todo,         \* events of the batch not yet written
    writing,      \* what it is about to write to the newest of them
    busy          \* bound counter

symbolVars == <<newest, symbols, at, todo, writing, busy>>

SymbolInit ==
    /\ newest = 0
    /\ symbols = [e \in Ev |-> "none"]
    /\ at = "armed" /\ todo = {} /\ writing = "null"
    /\ busy = 0

Capture ==
    /\ newest < MaxEvent /\ newest' = newest + 1
    /\ symbols' = [symbols EXCEPT ![newest'] = "null"]
    /\ UNCHANGED <<at, todo, writing, busy>>

\* prune, the sweeper.
Forget ==
    /\ \E e \in Ev : symbols[e] # "none" /\ symbols' = [symbols EXCEPT ![e] = "none"]
    /\ UNCHANGED <<newest, at, todo, writing, busy>>

Pending == {e \in Ev : symbols[e] = "null"}

\* The Batch newest pending events.
eventsNeedingSymbols == {e \in Pending : Cardinality({f \in Pending : f > e}) < Batch}

\* The timer fires; an empty batch arms the next timer at once.
SymbolTick ==
    /\ at = "armed"
    /\ todo' = eventsNeedingSymbols
    /\ at' = IF todo' = {} THEN "armed" ELSE "work"
    /\ UNCHANGED <<newest, symbols, writing, busy>>

Current == CHOOSE e \in todo : \A f \in todo : f <= e

Hindered == busy < MaxBusy /\ busy' = busy + 1

Settle ==
    /\ todo' = todo \ {Current}
    /\ at' = IF todo' = {} THEN "armed" ELSE "work"
    /\ writing' = "null"

\* Mutant: an event without code is passed over.
PassOther ==
    /\ at = "work" /\ writing = "null" /\ Current \notin Code
    /\ Settle
    /\ UNCHANGED <<newest, symbols, busy>>

\* An event without code is to have an empty list.
TakeOther ==
    /\ at = "work" /\ writing = "null" /\ Current \notin Code
    /\ writing' = "empty"
    /\ UNCHANGED <<newest, symbols, at, todo, busy>>

\* The extractor answers, or throws and the catch settles for an empty list.
Extract ==
    /\ at = "work" /\ writing = "null" /\ Current \in Code
    /\ \/ writing' = "found" /\ UNCHANGED busy
       \/ writing' = "empty" /\ Hindered
    /\ UNCHANGED <<newest, symbols, at, todo>>

\* setEventSymbols; a row deleted meanwhile is not updated.
WriteSymbols ==
    /\ at = "work" /\ writing # "null"
    /\ symbols' = [symbols EXCEPT ![Current] = IF @ = "none" THEN @ ELSE writing]
    /\ Settle
    /\ UNCHANGED <<newest, busy>>

\* The write throws: the catch around the symbols writes an empty list instead; a throw of
\* that one, or of the one outside the try, ends the loop before it arms its timer.
SymbolWriteFails ==
    /\ at = "work" /\ writing # "null" /\ Hindered
    /\ IF writing = "found"
       THEN writing' = "empty" /\ UNCHANGED <<at, todo>>
       ELSE writing' = "null" /\ at' = "dead" /\ todo' = {}
    /\ UNCHANGED <<newest, symbols>>

Annotate == SymbolTick \/ TakeOther \/ Extract \/ WriteSymbols \/ SymbolWriteFails
SymbolNext == Capture \/ Forget \/ Annotate

\* The timer fires, the extractor answers, the writes return.
SymbolSpec == SymbolInit /\ [][SymbolNext]_symbolVars /\ WF_symbolVars(Annotate)

-----------------------------------------------------------------------------

\* "The worker writes one or the other but never leaves NULL forever" (schema.ts), newest
\* first though it works, as long as its loop has not ended.
AllAnnotated == \A e \in Ev : []<>(symbols[e] # "null" \/ at = "dead")
=============================================================================
