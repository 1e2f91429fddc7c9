------------------------------- MODULE Doctor --------------------------------
(* The doctor's look at the vectors, its repair of them, and the probe of the *)
(* reranker it keeps for a minute. Embeddings live in a table and in a vec0   *)
(* index that knows nothing of deletions; the doctor compares the two by      *)
(* their number of rows, which it reads one after the other while summaries   *)
(* come and go, and several doctors may be at work.                           *)
EXTENDS Integers, FiniteSets

CONSTANTS
    Summary,
    Calls,        \* bound: the doctor requests of a run
    MaxClock,     \* bound: minutes
    Window        \* the minutes a probe is kept

ASSUME DoctorAssumption == IsFiniteSet(Summary) /\ Window \in Nat /\ MaxClock \in Nat

VARIABLES
    fresh,        \* summaries not yet written
    embeddings, vectors,
    mirroring,    \* written to the table, not yet to the index
    call,         \* each doctor request
    clock,
    cached,       \* when the kept probe began; Never
    missed,       \* history: summaries a write to the index failed for
    ended, tight, overlapped    \* history: probes that ended; see ProbesSpaced

health == <<fresh, embeddings, vectors, mirroring, call, clock, cached, missed, ended, tight,
            overlapped>>
store == <<fresh, embeddings, vectors, mirroring, missed>>
probes == <<clock, cached, ended, tight, overlapped>>

Never == -1 - Window - MaxClock
NewCall == [step |-> "idle", heal |-> FALSE, saw |-> {}, indexed |-> {}, began |-> Never, todo |-> {}]

DoctorInit ==
    /\ fresh \in SUBSET Summary
    /\ embeddings = Summary \ fresh
    /\ vectors \in SUBSET embeddings       \* sqlite-vec may have come later
    /\ mirroring = {} /\ missed = {}
    /\ call = [d \in Calls |-> NewCall]
    /\ clock = 0 /\ cached = Never /\ ended = {} /\ tight = FALSE /\ overlapped = FALSE

-----------------------------------------------------------------------------
(* The store.                                                                 *)

\* putEmbedding: the table, then the index, whose failure is swallowed.
PutRow(s) ==
    /\ s \in fresh
    /\ fresh' = fresh \ {s}
    /\ embeddings' = embeddings \cup {s}
    /\ mirroring' = mirroring \cup {s}
    /\ UNCHANGED <<vectors, missed, call, probes>>

PutVector(s, fails) ==
    /\ s \in mirroring
    /\ mirroring' = mirroring \ {s}
    /\ vectors' = IF fails THEN vectors ELSE vectors \cup {s}
    /\ missed' = IF fails THEN missed \cup {s} ELSE missed
    /\ UNCHANGED <<fresh, embeddings, call, probes>>

\* A summary goes and its embedding with it, or compact drops the embedding of
\* another dimension: the index keeps the row.
Drop(s) ==
    /\ s \in embeddings
    /\ embeddings' = embeddings \ {s}
    /\ UNCHANGED <<fresh, vectors, mirroring, missed, call, probes>>

-----------------------------------------------------------------------------
(* doctor.                                                                    *)

CountEmbeddings(d, heal) ==
    /\ call[d].step = "idle"
    /\ call' = [call EXCEPT ![d] = [@ EXCEPT !.step = "counting", !.heal = heal, !.saw = embeddings]]
    /\ UNCHANGED <<store, probes>>

CountVectors(d) ==
    /\ call[d].step = "counting"
    /\ call' = [call EXCEPT ![d] = [@ EXCEPT !.step = "counted", !.indexed = vectors]]
    /\ UNCHANGED <<store, probes>>

\* The kept probe is used for a minute, unless this is a repair.
Kept(d) == ~call[d].heal /\ clock - cached <= Window

UseKept(d) ==
    /\ call[d].step = "counted" /\ Kept(d)
    /\ call' = [call EXCEPT ![d] = [@ EXCEPT !.step = "probed"]]
    /\ UNCHANGED <<store, probes>>

Probing == {d \in Calls : call[d].step = "probing"}

Probe(d) ==
    /\ call[d].step = "counted" /\ ~Kept(d)
    /\ call' = [call EXCEPT ![d] = [@ EXCEPT !.step = "probing", !.began = clock]]
    /\ tight' = (tight \/ (~call[d].heal /\ \E t \in ended : clock - t <= Window))
    /\ overlapped' = (overlapped \/ Probing # {})
    /\ UNCHANGED <<store, clock, cached, ended>>

\* Mutant: only a repair keeps what its probe found.
ProbeKeptByHeal(d) ==
    /\ call[d].step = "probing"
    /\ call' = [call EXCEPT ![d] = [@ EXCEPT !.step = "probed"]]
    /\ cached' = IF call[d].heal THEN call[d].began ELSE cached
    /\ ended' = ended \cup {call[d].began}
    /\ UNCHANGED <<store, clock, tight, overlapped>>

\* ping answers, well or ill: kept under the time it began.
ProbeEnds(d) ==
    /\ call[d].step = "probing"
    /\ call' = [call EXCEPT ![d] = [@ EXCEPT !.step = "probed"]]
    /\ cached' = call[d].began
    /\ ended' = ended \cup {call[d].began}
    /\ UNCHANGED <<store, clock, tight, overlapped>>

\* Mutant: a drift of one row is let pass.
DriftsByTwo(d) == Cardinality(call[d].saw) - Cardinality(call[d].indexed) > 1

Drifts(d) == Cardinality(call[d].saw) - Cardinality(call[d].indexed) > 0

\* backfillVec: the rows the index lacks, then a copy of each.
Heal(d) ==
    /\ call[d].step = "probed" /\ call[d].heal /\ Drifts(d)
    /\ call' = [call EXCEPT ![d] = [@ EXCEPT !.step = "healing", !.todo = embeddings \ vectors]]
    /\ UNCHANGED <<store, probes>>

Copy(d, s, fails) ==
    /\ call[d].step = "healing" /\ s \in call[d].todo
    /\ vectors' = IF fails THEN vectors ELSE vectors \cup {s}
    /\ missed' = IF fails THEN missed \cup {s} ELSE missed
    /\ call' = [call EXCEPT ![d] = [@ EXCEPT !.todo = call[d].todo \ {s}]]
    /\ UNCHANGED <<fresh, embeddings, mirroring, probes>>

Report(d) ==
    /\ \/ call[d].step = "probed" /\ ~(call[d].heal /\ Drifts(d))
       \/ call[d].step = "healing" /\ call[d].todo = {}
    /\ call' = [call EXCEPT ![d] = [@ EXCEPT !.step = "done"]]
    /\ UNCHANGED <<store, probes>>

Minute ==
    /\ clock < MaxClock
    /\ clock' = clock + 1
    /\ UNCHANGED <<store, call, cached, ended, tight, overlapped>>

DoctorNext ==
    \/ \E s \in Summary : PutRow(s) \/ Drop(s) \/ (\E fails \in BOOLEAN : PutVector(s, fails))
    \/ \E d \in Calls :
        \/ \E heal \in BOOLEAN : CountEmbeddings(d, heal)
        \/ CountVectors(d) \/ UseKept(d) \/ Probe(d) \/ ProbeEnds(d)
        \/ Heal(d) \/ Report(d)
        \/ \E s \in Summary, fails \in BOOLEAN : Copy(d, s, fails)
    \/ Minute

DoctorSpec == DoctorInit /\ [][DoctorNext]_health

-----------------------------------------------------------------------------
(* Properties.                                                                *)

\* "--heal repairs drift in place": a repair that ends has every embedding it
\* counted in the index, but for writes that fail, unless the index held rows
\* of dropped embeddings to make up the number.
HealExplained ==
    \A d \in Calls : call[d].step = "done" /\ call[d].heal =>
        \/ call[d].saw \cap embeddings \subseteq vectors \cup missed
        \/ call[d].indexed \ call[d].saw # {}

\* "A 60s window means at most ~1440 calls/day": a doctor that is no repair
\* probes within a minute of a probe that has ended only if two probes were
\* ever out at once.
ProbesSpaced == tight => overlapped

-----------------------------------------------------------------------------
(* The inductive strengthening.                                               *)

Call == [step : {"idle", "counting", "counted", "probing", "probed", "healing", "done"},
         heal : BOOLEAN, saw : SUBSET Summary, indexed : SUBSET Summary, began : Int,
         todo : SUBSET Summary]

DoctorTypeOK ==
    /\ fresh \in SUBSET Summary /\ embeddings \in SUBSET Summary /\ vectors \in SUBSET Summary
    /\ mirroring \in SUBSET Summary /\ missed \in SUBSET Summary
    /\ call \in [Calls -> Call]
    /\ clock \in Nat /\ cached \in Int /\ ended \in SUBSET Int
    /\ tight \in BOOLEAN /\ overlapped \in BOOLEAN

\* An embedding is written once, so one that a repair has counted and that is
\* gone does not come back.
CountedIsWritten ==
    /\ fresh \cap embeddings = {}
    /\ \A d \in Calls : call[d].step # "idle" => call[d].saw \cap fresh = {}

\* The index forgets nothing, and a repair owes what it has not copied.
RepairOwes ==
    \A d \in Calls :
        /\ call[d].step \notin {"idle", "counting"} => call[d].indexed \subseteq vectors
        /\ call[d].step = "healing" =>
            call[d].saw \cap embeddings \subseteq vectors \cup missed \cup call[d].todo

\* As long as no two probes were out at once, the kept one began last.
KeptIsLatest ==
    /\ \A t \in ended : t <= clock
    /\ overlapped \/ /\ \A t \in ended : t <= cached
                     /\ \A d \in Probing : \A t \in ended : t <= call[d].began
                     /\ \A d, o \in Probing : d = o
                     /\ ~tight
    /\ \A d \in Probing : call[d].began <= clock

DoctorInv ==
    DoctorTypeOK /\ CountedIsWritten /\ RepairOwes /\ HealExplained /\ KeptIsLatest
=============================================================================
