----------------------------- MODULE CallsProofs ------------------------------
(***************************************************************************)
(* What serves a call, for every number of its actors: the model cascade,  *)
(* the doctor, the commands, the web bridge and its page.  Each part has   *)
(* the inductive strengthening its module states, and one lemma per group  *)
(* of actions.                                                             *)
(***************************************************************************)
EXTENDS ModelCascade, Doctor, Commands, WebBridge, WebClient, FiniteSetTheorems, TLAPS

-------------------------------------------------------------------------------
(* The cascade never mixes up the answers of two inputs and never pays twice  *)
(* without a loss, for any number of events, inputs, racing jobs, retries and *)
(* faults. CascadeInv is inductive: an answer paid for stays in the hands of  *)
(* the job that got it until it is in the cache, so a later look-up finds it; *)
(* what leaves either is counted as spoilt (PaidIsKept).                      *)

LEMMA InitCascadeInv == CascadeInit => CascadeInv
  BY CascadeAssumption, NoAnswerAssumption
  DEF CascadeInit, CascadeInv, CascadeTypeOK, AnswersOwnInput, SummaryOfOwnInput, PaidIsKept,
      Model, Pc, NoJob, ModelAnswer

\* The records `job' is made of.
Job == [pc : Pc, model : Model, try : Nat, out : ModelAnswer \cup {NoAnswer}]

\* A step of one job that holds no answer it has not cached, and comes to ask only where the
\* cache has nothing.
LEMMA QuietStep ==
  ASSUME CascadeInv, NEW e \in Event, job[e].pc # "store",
         NEW new \in Job, job' = [job EXCEPT ![e] = new],
         UNCHANGED <<client, cache, summary, paid, spoilt>>,
         new.pc # "store",
         new.pc = "record" => new.out # NoAnswer /\ new.out.of = input[e],
         new.pc = "ask" => \/ job[e].pc = "ask" /\ new.model = job[e].model
                          \/ cache[new.model][input[e]] = NoAnswer
  PROVE  CascadeInv'
<1>1. /\ job'[e] = new /\ \A f \in Event \ {e} : job'[f] = job[f]
      /\ job' \in [Event -> Job]
  BY DEF CascadeInv, CascadeTypeOK, Job
<1>2. CascadeTypeOK'
  BY <1>1 DEF CascadeInv, CascadeTypeOK, Job
<1>3. AnswersOwnInput' /\ SummaryOfOwnInput'
  BY <1>1 DEF CascadeInv, AnswersOwnInput, SummaryOfOwnInput
<1>4. PaidIsKept'
  <2> SUFFICES ASSUME NEW n \in Model, NEW f \in Event
               PROVE  \/ paid[n][f] <= spoilt[n][f]
                      \/ /\ paid[n][f] = 1 + spoilt[n][f] /\ ~Asking(n, f)'
                         /\ Holding(n, f)' \/ cache[n][input[f]] # NoAnswer
    BY DEF PaidIsKept
  <2>1. \/ paid[n][f] <= spoilt[n][f]
        \/ /\ paid[n][f] = 1 + spoilt[n][f] /\ ~Asking(n, f)
           /\ Holding(n, f) \/ cache[n][input[f]] # NoAnswer
    BY DEF CascadeInv, PaidIsKept
  <2>2. CASE f # e
    BY <1>1, <2>1, <2>2 DEF Asking, Holding
  <2>3. CASE f = e
    BY <1>1, <2>1, <2>3 DEF Asking, Holding
  <2> QED
    BY <2>2, <2>3
<1> QED
  BY <1>2, <1>3, <1>4 DEF CascadeInv

LEMMA LookUpStep ==
  ASSUME CascadeInv, NEW e \in Event, LookUpFirst(e) \/ LookUpSecond(e)
  PROVE  CascadeInv'
<1> PICK m \in Model : /\ job[e].pc \in {"first", "second"}
                       /\ IF cache[m][input[e]] = NoAnswer THEN Hold(e, "ask", m, NoAnswer)
                          ELSE Hold(e, "record", m, cache[m][input[e]])
                       /\ UNCHANGED <<cache, summary, faults, client, paid, spoilt>>
  BY DEF LookUpFirst, LookUpSecond, Model, History
<1>1. input[e] \in Input
  BY CascadeAssumption
<1>2. cache[m][input[e]] \in ModelAnswer \cup {NoAnswer}
  BY <1>1 DEF CascadeInv, CascadeTypeOK
<1> DEFINE new == [pc |-> IF cache[m][input[e]] = NoAnswer THEN "ask" ELSE "record",
                   model |-> m, try |-> 0, out |-> cache[m][input[e]]]
<1>3. new \in Job
  BY <1>2 DEF Job, Pc
<1>4. job' = [job EXCEPT ![e] = new]
  BY DEF Hold
<1>5. cache[m][input[e]] # NoAnswer => cache[m][input[e]].of = input[e]
  BY <1>1 DEF CascadeInv, AnswersOwnInput
<1> QED
  BY <1>3, <1>4, <1>5, QuietStep

LEMMA RestartStep ==
  ASSUME CascadeInv, NEW e \in Event, Begin(e) \/ TryFails(e) \/ Requeue(e)
  PROVE  CascadeInv'
<1>1. job[e] \in Job
  BY DEF CascadeInv, CascadeTypeOK, Job
<1>2. NoJob \in Job
  BY DEF NoJob, Job, Pc, Model
<1>3. UNCHANGED <<client, cache, summary, paid, spoilt>>
  BY DEF Begin, TryFails, Requeue, History
<1>4. CASE job' = [job EXCEPT ![e] = NoJob] /\ job[e].pc # "store"
  BY <1>2, <1>3, <1>4, QuietStep DEF NoJob
<1>5. CASE /\ job[e].pc \in {"idle", "ask"}
           /\ \E pc \in {"first", "skipped"} : job' = [job EXCEPT ![e].pc = pc]
  <2> PICK pc \in {"first", "skipped"} : job' = [job EXCEPT ![e].pc = pc]
    BY <1>5
  <2> DEFINE new == [job[e] EXCEPT !.pc = pc]
  <2>1. new \in Job /\ new.pc = pc
    BY <1>1 DEF Job, Pc
  <2>2. job' = [job EXCEPT ![e] = new]
    OBVIOUS
  <2> QED
    BY <1>3, <1>5, <2>1, <2>2, QuietStep
<1>6. CASE job[e].pc = "ask" /\ job' = [job EXCEPT ![e].try = @ + 1]
  <2> DEFINE new == [job[e] EXCEPT !.try = @ + 1]
  <2>1. new \in Job /\ new.pc = "ask" /\ new.model = job[e].model
    BY <1>1, <1>6 DEF Job
  <2>2. job' = [job EXCEPT ![e] = new]
    BY <1>6
  <2> QED
    BY <1>3, <1>6, <2>1, <2>2, QuietStep
<1> QED
  BY <1>4, <1>5, <1>6 DEF Begin, TryFails, Requeue, To

\* A request was answered: the job holds what it paid for.
LEMMA GeneratedStep ==
  ASSUME CascadeInv, NEW e \in Event, Generated(e)
  PROVE  CascadeInv'
<1> PICK sure \in BOOLEAN : Hold(e, "store", job[e].model, [sure |-> sure, of |-> input[e]])
  BY DEF Generated
<1> DEFINE m == job[e].model
<1>1. /\ m \in Model /\ input[e] \in Input
      /\ [sure |-> sure, of |-> input[e]] \in ModelAnswer
      /\ [sure |-> sure, of |-> input[e]].of = input[e]
  BY CascadeAssumption DEF CascadeInv, CascadeTypeOK, ModelAnswer
<1>2. job[e].pc = "ask" /\ UNCHANGED <<client, cache, summary, faults, spoilt>>
  BY DEF Generated
<1>3. job' = [job EXCEPT ![e] = [pc |-> "store", model |-> m, try |-> 0,
                                 out |-> [sure |-> sure, of |-> input[e]]]]
  BY DEF Hold
<1>4. paid' = [paid EXCEPT ![m][e] = @ + 1]
  BY DEF Generated
<1> HIDE DEF m
<1>5. CascadeTypeOK'
  BY <1>1, <1>2, <1>3, <1>4 DEF CascadeInv, CascadeTypeOK, Pc
<1>6. AnswersOwnInput' /\ SummaryOfOwnInput'
  BY <1>1, <1>2, <1>3, NoAnswerAssumption
  DEF CascadeInv, CascadeTypeOK, AnswersOwnInput, SummaryOfOwnInput
<1>7. PaidIsKept'
  <2>1. /\ paid[m][e] <= spoilt[m][e]
    BY <1>1, <1>2 DEF CascadeInv, PaidIsKept, Asking, m
  <2> SUFFICES ASSUME NEW n \in Model, NEW f \in Event
               PROVE  \/ paid'[n][f] <= spoilt'[n][f]
                      \/ /\ paid'[n][f] = 1 + spoilt'[n][f] /\ ~Asking(n, f)'
                         /\ Holding(n, f)' \/ cache'[n][input[f]] # NoAnswer
    BY DEF PaidIsKept
  <2>2. CASE n = m /\ f = e
    BY <1>1, <1>2, <1>3, <1>4, <2>1, <2>2
    DEF CascadeInv, CascadeTypeOK, Asking, Holding
  <2>3. CASE f = e /\ n # m
    BY <1>1, <1>2, <1>3, <1>4, <2>3
    DEF CascadeInv, CascadeTypeOK, PaidIsKept, Asking, Holding
  <2>4. CASE f # e
    BY <1>1, <1>2, <1>3, <1>4, <2>4
    DEF CascadeInv, CascadeTypeOK, PaidIsKept, Asking, Holding
  <2> QED
    BY <2>2, <2>3, <2>4
<1> QED
  BY <1>5, <1>6, <1>7 DEF CascadeInv

\* The answer goes from the job to the cache.
LEMMA StoreStep ==
  ASSUME CascadeInv, NEW e \in Event, StoreAnswer(e)
  PROVE  CascadeInv'
<1> DEFINE m == job[e].model
           i == input[e]
           ans == job[e].out
<1>1. m \in Model /\ i \in Input /\ ans \in ModelAnswer /\ ans # NoAnswer /\ ans.of = i
  BY CascadeAssumption DEF CascadeInv, CascadeTypeOK, AnswersOwnInput, StoreAnswer
<1>2. /\ job[e].pc = "store" /\ cache' = [cache EXCEPT ![m][i] = ans]
      /\ UNCHANGED <<client, summary, paid, spoilt>>
  BY DEF StoreAnswer, History
<1>3. PICK pc \in {"record", "second"} : job' = [job EXCEPT ![e].pc = pc]
  BY DEF StoreAnswer, AfterStore, To
<1>4. /\ job'[e] = [job[e] EXCEPT !.pc = pc]
      /\ \A f \in Event \ {e} : job'[f] = job[f]
  BY <1>3 DEF CascadeInv, CascadeTypeOK
<1>5. job'[e].pc = pc /\ job'[e].out = ans /\ job'[e].model = m
  BY <1>4 DEF CascadeInv, CascadeTypeOK
<1> HIDE DEF m, i, ans
<1>6. \A n \in Model, j \in Input :
        cache'[n][j] = IF n = m /\ j = i THEN ans ELSE cache[n][j]
  BY <1>1, <1>2 DEF CascadeInv, CascadeTypeOK
<1>7. CascadeTypeOK'
  BY <1>1, <1>2, <1>3 DEF CascadeInv, CascadeTypeOK, Pc
<1>8. AnswersOwnInput' /\ SummaryOfOwnInput'
  <2>1. \A n \in Model, j \in Input : cache'[n][j] # NoAnswer => cache'[n][j].of = j
    BY <1>1, <1>6 DEF CascadeInv, AnswersOwnInput
  <2>2. \A f \in Event : job'[f].pc \in {"store", "record"} =>
          job'[f].out # NoAnswer /\ job'[f].out.of = input[f]
    BY <1>1, <1>4, <1>5 DEF CascadeInv, AnswersOwnInput, i
  <2> QED
    BY <1>2, <2>1, <2>2 DEF CascadeInv, AnswersOwnInput, SummaryOfOwnInput
<1>9. PaidIsKept'
  <2> SUFFICES ASSUME NEW n \in Model, NEW f \in Event
               PROVE  \/ paid[n][f] <= spoilt[n][f]
                      \/ /\ paid[n][f] = 1 + spoilt[n][f] /\ ~Asking(n, f)'
                         /\ Holding(n, f)' \/ cache'[n][input[f]] # NoAnswer
    BY <1>2 DEF PaidIsKept
  <2>1. input[f] \in Input
    BY CascadeAssumption
  <2>2. cache[n][input[f]] # NoAnswer => cache'[n][input[f]] # NoAnswer
    BY <1>1, <1>6, <2>1
  <2>3. ~Asking(n, f) => ~Asking(n, f)'
    BY <1>4, <1>5 DEF Asking
  <2>4. Holding(n, f) => Holding(n, f)' \/ cache'[n][input[f]] # NoAnswer
    BY <1>1, <1>4, <1>6, <2>1 DEF Holding, m, i
  <2> QED
    BY <2>2, <2>3, <2>4 DEF CascadeInv, PaidIsKept
<1> QED
  BY <1>7, <1>8, <1>9 DEF CascadeInv

LEMMA RecordStep ==
  ASSUME CascadeInv, NEW e \in Event, Record(e)
  PROVE  CascadeInv'
  BY CascadeAssumption, NoAnswerAssumption, SMTT(30)
  DEF CascadeInv, CascadeTypeOK, AnswersOwnInput, SummaryOfOwnInput, PaidIsKept, Asking,
      Holding, Model, Pc, ModelAnswer, Record, To, History

\* The answer in the job's hands is lost, and counted.
LEMMA WriteFailsStep ==
  ASSUME CascadeInv, NEW e \in Event, WriteFails(e)
  PROVE  CascadeInv'
<1> DEFINE m == job[e].model
<1>1. m \in Model /\ job[e] \in Job
  BY DEF CascadeInv, CascadeTypeOK, Job
<1>2. job[e].pc \in {"store", "record"} /\ UNCHANGED <<client, cache, summary, paid>>
  BY DEF WriteFails
<1>3. spoilt' = IF job[e].pc = "store" THEN [spoilt EXCEPT ![m][e] = @ + 1] ELSE spoilt
  BY DEF WriteFails
<1>4. /\ job' \in [Event -> Job]
      /\ job'[e].pc \in {"skipped", "idle"}
      /\ \A f \in Event \ {e} : job'[f] = job[f]
  <2>1. job \in [Event -> Job]
    BY DEF CascadeInv, CascadeTypeOK, Job
  <2>2. PICK new : /\ new = NoJob \/ new = [job[e] EXCEPT !.pc = "skipped"]
                   /\ job' = [job EXCEPT ![e] = new]
    BY DEF WriteFails, To
  <2>3. /\ new \in Job
        /\ new.pc \in {"skipped", "idle"}
    BY <1>1, <2>2 DEF NoJob, Pc, Model, Job
  <2> QED
    BY <2>1, <2>2, <2>3
<1> HIDE DEF m
<1>5. \A n \in Model, f \in Event :
        spoilt'[n][f] = IF n = m /\ f = e /\ job[e].pc = "store" THEN spoilt[n][f] + 1
                        ELSE spoilt[n][f]
  BY <1>1, <1>3 DEF CascadeInv, CascadeTypeOK
<1>6. CascadeTypeOK'
  BY <1>1, <1>2, <1>3, <1>4 DEF CascadeInv, CascadeTypeOK, Job
<1>7. AnswersOwnInput' /\ SummaryOfOwnInput'
  BY <1>2, <1>4 DEF CascadeInv, AnswersOwnInput, SummaryOfOwnInput
<1>8. PaidIsKept'
  <2> SUFFICES ASSUME NEW n \in Model, NEW f \in Event
               PROVE  \/ paid[n][f] <= spoilt'[n][f]
                      \/ /\ paid[n][f] = 1 + spoilt'[n][f] /\ ~Asking(n, f)'
                         /\ Holding(n, f)' \/ cache[n][input[f]] # NoAnswer
    BY <1>2 DEF PaidIsKept
  <2>1. paid[n][f] \in Nat /\ spoilt[n][f] \in Nat
    BY DEF CascadeInv, CascadeTypeOK
  <2>2. \/ paid[n][f] <= spoilt[n][f]
        \/ /\ paid[n][f] = 1 + spoilt[n][f] /\ ~Asking(n, f)
           /\ Holding(n, f) \/ cache[n][input[f]] # NoAnswer
    BY DEF CascadeInv, PaidIsKept
  <2>3. CASE f # e
    BY <1>4, <1>5, <2>2, <2>3 DEF Asking, Holding
  <2>4. CASE f = e
    BY <1>2, <1>4, <1>5, <2>1, <2>2, <2>4 DEF Asking, Holding, m
  <2> QED
    BY <2>3, <2>4
<1> QED
  BY <1>6, <1>7, <1>8 DEF CascadeInv

\* A cached answer is dropped, and counted for every event of its input.
LEMMA DropStep ==
  ASSUME CascadeInv, NEW m \in Model, NEW i \in Input, DropCached(m, i)
  PROVE  CascadeInv'
  BY CascadeAssumption, NoAnswerAssumption, SMTT(30)
  DEF CascadeInv, CascadeTypeOK, AnswersOwnInput, SummaryOfOwnInput, PaidIsKept, Asking,
      Holding, Model, Pc, ModelAnswer, DropCached, Fault

LEMMA NextCascadeInv == CascadeInv /\ [CascadeNext]_cascadeVars => CascadeInv'
<1> SUFFICES ASSUME CascadeInv, [CascadeNext]_cascadeVars PROVE CascadeInv'
  OBVIOUS
<1>1. CASE \E e \in Event : Summarize(e) \/ Requeue(e)
  BY <1>1, LookUpStep, RestartStep, GeneratedStep, StoreStep, RecordStep, WriteFailsStep DEF Summarize
<1>2. CASE \E m \in Model, i \in Input : DropCached(m, i)
  BY <1>2, DropStep
<1>3. CASE UNCHANGED cascadeVars
  BY <1>3
  DEF cascadeVars, CascadeInv, CascadeTypeOK, AnswersOwnInput, SummaryOfOwnInput, PaidIsKept,
      Asking, Holding
<1> QED
  BY <1>1, <1>2, <1>3 DEF CascadeNext

\* However jobs of one input race through the cache, fail, are requeued and start over, the
\* invariant of ModelCascade holds in every state.
THEOREM CascadeIsSound == CascadeSpec => []CascadeInv
  BY InitCascadeInv, NextCascadeInv, PTL DEF CascadeSpec

\* A summary is always of its own event's input (summarizer.ts: the cache key of each model).
THEOREM SummaryIsOwn == CascadeSpec => []SummaryOfOwnInput
<1>1. CascadeInv => SummaryOfOwnInput
  BY DEF CascadeInv
<1> QED
  BY <1>1, CascadeIsSound, PTL

\* "Identical re-runs are zero-cost": each event pays each model once, and once more for each
\* answer that was lost, whatever the bound on faults.
THEOREM EachPaysOnce == CascadeSpec => []PaidOnce
<1>1. CascadeInv => PaidOnce
  <2> SUFFICES ASSUME CascadeInv, NEW m \in Model, NEW e \in Event
               PROVE  paid[m][e] <= 1 + spoilt[m][e]
    BY DEF PaidOnce
  <2>1. paid[m][e] \in Nat /\ spoilt[m][e] \in Nat
    BY DEF CascadeInv, CascadeTypeOK
  <2> QED
    BY <2>1 DEF CascadeInv, PaidIsKept
<1> QED
  BY <1>1, CascadeIsSound, PTL

-------------------------------------------------------------------------------
(* The doctor, for any number of calls and summaries. DoctorInv: a drift that *)
(* was counted has been written, and by whom is known (CountedIsWritten); a   *)
(* repair owes what it set out to copy (RepairOwes); the probe that is kept   *)
(* is the latest (KeptIsLatest).                                              *)

LEMMA InitDoctorInv == DoctorInit => DoctorInv
<1> SUFFICES ASSUME DoctorInit PROVE DoctorInv
  OBVIOUS
<1>1. Never \in Int /\ \A d \in Calls : call[d] = NewCall
  BY DoctorAssumption DEF DoctorInit, Never
<1>2. NewCall \in Call
  BY <1>1 DEF NewCall, Call
<1>3. DoctorTypeOK
  BY <1>1, <1>2 DEF DoctorInit, DoctorTypeOK
<1>4. CountedIsWritten /\ RepairOwes /\ HealExplained /\ KeptIsLatest
  BY <1>1 DEF DoctorInit, CountedIsWritten, RepairOwes, HealExplained, KeptIsLatest, NewCall,
              Probing
<1> QED
  BY <1>3, <1>4 DEF DoctorInv

\* A step of the store, the calls and the probes standing still: rows of the table go or come
\* out of fresh, and the index and the failures only grow.
LEMMA DoctorStoreStep ==
  ASSUME DoctorInv, UNCHANGED <<call, probes>>,
         fresh' \subseteq fresh, embeddings' \subseteq embeddings \cup (fresh \ fresh'),
         vectors \subseteq vectors', vectors' \subseteq Summary,
         missed \subseteq missed', missed' \subseteq Summary, mirroring' \subseteq Summary
  PROVE  DoctorInv'
<1> USE DEF probes
<1>1. DoctorTypeOK'
  BY DEF DoctorInv, DoctorTypeOK
<1>2. CountedIsWritten'
  BY DEF DoctorInv, CountedIsWritten
<1>3. \A d \in Calls : call[d].step # "idle" =>
        call[d].saw \cap embeddings' \subseteq call[d].saw \cap embeddings
  BY DEF DoctorInv, CountedIsWritten
<1>4. RepairOwes' /\ HealExplained'
  BY <1>3 DEF DoctorInv, RepairOwes, HealExplained
<1>5. KeptIsLatest'
  BY DEF DoctorInv, KeptIsLatest, Probing
<1> QED
  BY <1>1, <1>2, <1>4, <1>5 DEF DoctorInv

LEMMA StoreActions ==
  ASSUME DoctorInv, NEW s \in Summary,
         PutRow(s) \/ Drop(s) \/ (\E fails \in BOOLEAN : PutVector(s, fails))
  PROVE  DoctorInv'
<1> DoctorTypeOK
  BY DEF DoctorInv
<1>1. CASE PutRow(s)
  BY <1>1, DoctorStoreStep DEF PutRow, DoctorTypeOK
<1>2. CASE Drop(s)
  BY <1>2, DoctorStoreStep DEF Drop, DoctorTypeOK
<1>3. ASSUME NEW fails \in BOOLEAN, PutVector(s, fails)
      PROVE  DoctorInv'
  <2>1. CASE fails
    BY <1>3, <2>1, DoctorStoreStep DEF PutVector, DoctorTypeOK
  <2>2. CASE ~fails
    BY <1>3, <2>2, DoctorStoreStep DEF PutVector, DoctorTypeOK
  <2> QED
    BY <2>1, <2>2
<1> QED
  BY <1>1, <1>2, <1>3

\* A step of one call that leaves the store and the probes alone.
LEMMA CallStep ==
  ASSUME DoctorInv, NEW d \in Calls, NEW new \in Call, call' = [call EXCEPT ![d] = new],
         UNCHANGED <<store, probes>>,
         call[d].step # "probing", new.step \notin {"idle", "probing"},
         new.saw \cap fresh = {},
         new.step # "counting" => new.indexed \subseteq vectors,
         new.step = "healing" => new.saw \cap embeddings \subseteq vectors \cup missed \cup new.todo,
         new.step = "done" /\ new.heal =>
            \/ new.saw \cap embeddings \subseteq vectors \cup missed
            \/ new.indexed \ new.saw # {}
  PROVE  DoctorInv'
<1> USE DEF probes, store
<1>1. call'[d] = new /\ \A o \in Calls \ {d} : call'[o] = call[o]
  BY DEF DoctorInv, DoctorTypeOK
<1>2. DoctorTypeOK'
  BY DEF DoctorInv, DoctorTypeOK
<1>3. CountedIsWritten'
  BY <1>1 DEF DoctorInv, CountedIsWritten
<1>4. RepairOwes'
  BY <1>1 DEF DoctorInv, RepairOwes
<1>5. HealExplained'
  BY <1>1 DEF DoctorInv, HealExplained
<1>6. Probing' = Probing /\ \A o \in Probing : call'[o] = call[o]
  BY <1>1 DEF Probing
<1>7. KeptIsLatest'
  BY <1>6 DEF DoctorInv, KeptIsLatest
<1> QED
  BY <1>2, <1>3, <1>4, <1>5, <1>7 DEF DoctorInv

\* A repair that finds no drift found an index with a row for each embedding it counted, or
\* with rows of others.
LEMMA NoDriftExplained ==
  ASSUME NEW saw \in SUBSET Summary, NEW indexed \in SUBSET Summary,
         ~(Cardinality(saw) - Cardinality(indexed) > 0), indexed \subseteq saw
  PROVE  indexed = saw
<1>1. IsFiniteSet(saw) /\ IsFiniteSet(indexed)
  BY FS_Subset, DoctorAssumption
<1>2. Cardinality(saw) \in Nat /\ Cardinality(indexed) \in Nat
  BY <1>1, FS_CardinalityType
<1>3. /\ Cardinality(indexed) <= Cardinality(saw)
      /\ Cardinality(indexed) = Cardinality(saw) => indexed = saw
  BY <1>1, FS_Subset
<1> QED
  BY <1>2, <1>3

LEMMA DoctorSteps ==
  ASSUME DoctorInv, NEW d \in Calls,
         \/ \E heal \in BOOLEAN : CountEmbeddings(d, heal)
         \/ CountVectors(d) \/ UseKept(d) \/ Heal(d) \/ Report(d)
  PROVE  DoctorInv'
<1>1. /\ DoctorTypeOK /\ CountedIsWritten /\ RepairOwes /\ HealExplained
      /\ call[d] \in Call
  BY DEF DoctorInv, DoctorTypeOK
<1>2. ASSUME NEW heal \in BOOLEAN, CountEmbeddings(d, heal)
      PROVE  DoctorInv'
  <2> DEFINE new == [call[d] EXCEPT !.step = "counting", !.heal = heal, !.saw = embeddings]
  <2>1. new \in Call /\ new.step = "counting" /\ new.saw = embeddings
    BY <1>1 DEF Call, DoctorTypeOK
  <2>2. call' = [call EXCEPT ![d] = new] /\ UNCHANGED <<store, probes>> /\ call[d].step = "idle"
    BY <1>2 DEF CountEmbeddings
  <2>3. new.saw \cap fresh = {}
    BY <1>1, <2>1 DEF CountedIsWritten
  <2> HIDE DEF new
  <2> QED
    BY <2>1, <2>2, <2>3, CallStep
<1>3. CASE CountVectors(d)
  <2> DEFINE new == [call[d] EXCEPT !.step = "counted", !.indexed = vectors]
  <2>1. new \in Call /\ new.step = "counted" /\ new.saw = call[d].saw /\ new.indexed = vectors
    BY <1>1 DEF Call, DoctorTypeOK
  <2>2. /\ call' = [call EXCEPT ![d] = new] /\ UNCHANGED <<store, probes>>
        /\ call[d].step = "counting"
    BY <1>3 DEF CountVectors
  <2>3. new.saw \cap fresh = {}
    BY <1>1, <2>1, <2>2 DEF CountedIsWritten
  <2> HIDE DEF new
  <2> QED
    BY <2>1, <2>2, <2>3, CallStep
<1>4. CASE UseKept(d)
  <2> DEFINE new == [call[d] EXCEPT !.step = "probed"]
  <2>1. /\ new \in Call /\ new.step = "probed" /\ new.saw = call[d].saw
        /\ new.indexed = call[d].indexed
    BY <1>1 DEF Call
  <2>2. /\ call' = [call EXCEPT ![d] = new] /\ UNCHANGED <<store, probes>>
        /\ call[d].step = "counted"
    BY <1>4 DEF UseKept
  <2>3. new.saw \cap fresh = {} /\ new.indexed \subseteq vectors
    BY <1>1, <2>1, <2>2 DEF CountedIsWritten, RepairOwes
  <2> HIDE DEF new
  <2> QED
    BY <2>1, <2>2, <2>3, CallStep
<1>5. CASE Heal(d)
  <2> DEFINE new == [call[d] EXCEPT !.step = "healing", !.todo = embeddings \ vectors]
  <2>1. /\ new \in Call /\ new.step = "healing" /\ new.saw = call[d].saw
        /\ new.indexed = call[d].indexed /\ new.todo = embeddings \ vectors
    BY <1>1 DEF Call, DoctorTypeOK
  <2>2. /\ call' = [call EXCEPT ![d] = new] /\ UNCHANGED <<store, probes>>
        /\ call[d].step = "probed"
    BY <1>5 DEF Heal
  <2>3. new.saw \cap fresh = {} /\ new.indexed \subseteq vectors
    BY <1>1, <2>1, <2>2 DEF CountedIsWritten, RepairOwes
  <2>4. new.saw \cap embeddings \subseteq vectors \cup missed \cup new.todo
    BY <2>1
  <2> HIDE DEF new
  <2> QED
    BY <2>1, <2>2, <2>3, <2>4, CallStep
<1>6. CASE Report(d)
  <2> DEFINE new == [call[d] EXCEPT !.step = "done"]
  <2>1. /\ new \in Call /\ new.step = "done" /\ new.saw = call[d].saw
        /\ new.indexed = call[d].indexed /\ new.heal = call[d].heal
    BY <1>1 DEF Call
  <2>2. /\ call' = [call EXCEPT ![d] = new] /\ UNCHANGED <<store, probes>>
        /\ \/ call[d].step = "probed" /\ ~(call[d].heal /\ Drifts(d))
           \/ call[d].step = "healing" /\ call[d].todo = {}
    BY <1>6 DEF Report
  <2>3. new.saw \cap fresh = {} /\ new.indexed \subseteq vectors
    BY <1>1, <2>1, <2>2 DEF CountedIsWritten, RepairOwes
  <2>4. ASSUME new.heal, new.indexed \ new.saw = {}
        PROVE  new.saw \cap embeddings \subseteq vectors \cup missed
    <3>1. CASE call[d].step = "probed" /\ ~Drifts(d)
      <4>1. new.indexed = new.saw
        BY <1>1, <2>1, <2>4, <3>1, NoDriftExplained DEF Drifts, Call
      <4> QED
        BY <2>3, <4>1
    <3>2. CASE call[d].step = "healing" /\ call[d].todo = {}
      BY <1>1, <2>1, <3>2 DEF RepairOwes
    <3> QED
      BY <2>1, <2>2, <2>4, <3>1, <3>2
  <2> HIDE DEF new
  <2> QED
    BY <2>1, <2>2, <2>3, <2>4, CallStep
<1> QED
  BY <1>2, <1>3, <1>4, <1>5, <1>6

\* A copy takes one row off what the repair owes: it is in the index then, or is missed.
LEMMA CopyStep ==
  ASSUME DoctorInv, NEW d \in Calls, NEW s \in Summary, NEW fails \in BOOLEAN, Copy(d, s, fails)
  PROVE  DoctorInv'
<1> DEFINE new == [call[d] EXCEPT !.todo = call[d].todo \ {s}]
<1>1. /\ new \in Call /\ new.step = call[d].step /\ new.saw = call[d].saw /\ new.heal = call[d].heal
      /\ new.indexed = call[d].indexed /\ new.todo = call[d].todo \ {s}
      /\ call[d].step = "healing"
  BY DEF Call, DoctorTypeOK, DoctorInv, Copy
<1>2. /\ call'[d] = new /\ \A o \in Calls \ {d} : call'[o] = call[o]
      /\ call' = [call EXCEPT ![d] = new]
      /\ UNCHANGED <<fresh, embeddings, mirroring, clock, cached, ended, tight, overlapped>>
  BY DEF Copy, probes, DoctorInv, DoctorTypeOK
<1>3. /\ vectors \cup missed \cup {s} = vectors' \cup missed'
      /\ vectors \subseteq vectors' /\ missed \subseteq missed'
      /\ vectors' \subseteq Summary /\ missed' \subseteq Summary
  <2>1. CASE fails
    BY <2>1 DEF Copy, DoctorInv, DoctorTypeOK
  <2>2. CASE ~fails
    BY <2>2 DEF Copy, DoctorInv, DoctorTypeOK
  <2> QED
    BY <2>1, <2>2
<1> HIDE DEF new
<1>4. DoctorTypeOK'
  BY <1>1, <1>2, <1>3 DEF DoctorInv, DoctorTypeOK
<1>5. CountedIsWritten'
  BY <1>1, <1>2 DEF DoctorInv, CountedIsWritten
<1>6. RepairOwes'
  <2> SUFFICES ASSUME NEW o \in Calls
               PROVE  /\ call'[o].step \notin {"idle", "counting"} =>
                         call'[o].indexed \subseteq vectors'
                      /\ call'[o].step = "healing" =>
                         call'[o].saw \cap embeddings'
                            \subseteq vectors' \cup missed' \cup call'[o].todo
    BY DEF RepairOwes
  <2>1. CASE o = d
    BY <1>1, <1>2, <1>3, <2>1 DEF DoctorInv, RepairOwes
  <2>2. CASE o # d
    BY <1>2, <1>3, <2>2 DEF DoctorInv, RepairOwes
  <2> QED
    BY <2>1, <2>2
<1>7. HealExplained'
  BY <1>1, <1>2, <1>3 DEF DoctorInv, HealExplained
<1>8. Probing' = Probing /\ \A o \in Probing : call'[o].began = call[o].began
  BY <1>1, <1>2 DEF Probing
<1>9. KeptIsLatest'
  BY <1>2, <1>8 DEF DoctorInv, KeptIsLatest
<1> QED
  BY <1>4, <1>5, <1>6, <1>7, <1>9 DEF DoctorInv

\* What a step of the probe leaves as it is.
LEMMA ProbeKeeps ==
  ASSUME DoctorInv, NEW d \in Calls, NEW new \in Call, call' = [call EXCEPT ![d] = new],
         UNCHANGED store, call[d].step \in {"counted", "probing"},
         new.step \in {"probing", "probed"}, new.saw = call[d].saw,
         new.indexed = call[d].indexed
  PROVE  /\ CountedIsWritten' /\ RepairOwes' /\ HealExplained'
         /\ call' \in [Calls -> Call] /\ call'[d] = new
         /\ \A o \in Calls \ {d} : call'[o] = call[o]
<1> USE DEF store
<1>1. /\ call'[d] = new /\ \A o \in Calls \ {d} : call'[o] = call[o]
      /\ call' \in [Calls -> Call]
  BY DEF DoctorInv, DoctorTypeOK
<1> QED
  BY <1>1 DEF DoctorInv, CountedIsWritten, RepairOwes, HealExplained

LEMMA ProbeStep ==
  ASSUME DoctorInv, NEW d \in Calls, Probe(d)
  PROVE  DoctorInv'
<1> DEFINE new == [call[d] EXCEPT !.step = "probing", !.began = clock]
<1>1. /\ new \in Call /\ new.step = "probing" /\ new.saw = call[d].saw
      /\ new.indexed = call[d].indexed /\ new.began = clock
  <2>1. call[d] \in Call /\ clock \in Int
    BY DEF DoctorInv, DoctorTypeOK
  <2> QED
    BY <2>1 DEF Call
<1>2. /\ call' = [call EXCEPT ![d] = new] /\ UNCHANGED <<store, clock, cached, ended>>
      /\ call[d].step = "counted"
  BY DEF Probe
<1> HIDE DEF new
<1>3. /\ CountedIsWritten' /\ RepairOwes' /\ HealExplained'
      /\ call' \in [Calls -> Call] /\ call'[d] = new
      /\ \A o \in Calls \ {d} : call'[o] = call[o]
  BY <1>1, <1>2, ProbeKeeps
<1>4. DoctorTypeOK'
  BY <1>2, <1>3 DEF DoctorInv, DoctorTypeOK, Probe, store
<1>5. Probing' = Probing \cup {d} /\ \A o \in Probing : call'[o] = call[o]
  BY <1>1, <1>2, <1>3 DEF Probing
<1>6. (\A t \in ended : t <= clock) /\ (\A o \in Probing : call[o].began <= clock)
      /\ clock \in Nat /\ cached \in Int /\ ended \in SUBSET Int
  BY DEF DoctorInv, DoctorTypeOK, KeptIsLatest
<1>7. ASSUME ~overlapped'
      PROVE  /\ \A t \in ended : t <= cached
             /\ \A o \in Probing' : \A t \in ended : t <= call'[o].began
             /\ \A o, x \in Probing' : o = x
             /\ ~tight'
  <2>1. Probing = {} /\ ~overlapped
    BY <1>7 DEF Probe
  <2>2. \A t \in ended : t <= cached
    BY <2>1 DEF DoctorInv, KeptIsLatest
  <2>3. call[d].heal \/ ~(clock - cached <= Window)
    BY DEF Probe, Kept
  <2>4. ~tight
    BY <2>1 DEF DoctorInv, KeptIsLatest
  <2>5. call[d].heal \/ \A t \in ended : ~(clock - t <= Window)
    BY <1>6, <2>2, <2>3, DoctorAssumption
  <2>6. ~tight'
    BY <2>4, <2>5 DEF Probe
  <2> QED
    BY <1>1, <1>3, <1>5, <1>6, <2>1, <2>2, <2>6
<1>8. KeptIsLatest'
  BY <1>1, <1>2, <1>3, <1>5, <1>6, <1>7 DEF KeptIsLatest
<1> QED
  BY <1>3, <1>4, <1>8 DEF DoctorInv

LEMMA ProbeEndStep ==
  ASSUME DoctorInv, NEW d \in Calls, ProbeEnds(d)
  PROVE  DoctorInv'
<1> DEFINE new == [call[d] EXCEPT !.step = "probed"]
<1>1. /\ new \in Call /\ new.step = "probed" /\ new.saw = call[d].saw
      /\ new.indexed = call[d].indexed /\ call[d].began \in Int
  BY DEF DoctorInv, DoctorTypeOK, Call
<1>2. /\ call' = [call EXCEPT ![d] = new] /\ UNCHANGED <<store, clock, tight, overlapped>>
      /\ cached' = call[d].began /\ ended' = ended \cup {call[d].began}
      /\ call[d].step = "probing"
  BY DEF ProbeEnds
<1> HIDE DEF new
<1>3. /\ CountedIsWritten' /\ RepairOwes' /\ HealExplained'
      /\ call' \in [Calls -> Call] /\ call'[d] = new
      /\ \A o \in Calls \ {d} : call'[o] = call[o]
  BY <1>1, <1>2, ProbeKeeps
<1>4. DoctorTypeOK'
  BY <1>1, <1>2, <1>3 DEF DoctorInv, DoctorTypeOK, store
<1>5. Probing' = Probing \ {d} /\ d \in Probing /\ \A o \in Probing' : call'[o] = call[o]
  BY <1>1, <1>2, <1>3 DEF Probing
<1>6. KeptIsLatest'
  BY <1>1, <1>2, <1>5 DEF DoctorInv, DoctorTypeOK, KeptIsLatest
<1> QED
  BY <1>3, <1>4, <1>6 DEF DoctorInv

LEMMA MinuteStep == DoctorInv /\ Minute => DoctorInv'
<1> SUFFICES ASSUME DoctorInv, Minute PROVE DoctorInv'
  OBVIOUS
<1>1. DoctorTypeOK' /\ CountedIsWritten' /\ RepairOwes' /\ HealExplained'
  BY DEF DoctorInv, DoctorTypeOK, CountedIsWritten, RepairOwes, HealExplained, Minute, store
<1>2. Probing' = Probing
  BY DEF Minute, Probing
<1>3. clock \in Nat /\ ended \in SUBSET Int /\ \A o \in Probing : call[o].began \in Int
  BY DEF DoctorInv, DoctorTypeOK, Call, Probing
<1>4. KeptIsLatest'
  BY <1>2, <1>3 DEF DoctorInv, KeptIsLatest, Minute
<1> QED
  BY <1>1, <1>4 DEF DoctorInv

LEMMA NextDoctorInv == DoctorInv /\ [DoctorNext]_health => DoctorInv'
<1> SUFFICES ASSUME DoctorInv, [DoctorNext]_health PROVE DoctorInv'
  OBVIOUS
<1>1. CASE UNCHANGED health
  BY <1>1 DEF health, DoctorInv, DoctorTypeOK, CountedIsWritten, RepairOwes, HealExplained,
              KeptIsLatest, Probing
<1>2. ASSUME NEW s \in Summary,
             PutRow(s) \/ Drop(s) \/ (\E fails \in BOOLEAN : PutVector(s, fails))
      PROVE  DoctorInv'
  BY <1>2, StoreActions
<1>3. ASSUME NEW d \in Calls,
             \/ \E heal \in BOOLEAN : CountEmbeddings(d, heal)
             \/ CountVectors(d) \/ UseKept(d) \/ Heal(d) \/ Report(d)
      PROVE  DoctorInv'
  BY <1>3, DoctorSteps
<1> QED
  BY <1>1, <1>2, <1>3, CopyStep, ProbeStep, ProbeEndStep, MinuteStep DEF DoctorNext

\* DoctorInv holds in every state of the doctor and its store.
THEOREM DoctorIsSound == DoctorSpec => []DoctorInv
<1>1. DoctorInit => DoctorInv
  BY InitDoctorInv
<1>2. DoctorInv /\ [DoctorNext]_health => DoctorInv'
  BY NextDoctorInv
<1> QED
  BY <1>1, <1>2, PTL DEF DoctorSpec

\* A repair that ends has every embedding it counted in the index, or a row of a dropped
\* embedding made up the number.
THEOREM HealsAreExplained == DoctorSpec => []HealExplained
<1>1. DoctorInv => HealExplained
  BY DEF DoctorInv
<1> QED
  BY <1>1, DoctorIsSound, PTL

\* Without two probes out at once, a doctor that repairs nothing probes no sooner than the
\* window after one that has ended.
THEOREM ProbesAreSpaced == DoctorSpec => []ProbesSpaced
<1>1. DoctorInv => ProbesSpaced
  BY DEF DoctorInv, KeptIsLatest, ProbesSpaced
<1> QED
  BY <1>1, DoctorIsSound, PTL

-------------------------------------------------------------------------------
(* The commands. CommandInv: a request is in one place, at the daemon or with *)
(* the command (DoneInOnePlace).                                              *)

\* A writing command but drain sends one request and works locally only when it is refused.
LEMMA OneRequest ==
  ASSUME NEW c \in Writing \ {"drain"}
  PROVE  /\ Work(c) = 1
         /\ \A res \in Results : FallsBack(c, res) => res = "refused"
  BY DEF Writing, Work, Requests, Results, FallsBack, WithFallback, CheckedCommands,
         ProbeCommands, ListCommands, StatusCommands, InfoCommands

LEMMA InitCommandInv == CommandInit => CommandInv
  BY DEF CommandInit, CommandInv, CommandTypeOK, DoneInOnePlace

\* The daemon's side: what it takes, runs, answers and loses.
LEMMA DaemonSide ==
  ASSUME CommandInv,
         \/ Request \/ GiveUpWaiting \/ CutOff \/ DaemonTurns
         \/ \E i \in inside : Handle(i)
         \/ \E res \in {"ok", "error"} : Reply(res)
  PROVE  CommandInv'
<1>1. CASE Request
  <2>1. CASE daemonUp
    BY <1>1, <2>1 DEF CommandInv, CommandTypeOK, DoneInOnePlace, Request, Results
  <2>2. CASE ~daemonUp
    BY <1>1, <2>2 DEF CommandInv, CommandTypeOK, DoneInOnePlace, Request, Results
  <2> QED
    BY <2>1, <2>2
<1>2. CASE GiveUpWaiting
  BY <1>2 DEF CommandInv, CommandTypeOK, DoneInOnePlace, GiveUpWaiting, Results
<1>3. CASE CutOff
  BY <1>3 DEF CommandInv, CommandTypeOK, DoneInOnePlace, CutOff, Results
<1>4. CASE DaemonTurns
  BY <1>4 DEF CommandInv, CommandTypeOK, DoneInOnePlace, DaemonTurns, Results
<1>5. ASSUME NEW i \in inside, Handle(i)
      PROVE  CommandInv'
  BY <1>5 DEF CommandInv, CommandTypeOK, DoneInOnePlace, Handle, Results
<1>6. ASSUME NEW res \in {"ok", "error"}, Reply(res)
      PROVE  CommandInv'
  <2>1. CASE res = "ok"
    BY <1>6, <2>1 DEF CommandInv, CommandTypeOK, DoneInOnePlace, Reply, Results
  <2>2. CASE res = "error"
    BY <1>6, <2>2 DEF CommandInv, CommandTypeOK, DoneInOnePlace, Reply, Results
  <2> QED
    BY <2>1, <2>2
<1> QED
  BY <1>1, <1>2, <1>3, <1>4, <1>5, <1>6

\* What the command makes of a result.
LEMMA CommandSide ==
  ASSUME CommandInv,
         FallBack \/ Proceed \/ PrintError \/ Fail \/ (\E fails \in BOOLEAN : WorkLocally(fails))
  PROVE  CommandInv'
<1>1. CASE FallBack
  <2>1. command \in Writing \ {"drain"} => stage = "refused"
    BY <1>1, OneRequest DEF FallBack
  <2> QED
    BY <1>1, <2>1 DEF CommandInv, CommandTypeOK, DoneInOnePlace, FallBack, Results
<1>2. CASE Proceed
  <2>1. command \in Writing \ {"drain"} => ~(nth < Work(command))
    BY OneRequest DEF CommandInv, DoneInOnePlace
  <2>2. CASE nth < Work(command) /\ (command = "watch" => stage = "ok")
    BY <1>2, <2>1, <2>2 DEF CommandInv, CommandTypeOK, DoneInOnePlace, Proceed, Results
  <2>3. CASE ~(nth < Work(command) /\ (command = "watch" => stage = "ok"))
    <3>1. nth' = nth /\ stage' = "printed" /\ stage \in Results
          /\ UNCHANGED <<command, daemonUp, turns, inside, done, localRuns>>
      BY <1>2, <2>3 DEF Proceed, Results
    <3> QED
      BY <3>1 DEF CommandInv, CommandTypeOK, DoneInOnePlace, Results
  <2> QED
    BY <2>2, <2>3
<1>3. CASE PrintError
  <2>1. stage' \in {"failed", "printed"}
    BY <1>3 DEF PrintError
  <2> QED
    BY <1>3, <2>1 DEF CommandInv, CommandTypeOK, DoneInOnePlace, PrintError, Results
<1>4. CASE Fail
  BY <1>4 DEF CommandInv, CommandTypeOK, DoneInOnePlace, Fail, Results
<1>5. ASSUME NEW fails \in BOOLEAN, WorkLocally(fails)
      PROVE  CommandInv'
  <2>1. stage' \in {"failed", "printed"}
    BY <1>5 DEF WorkLocally
  <2> QED
    BY <1>5, <2>1 DEF CommandInv, CommandTypeOK, DoneInOnePlace, WorkLocally, Results
<1> QED
  BY <1>1, <1>2, <1>3, <1>4, <1>5

LEMMA NextCommandInv == CommandInv /\ [CommandNext]_commands => CommandInv'
<1> SUFFICES ASSUME CommandInv, [CommandNext]_commands PROVE CommandInv'
  OBVIOUS
<1>1. CASE UNCHANGED commands
  BY <1>1 DEF commands, CommandInv, CommandTypeOK, DoneInOnePlace
<1> QED
  BY <1>1, DaemonSide, CommandSide DEF CommandNext

LEMMA CommandInvStates == CommandInv => AtMostOneExecutor
<1> SUFFICES ASSUME CommandInv, command \in Writing \ {"drain"}
             PROVE  Cardinality(done) + localRuns <= 1
  BY DEF AtMostOneExecutor
<1>1. localRuns \in Nat /\ done \subseteq {1}
      /\ (localRuns # 0 => localRuns = 1 /\ done = {})
  BY DEF CommandInv, CommandTypeOK, DoneInOnePlace
<1>2. Cardinality({}) = 0 /\ Cardinality({1}) = 1
  BY FS_EmptySet, FS_Singleton
<1>3. Cardinality(done) \in {0, 1} /\ (done = {} => Cardinality(done) = 0)
  <2>1. done = {} \/ done = {1}
    BY <1>1
  <2> QED
    BY <1>2, <2>1
<1> QED
  BY <1>1, <1>3

\* The daemon and the command never both do the work of a command that is not safe to do twice.
THEOREM CommandsWorkOnce == CommandSpec => []AtMostOneExecutor
<1>1. CommandInit => CommandInv
  BY InitCommandInv
<1>2. CommandInv /\ [CommandNext]_commands => CommandInv'
  BY NextCommandInv
<1>3. CommandInv => AtMostOneExecutor
  BY CommandInvStates
<1> QED
  BY <1>1, <1>2, <1>3, PTL DEF CommandSpec

-------------------------------------------------------------------------------
(* The web bridge, for any number of workspaces. WebInv: one token is made    *)
(* (OneTokenMade), a port file tells the truth while its bridge lives         *)
(* (PortFileTrue), and a caller follows what it read (CallerFollows).         *)

\* Whatever is asked, with the right token or without, the answer is one of these.
LEMMA AnswerCodes ==
  ASSUME NEW known \in BOOLEAN PROVE Answers[known] \subseteq Codes
<1>1. \A ask \in Question : Status(ask, known) \in Codes
  BY DEF Status, ApiStatus, Codes, Silence
<1> QED
  BY <1>1 DEF Answers

LEMMA InitWebInv == WebInit => WebInv
<1> SUFFICES ASSUME WebInit PROVE WebInv
  OBVIOUS
<1>1. (CHOOSE w \in Workspace : TRUE) \in Workspace
  BY WorkspaceAssumption
<1>2. caller \in Caller /\ caller.step = "idle" /\ caller.status = Silence
  BY <1>1, PortAssumption
  DEF WebInit, Caller, Codes, Silence, NoPort, NoFile, Free
<1>3. WebTypeOK
  <2>1. /\ candidate \in [Workspace -> 0 .. Ports - 1] /\ retries \in [Workspace -> Nat]
        /\ held \in [Workspace -> Nat] /\ portFile \in [Workspace -> 0 .. Ports]
    BY PortAssumption DEF WebInit, NoFile, NoPort
  <2>2. owner \in [0 .. Ports - 1 -> Workspace \cup {Free, Stranger}]
    <3> HIDE DEF Free, Stranger
    <3> QED
      BY DEF WebInit
  <2> QED
    BY <1>2, <2>1, <2>2 DEF WebInit, WebTypeOK, NoFile, Empty
<1>4. OneTokenMade
  BY DEF WebInit, OneTokenMade, NoFile, Empty
<1>5. PortFileTrue
  BY WorkspaceAssumption DEF WebInit, PortFileTrue, NoPort
<1> QED
  BY <1>2, <1>3, <1>4, <1>5 DEF WebInv, CallerFollows

\* A boot that takes a step before it listens touches no port and no caller.
LEMMA BootKeepsPorts ==
  ASSUME WebTypeOK, PortFileTrue, CallerFollows, NEW w \in Workspace,
         bridge[w] \notin {"up", "closing"},
         \A x \in Workspace \ {w} : bridge'[x] = bridge[x],
         UNCHANGED <<owner, portFile, caller, crashed, stopped>>
  PROVE  PortFileTrue' /\ CallerFollows'
<1>1. PortFileTrue'
  BY DEF WebTypeOK, PortFileTrue
<1>2. CallerFollows'
  BY DEF CallerFollows, NoPort
<1> QED
  BY <1>1, <1>2

LEMMA TokenBoot ==
  ASSUME WebInv, NEW w \in Workspace,
         LookForToken(w) \/ ReadToken(w) \/ OpenToken(w) \/ WriteToken(w)
  PROVE  WebInv'
<1> USE DEF At, histories
<1>0. WebTypeOK /\ OneTokenMade /\ PortFileTrue /\ CallerFollows
  BY DEF WebInv
<1>1. CASE LookForToken(w)
  <2>1. bridge[w] = "down" /\ bridge'[w] \in {"open", "read"}
        /\ (bridge'[w] = "read" => file # NoFile)
        /\ \A x \in Workspace \ {w} : bridge'[x] = bridge[x]
    BY <1>0, <1>1 DEF WebTypeOK, LookForToken
  <2>2. WebTypeOK'
    BY <1>0, <1>1, <2>1 DEF WebTypeOK, LookForToken
  <2>3. OneTokenMade'
    BY <1>0, <1>1, <2>1 DEF WebTypeOK, OneTokenMade, LookForToken
  <2> QED
    BY <1>0, <1>1, <2>1, <2>2, <2>3, BootKeepsPorts DEF LookForToken, WebInv
<1>2. CASE ReadToken(w)
  <2>1. /\ bridge[w] = "read" /\ bridge'[w] = "bind" /\ held'[w] = file
        /\ \A x \in Workspace \ {w} : bridge'[x] = bridge[x] /\ held'[x] = held[x]
        /\ uncertain' \/ (~uncertain /\ file # Empty)
    BY <1>0, <1>2 DEF WebTypeOK, ReadToken
  <2>2. WebTypeOK'
    BY <1>0, <1>2 DEF WebTypeOK, ReadToken
  <2>3. OneTokenMade'
    BY <1>0, <1>2, <2>1 DEF WebTypeOK, OneTokenMade, ReadToken, NoFile, Empty
  <2> QED
    BY <1>0, <1>2, <2>1, <2>2, <2>3, BootKeepsPorts DEF ReadToken, WebInv
<1>3. CASE OpenToken(w)
  <2>1. /\ bridge[w] = "open" /\ bridge'[w] = "write" /\ file' = Empty
        /\ \A x \in Workspace \ {w} : bridge'[x] = bridge[x]
        /\ uncertain' \/ (~uncertain /\ file = NoFile)
    BY <1>0, <1>3 DEF WebTypeOK, OpenToken
  <2>2. WebTypeOK'
    BY <1>0, <1>3 DEF WebTypeOK, OpenToken, Empty
  <2>3. OneTokenMade'
    BY <1>0, <1>3, <2>1 DEF WebTypeOK, OneTokenMade, OpenToken, NoFile, Empty
  <2> QED
    BY <1>0, <1>3, <2>1, <2>2, <2>3, BootKeepsPorts DEF OpenToken, WebInv
<1>4. CASE WriteToken(w)
  <2>1. bridge[w] = "write" /\ bridge'[w] = "bind" /\ held'[w] = file' /\ file' = tokens + 1
        /\ \A x \in Workspace \ {w} : bridge'[x] = bridge[x] /\ held'[x] = held[x]
    BY <1>0, <1>4 DEF WebTypeOK, WriteToken
  <2>2. WebTypeOK'
    BY <1>0, <1>4 DEF WebTypeOK, WriteToken
  <2>3. OneTokenMade'
    BY <1>0, <1>4, <2>1 DEF WebTypeOK, OneTokenMade, WriteToken, NoFile, Empty
  <2> QED
    BY <1>0, <1>4, <2>1, <2>2, <2>3, BootKeepsPorts DEF WriteToken, WebInv
<1> QED
  BY <1>1, <1>2, <1>3, <1>4

\* A bridge past its token keeps it while it looks for a port and listens or goes deaf.
LEMMA BoundKeepsToken ==
  ASSUME WebTypeOK, OneTokenMade, NEW w \in Workspace, bridge[w] \in {"bind", "any"},
         bridge'[w] \in {"bind", "any", "deaf", "up"},
         \A x \in Workspace \ {w} : bridge'[x] = bridge[x],
         UNCHANGED <<file, tokens, held, rotating, uncertain>>
  PROVE  OneTokenMade'
  BY DEF WebTypeOK, OneTokenMade

LEMMA ListenStep ==
  ASSUME WebInv, NEW w \in Workspace, bridge[w] \in {"bind", "any"},
         NEW p \in 0 .. Ports - 1, owner[p] = Free, Listen(w, p),
         UNCHANGED <<file, tokens, held, candidate, retries, boots, rotating, caller, histories>>
  PROVE  WebInv'
<1> USE DEF At, histories
<1>0. WebTypeOK /\ OneTokenMade /\ PortFileTrue /\ CallerFollows /\ Free \notin Workspace
  BY WorkspaceAssumption DEF WebInv
<1>1. /\ bridge'[w] = "up" /\ \A x \in Workspace \ {w} : bridge'[x] = bridge[x]
      /\ owner'[p] = w /\ \A q \in (0 .. Ports - 1) \ {p} : owner'[q] = owner[q]
      /\ portFile'[w] = p /\ \A x \in Workspace \ {w} : portFile'[x] = portFile[x]
  BY <1>0 DEF WebTypeOK, Listen
<1>2. WebTypeOK'
  BY <1>0, PortAssumption DEF WebTypeOK, Listen
<1>3. OneTokenMade'
  BY <1>0, <1>1, BoundKeepsToken
<1>4. PortFileTrue'
  <2>1. ASSUME NEW q \in 0 .. Ports - 1, owner'[q] \in Workspace
        PROVE  bridge'[owner'[q]] = "up"
    BY <1>0, <1>1, <2>1 DEF PortFileTrue
  <2>2. ASSUME NEW x \in Workspace \ crashed, portFile'[x] # NoPort
        PROVE  bridge'[x] = "closing" \/ (bridge'[x] = "up" /\ owner'[portFile'[x]] = x)
    <3>1. CASE x = w
      BY <1>1, <3>1
    <3>2. CASE x # w
      <4>1. /\ portFile[x] \in 0 .. Ports - 1
            /\ bridge[x] = "closing" \/ (bridge[x] = "up" /\ owner[portFile[x]] = x)
        BY <1>0, <1>1, <2>2, <3>2, PortAssumption DEF PortFileTrue, WebTypeOK, NoPort
      <4> QED
        BY <1>0, <1>1, <3>2, <4>1
    <3> QED
      BY <3>1, <3>2
  <2> QED
    BY <2>1, <2>2, <1>2 DEF PortFileTrue
<1>5. CallerFollows'
  <2>1. ASSUME caller.step = "looked", owner[caller.port] = caller.of
        PROVE  owner'[caller.port] = caller.of
    BY <1>0, <1>1, <2>1, PortAssumption DEF CallerFollows, WebTypeOK, Caller, NoPort
  <2> QED
    BY <1>0, <2>1 DEF CallerFollows
<1> QED
  BY <1>2, <1>3, <1>4, <1>5 DEF WebInv

LEMMA BindSteps ==
  ASSUME WebInv, NEW w \in Workspace,
         BindFree(w) \/ BindTaken(w) \/ BindAny(w) \/ BindFails(w)
  PROVE  WebInv'
<1>0. WebTypeOK /\ OneTokenMade /\ PortFileTrue /\ CallerFollows
  BY DEF WebInv
<1>1. CASE BindFree(w)
  BY <1>0, <1>1, ListenStep DEF BindFree, WebTypeOK
<1>2. CASE BindAny(w)
  BY <1>2, ListenStep DEF BindAny
<1>3. CASE BindTaken(w)
  <2>1. bridge[w] = "bind" /\ bridge'[w] \in {"bind", "any"}
        /\ \A x \in Workspace \ {w} : bridge'[x] = bridge[x]
    BY <1>0, <1>3 DEF BindTaken, WebTypeOK, At
  <2>2. WebTypeOK'
    <3>1. CASE w \in pinnedPort \/ retries[w] >= MaxRetries
      BY <1>0, <1>3, <3>1 DEF BindTaken, WebTypeOK, At, histories
    <3>2. CASE ~(w \in pinnedPort \/ retries[w] >= MaxRetries)
      <4>1. next(candidate[w]) \in 0 .. Ports - 1
        BY <1>0, PortAssumption DEF next, WebTypeOK
      <4>2. /\ candidate' = [candidate EXCEPT ![w] = next(candidate[w])]
            /\ retries' = [retries EXCEPT ![w] = retries[w] + 1]
            /\ UNCHANGED <<file, tokens, bridge, held, owner, portFile, boots, rotating, caller,
                           crashed, uncertain, stopped>>
        BY <1>3, <3>2 DEF BindTaken, histories
      <4>3. candidate' \in [Workspace -> 0 .. Ports - 1] /\ retries' \in [Workspace -> Nat]
        BY <1>0, <4>1, <4>2 DEF WebTypeOK
      <4> QED
        BY <1>0, <4>2, <4>3 DEF WebTypeOK
    <3> QED
      BY <3>1, <3>2
  <2>3. UNCHANGED <<file, tokens, held, owner, portFile, rotating, caller, histories>>
    BY <1>3 DEF BindTaken
  <2> QED
    BY <1>0, <2>1, <2>2, <2>3, BootKeepsPorts, BoundKeepsToken DEF WebInv, histories
<1>4. CASE BindFails(w)
  <2>1. bridge[w] \in {"bind", "any"} /\ bridge'[w] = "deaf"
        /\ \A x \in Workspace \ {w} : bridge'[x] = bridge[x]
    BY <1>0, <1>4 DEF BindFails, WebTypeOK, At
  <2>2. WebTypeOK'
    BY <1>0, <1>4 DEF BindFails, WebTypeOK, At, histories
  <2> QED
    BY <1>0, <1>4, <2>1, <2>2, BootKeepsPorts, BoundKeepsToken DEF WebInv, histories, BindFails
<1> QED
  BY <1>1, <1>2, <1>3, <1>4

\* The end of a daemon, or the closing of its bridge: it listens nowhere, and a caller that had
\* looked up its port is known to be misled.
LEMMA StopKeeps ==
  ASSUME WebTypeOK, PortFileTrue, CallerFollows, NEW w \in Workspace, WebTypeOK',
         \A x \in Workspace \ {w} : bridge'[x] = bridge[x] /\ portFile'[x] = portFile[x],
         owner' = Released(w), UNCHANGED caller,
         crashed \subseteq crashed', stopped => stopped',
         \/ w \in crashed' \/ portFile'[w] = NoPort \/ bridge'[w] = "closing",
         \/ w \in crashed' \/ bridge[w] = "closing"
         \/ (caller.step = "looked" /\ caller.of = w => stopped')
  PROVE  PortFileTrue' /\ CallerFollows'
<1>1. \A p \in 0 .. Ports - 1 : owner'[p] = (IF owner[p] = w THEN Free ELSE owner[p])
  BY DEF WebTypeOK, Released
<1>2. PortFileTrue'
  <2>1. ASSUME NEW p \in 0 .. Ports - 1, owner'[p] \in Workspace
        PROVE  bridge'[owner'[p]] = "up"
    <3>1. owner[p] # w /\ owner'[p] = owner[p]
      BY <1>1, <2>1, WorkspaceAssumption
    <3> QED
      BY <2>1, <3>1 DEF PortFileTrue
  <2>2. ASSUME NEW x \in Workspace \ crashed', portFile'[x] # NoPort
        PROVE  bridge'[x] = "closing" \/ (bridge'[x] = "up" /\ owner'[portFile'[x]] = x)
    <3>1. CASE x = w
      BY <2>2, <3>1
    <3>2. CASE x # w
      <4>1. portFile'[x] = portFile[x] /\ bridge'[x] = bridge[x] /\ x \notin crashed
        BY <3>2
      <4>2. portFile[x] \in 0 .. Ports
        BY DEF WebTypeOK
      <4>3. /\ portFile[x] \in 0 .. Ports - 1
            /\ bridge[x] = "closing" \/ (bridge[x] = "up" /\ owner[portFile[x]] = x)
        BY <2>2, <4>1, <4>2, PortAssumption DEF PortFileTrue, NoPort
      <4>4. CASE bridge[x] = "up" /\ owner[portFile[x]] = x
        BY <1>1, <3>2, <4>1, <4>3, <4>4
      <4> QED
        BY <4>1, <4>3, <4>4
    <3> QED
      BY <3>1, <3>2
  <2> QED
    BY <2>1, <2>2 DEF PortFileTrue
<1>3. CallerFollows'
  <2>1. ASSUME caller.step = "looked", owner[caller.port] = caller.of
        PROVE  owner'[caller.port] = caller.of \/ caller.of \in crashed' \/ stopped'
    <3>1. caller.port \in 0 .. Ports - 1 /\ caller.of \in Workspace
      BY <2>1, PortAssumption DEF CallerFollows, WebTypeOK, Caller, NoPort
    <3>2. CASE caller.of = w
      <4>1. bridge[w] # "closing"
        BY <2>1, <3>1, <3>2 DEF PortFileTrue
      <4> QED
        BY <2>1, <3>2, <4>1
    <3>3. CASE caller.of # w
      BY <1>1, <2>1, <3>1, <3>3
    <3> QED
      BY <3>2, <3>3
  <2> QED
    BY <2>1 DEF CallerFollows
<1> QED
  BY <1>2, <1>3

LEMMA EndSteps ==
  ASSUME WebInv, NEW w \in Workspace, StopCloses(w) \/ StopRemoves(w) \/ CrashDaemon(w)
  PROVE  WebInv'
<1>0. WebTypeOK /\ OneTokenMade /\ PortFileTrue /\ CallerFollows
  BY DEF WebInv
<1>1. /\ owner' = Released(w) /\ owner' \in [0 .. Ports - 1 -> Workspace \cup {Free, Stranger}]
      /\ UNCHANGED <<file, tokens, held, boots, rotating, caller>>
      /\ bridge' \in [Workspace -> {"down", "open", "read", "write", "bind", "any", "deaf", "up",
                                   "closing"}]
      /\ bridge'[w] \in {"down", "closing"}
      /\ \A x \in Workspace \ {w} : bridge'[x] = bridge[x]
  <2>1. /\ owner' = Released(w) /\ UNCHANGED <<file, tokens, held, boots, rotating, caller>>
        /\ At(w, "down") \/ At(w, "closing")
    BY DEF StopCloses, StopRemoves, CrashDaemon, Ends
  <2>2. Released(w) \in [0 .. Ports - 1 -> Workspace \cup {Free, Stranger}]
    BY <1>0 DEF Released, WebTypeOK
  <2>3. CASE At(w, "down")
    BY <1>0, <2>1, <2>2, <2>3 DEF At, WebTypeOK
  <2>4. CASE At(w, "closing")
    BY <1>0, <2>1, <2>2, <2>4 DEF At, WebTypeOK
  <2> QED
    BY <2>1, <2>3, <2>4
<1>2. OneTokenMade' /\ uncertain' \in BOOLEAN
  <2>1. (uncertain => uncertain') /\ (bridge[w] = "write" => uncertain') /\ uncertain' \in BOOLEAN
    BY <1>0 DEF StopCloses, StopRemoves, CrashDaemon, histories, WebTypeOK
  <2> QED
    BY <1>0, <1>1, <2>1 DEF WebTypeOK, OneTokenMade
<1>3. candidate' \in [Workspace -> 0 .. Ports - 1] /\ retries' \in [Workspace -> Nat]
  <2>1. candidate \in [Workspace -> 0 .. Ports - 1] /\ retries \in [Workspace -> Nat]
    BY <1>0 DEF WebTypeOK
  <2>2. CASE StopCloses(w)
    BY <2>1, <2>2 DEF StopCloses
  <2>3. CASE Ends(w)
    BY <2>1, <2>3, PortAssumption DEF Ends
  <2> QED
    BY <2>2, <2>3 DEF StopRemoves, CrashDaemon
<1>4. CASE StopCloses(w)
  <2>1. WebTypeOK'
    BY <1>0, <1>1, <1>2, <1>3, <1>4 DEF StopCloses, WebTypeOK
  <2>2. bridge'[w] = "closing"
    BY <1>0, <1>4 DEF StopCloses, At, WebTypeOK
  <2> QED
    BY <1>0, <1>1, <1>2, <1>4, <2>1, <2>2, StopKeeps DEF StopCloses, WebInv
<1>5. CASE StopRemoves(w)
  <2>1. /\ portFile' \in [Workspace -> 0 .. Ports] /\ portFile'[w] = NoPort
        /\ \A x \in Workspace \ {w} : portFile'[x] = portFile[x]
    BY <1>0, <1>5, PortAssumption DEF StopRemoves, WebTypeOK, NoPort
  <2>2. WebTypeOK'
    BY <1>0, <1>1, <1>2, <1>3, <1>5, <2>1 DEF StopRemoves, WebTypeOK, histories
  <2> QED
    BY <1>0, <1>1, <1>2, <1>5, <2>1, <2>2, StopKeeps DEF StopRemoves, WebInv, histories
<1>6. CASE CrashDaemon(w)
  <2>1. WebTypeOK'
    BY <1>0, <1>1, <1>2, <1>3, <1>6 DEF CrashDaemon, WebTypeOK
  <2> QED
    BY <1>0, <1>1, <1>2, <1>6, <2>1, StopKeeps DEF CrashDaemon, WebInv
<1> QED
  BY <1>4, <1>5, <1>6

LEMMA RotateSteps ==
  ASSUME WebInv, RotateOpens \/ RotateWrites
  PROVE  WebInv'
<1>1. CASE RotateOpens
  BY <1>1 DEF RotateOpens, WebInv, WebTypeOK, OneTokenMade, PortFileTrue, CallerFollows, Empty
<1>2. CASE RotateWrites
  <2>1. /\ rotating /\ rotating' = FALSE /\ tokens' = tokens + 1 /\ file' = tokens + 1
        /\ UNCHANGED <<bridge, held, candidate, retries, owner, portFile, boots, caller, crashed,
                       uncertain, stopped>>
    BY <1>2 DEF RotateWrites, histories
  <2>2. uncertain /\ uncertain'
    BY <2>1 DEF WebInv, WebTypeOK, OneTokenMade
  <2>3. WebTypeOK'
    <3>1. tokens \in Nat
      BY DEF WebInv, WebTypeOK
    <3>2. tokens' \in Nat /\ file' \in Nat
      BY <2>1, <3>1
    <3>3. rotating' \in BOOLEAN
      BY <2>1
    <3> QED
      BY <2>1, <3>2, <3>3 DEF WebInv, WebTypeOK
  <2>4. OneTokenMade'
    BY <2>1, <2>2 DEF WebInv, WebTypeOK, OneTokenMade, Empty
  <2> QED
    BY <2>1, <2>3, <2>4 DEF WebInv, PortFileTrue, CallerFollows
<1> QED
  BY <1>1, <1>2

\* A step of the caller, the bridges standing still.
LEMMA CallerStep ==
  ASSUME WebInv, caller' \in Caller, CallerFollows', stopped' \in BOOLEAN,
         UNCHANGED <<file, tokens, bridge, held, candidate, retries, owner, portFile, boots,
                     rotating, crashed, uncertain>>
  PROVE  WebInv'
  BY DEF WebInv, WebTypeOK, OneTokenMade, PortFileTrue

LEMMA CallerSteps ==
  ASSUME WebInv, LookUp \/ SendQuestion
  PROVE  WebInv'
<1>0. WebTypeOK /\ PortFileTrue /\ CallerFollows /\ caller \in Caller
  BY DEF WebInv, WebTypeOK
<1>1. CASE LookUp
  <2>1. /\ caller' \in Caller
        /\ caller'.of = caller.of /\ caller'.step = "looked" /\ caller'.status = caller.status
        /\ caller'.port = portFile[caller.of] /\ caller'.port # NoPort
        /\ caller.step = "idle"
    BY <1>0, <1>1 DEF LookUp, WebTypeOK, Caller
  <2>2. caller.of \in crashed \/ stopped' \/ owner[portFile[caller.of]] = caller.of
    BY <1>0, <1>1 DEF LookUp, PortFileTrue, Caller
  <2>3. CallerFollows'
    BY <1>0, <1>1, <2>1, <2>2 DEF LookUp, CallerFollows
  <2>4. stopped' \in BOOLEAN
    BY <1>1 DEF LookUp
  <2> QED
    BY <1>1, <2>1, <2>3, <2>4, CallerStep DEF LookUp
<1>2. CASE SendQuestion
  <2> DEFINE to == owner[caller.port]
  <2>1. PICK status \in IF to \in Workspace THEN Answers[Authorized(to, caller.token)]
                                            ELSE {Silence} :
               caller' = [caller EXCEPT !.step = "done", !.from = to, !.status = status]
    BY <1>2 DEF SendQuestion
  <2>2. status \in Codes
    <3>1. Authorized(to, caller.token) \in BOOLEAN
      BY DEF Authorized
    <3> QED
      BY <2>1, <3>1, AnswerCodes DEF Codes
  <2>3. caller.step = "looked" /\ caller.port \in 0 .. Ports - 1
    <3>1. caller.step = "looked"
      BY <1>2 DEF SendQuestion
    <3>2. caller.port \in 0 .. Ports /\ caller.port # Ports
      BY <1>0, <3>1 DEF CallerFollows, Caller, NoPort
    <3> QED
      BY <3>1, <3>2, PortAssumption
  <2>4. to \in Workspace \cup {Free, Stranger}
    BY <1>0, <2>3 DEF WebTypeOK
  <2>5. /\ caller' \in Caller
        /\ caller'.of = caller.of /\ caller'.step = "done" /\ caller'.from = to
    BY <1>0, <2>1, <2>2, <2>4 DEF Caller
  <2>6. to = caller.of \/ caller.of \in crashed \/ stopped
    BY <1>0, <2>3 DEF CallerFollows
  <2>7. CallerFollows'
    BY <1>2, <2>5, <2>6 DEF SendQuestion, CallerFollows, histories
  <2> QED
    BY <1>0, <1>2, <2>5, <2>7, CallerStep DEF SendQuestion, histories, WebTypeOK
<1> QED
  BY <1>1, <1>2

LEMMA NextWebInv == WebInv /\ [WebNext]_<<web, histories>> => WebInv'
<1> SUFFICES ASSUME WebInv, [WebNext]_<<web, histories>> PROVE WebInv'
  OBVIOUS
<1>1. CASE UNCHANGED <<web, histories>>
  BY <1>1 DEF web, histories, WebInv, WebTypeOK, OneTokenMade, PortFileTrue, CallerFollows
<1> QED
  BY <1>1, TokenBoot, BindSteps, EndSteps, RotateSteps, CallerSteps DEF WebNext

\* WebInv holds in every state of the bridges, the token file and the caller.
THEOREM BridgesAreSound == WebSpec => []WebInv
<1>1. WebInit => WebInv
  BY InitWebInv
<1>2. WebInv /\ [WebNext]_<<web, histories>> => WebInv'
  BY NextWebInv
<1> QED
  BY <1>1, <1>2, PTL DEF WebSpec

\* A bridge that listens compares with the token of the file until something made it uncertain.
THEOREM TokensAgree == WebSpec => []TokenAgrees
<1>1. WebInv => TokenAgrees
  BY DEF WebInv, OneTokenMade, TokenAgrees
<1> QED
  BY <1>1, BridgesAreSound, PTL

\* Only a crash of the caller's own daemon, or a stop of it as the caller looked or after, leads
\* the caller elsewhere.
THEOREM CallersReachTheirOwn == WebSpec => []AnswersOwnWorkspace
<1>1. WebInv => AnswersOwnWorkspace
  BY DEF WebInv, CallerFollows, AnswersOwnWorkspace, Silence
<1> QED
  BY <1>1, BridgesAreSound, PTL

-------------------------------------------------------------------------------
(* The page, for any number of requests in any order of answers. PageInv: a   *)
(* loader shows what no later answer can overtake (NoneOlder, ShowsLast).     *)

\* What the proofs need of a loader: what waits is written by an answer of either kind and is not
\* cleared, and a box that tells or hides a failure is one that asking overwrites.
LEMMA Loaders ==
  ASSUME NEW t \in Tab
  PROVE  /\ loader[t].waits \subseteq loader[t].rows \cap loader[t].empty
         /\ loader[t].empty \subseteq loader[t].rows
         /\ loader[t].waits \cap loader[t].clears = {}
         /\ loader[t].rows \cap ({loader[t].tells} \cup loader[t].wipes)
              \subseteq loader[t].waits \cup loader[t].clears
<1> USE DEF Loader, Table, Form, Body, SummaryAndBody
<1>0. t \in {"overview", "events", "summaries", "search", "why", "ab", "health", "pinned",
             "sessions", "symbol", "hubs", "graph", "path", "patterns", "federation"}
  BY DEF Tab, loader
<1>1. CASE t = "overview"
  BY <1>1 DEF loader, OverviewTab, OverviewBoxes
<1>2. CASE t = "events"
  BY <1>2 DEF loader, EventsTab
<1>3. CASE t = "summaries"
  BY <1>3 DEF loader, SummariesTab
<1>4. CASE t = "search"
  BY <1>4 DEF loader, SearchForm
<1>5. CASE t = "why"
  BY <1>5 DEF loader, WhyForm
<1>6. CASE t = "ab"
  BY <1>6 DEF loader, AbForm
<1>7. CASE t = "health"
  BY <1>7 DEF loader, HealthTab, HealthBoxes
<1>8. CASE t = "pinned"
  BY <1>8 DEF loader, PinnedTab
<1>9. CASE t = "sessions"
  BY <1>9 DEF loader, SessionsTab
<1>10. CASE t = "symbol"
  BY <1>10 DEF loader, SymbolForm
<1>11. CASE t = "hubs"
  BY <1>11 DEF loader, HubsTable
<1>12. CASE t = "graph"
  BY <1>12 DEF loader, GraphForm
<1>13. CASE t = "path"
  BY <1>13 DEF loader, PathForm
<1>14. CASE t = "patterns"
  BY <1>14 DEF loader, PatternsTab
<1>15. CASE t = "federation"
  BY <1>15 DEF loader, FederationForm
<1> QED
  BY <1>0, <1>1, <1>2, <1>3, <1>4, <1>5, <1>6, <1>7, <1>8, <1>9, <1>10, <1>11, <1>12, <1>13, <1>14, <1>15

LEMMA SessionsLoader ==
  /\ loader["sessions"].waits = {"body"} /\ loader["sessions"].clears = {"replay"}
  /\ loader["sessions"].rows = {"body"} /\ loader["sessions"].empty = {"body"}
  /\ loader["sessions"].tells = "body" /\ loader["sessions"].wipes = {}
  /\ loader["sessions"].refuses = {}
  BY DEF loader, SessionsTab, Loader, Body

\* What a box holds is a request, or one of the three words, which are none.
LEMMA Words ==
  /\ Blank \in 0 .. MaxAsks + 2 /\ Waiting \in 0 .. MaxAsks + 2 /\ Error \in 0 .. MaxAsks + 2
  /\ Waiting \notin {Blank, Error}
  /\ asked \in 0 .. MaxAsks => \A r \in 1 .. asked : r \in 0 .. MaxAsks + 2 /\ r # Waiting
  BY AsksAssumption DEF Blank, Waiting, Error

LEMMA InitPageInv == PageInit => PageInv
<1> SUFFICES ASSUME PageInit PROVE PageInv
  OBVIOUS
<1>1. PageTypeOK
  <2>1. box \in [Boxes(tab) -> 0 .. MaxAsks + 2]
    BY Words DEF PageInit
  <2> QED
    <3>1. asked \in 0 .. MaxAsks
      BY AsksAssumption DEF PageInit
    <3>2. crossed \in BOOLEAN
      BY DEF PageInit
    <3> QED
      BY <2>1, <3>1, <3>2 DEF PageInit, PageTypeOK
<1>2. WaitsForRequest
  BY Words DEF PageInit, WaitsForRequest
<1>3. ShowsLast
  BY DEF PageInit, ShowsLast, NoneOlder
<1> QED
  BY <1>1, <1>2, <1>3 DEF PageInv

\* The boxes that a step may not touch are the abandoned ones, which stay the same.
LEMMA SameTab ==
  ASSUME UNCHANGED tab
  PROVE  Boxes(tab)' = Boxes(tab) /\ Abandoned' = Abandoned /\ loader[tab]' = loader[tab]
  BY DEF Boxes, Abandoned

\* A request of the tab itself: every box that is not abandoned waits or is cleared.
LEMMA AskStep ==
  ASSUME PageInv, SendRequest, box' = Loading, UNCHANGED <<tab, replays>>
  PROVE  PageInv'
<1> USE AsksAssumption
<1>0. PageTypeOK /\ WaitsForRequest /\ ShowsLast
  BY DEF PageInv
<1>1. /\ asked \in 0 .. MaxAsks - 1 /\ asked' = asked + 1 /\ away' = away \cup {asked + 1}
      /\ asked + 1 \notin replays
  BY <1>0 DEF SendRequest, NextRequest, PageTypeOK
<1>2. \A b \in Boxes(tab) :
         box'[b] = (IF b \in loader[tab].waits THEN Waiting
                    ELSE IF b \in loader[tab].clears THEN Blank ELSE box[b])
  BY DEF Loading
<1>3. PageTypeOK'
  <2>1. box' \in [Boxes(tab) -> 0 .. MaxAsks + 2]
    BY <1>0, Words DEF PageTypeOK, Loading
  <2>2. /\ asked' \in 0 .. MaxAsks /\ away' \in SUBSET (1 .. asked')
        /\ replays' \in SUBSET (1 .. asked')
    BY <1>0, <1>1 DEF PageTypeOK
  <2>3. crossed' \in BOOLEAN
    BY DEF SendRequest
  <2> QED
    BY <1>0, <2>1, <2>2, <2>3, SameTab DEF PageTypeOK
<1>4. \A b \in Boxes(tab) \ Abandoned : b \in loader[tab].waits \/ b \in loader[tab].clears
  BY <1>0, Loaders DEF Boxes, Abandoned, PageTypeOK
<1>5. WaitsForRequest'
  BY <1>1, <1>2, <1>4, SameTab, Words DEF WaitsForRequest
<1>6. ShowsLast'
  <2>1. CASE crossed'
    BY <2>1 DEF ShowsLast
  <2>2. CASE ~crossed'
    <3>1. away = {}
      BY <2>2 DEF SendRequest
    <3>2. \A b \in Boxes(tab) \ Abandoned : box'[b] \in {Blank, Waiting}
      BY <1>2, <1>4
    <3> QED
      BY <1>1, <3>1, <3>2, SameTab DEF ShowsLast, NoneOlder, IsLastAsked
  <2> QED
    BY <2>1, <2>2
<1> QED
  BY <1>3, <1>5, <1>6 DEF PageInv

\* A replay leaves the other boxes, and the last request of the tab, what they were.
LEMMA ReplayStep == PageInv /\ Replay => PageInv'
<1> SUFFICES ASSUME PageInv, Replay PROVE PageInv'
  OBVIOUS
<1> USE AsksAssumption
<1>0. PageTypeOK /\ WaitsForRequest /\ ShowsLast /\ tab = "sessions" /\ UNCHANGED tab
  BY DEF PageInv, Replay
<1>1. /\ asked \in 0 .. MaxAsks - 1 /\ asked' = asked + 1 /\ away' = away \cup {asked + 1}
      /\ replays' = replays \cup {asked + 1} /\ asked + 1 \notin replays
  BY <1>0 DEF Replay, SendRequest, NextRequest, PageTypeOK
<1>2. \A b \in Boxes(tab) : box'[b] = (IF b \in {"replay"} THEN Waiting ELSE box[b])
  BY DEF Replay, Set
<1>3. PageTypeOK'
  <2>1. box' \in [Boxes(tab) -> 0 .. MaxAsks + 2]
    BY <1>0, Words DEF PageTypeOK, Replay, Set
  <2>2. /\ asked' \in 0 .. MaxAsks /\ away' \in SUBSET (1 .. asked')
        /\ replays' \in SUBSET (1 .. asked')
    BY <1>0, <1>1 DEF PageTypeOK
  <2>3. crossed' \in BOOLEAN
    BY DEF Replay, SendRequest
  <2> QED
    BY <1>0, <2>1, <2>2, <2>3, SameTab DEF PageTypeOK
<1>4. WaitsForRequest'
  <2> SUFFICES ASSUME NEW b \in Boxes(tab) \ Abandoned, box'[b] = Waiting
               PROVE  \/ b \in loader[tab].waits /\ away' \ replays' # {}
                      \/ b = "replay" /\ away' \cap replays' # {}
    BY <1>0, SameTab DEF WaitsForRequest
  <2>1. CASE b = "replay"
    BY <1>1, <2>1
  <2>2. CASE b # "replay"
    <3>1. PICK r \in away : r \notin replays /\ b \in loader[tab].waits
      BY <1>0, <1>2, <2>2 DEF WaitsForRequest
    <3>2. r # asked + 1
      BY <1>0, <1>1, <3>1 DEF PageTypeOK
    <3> QED
      BY <1>1, <3>1, <3>2
  <2> QED
    BY <2>1, <2>2
<1>5. ShowsLast'
  <2>1. CASE crossed'
    BY <2>1 DEF ShowsLast
  <2>2. CASE ~crossed'
    <3>1. away = {} /\ ~crossed
      BY <2>2 DEF Replay, SendRequest
    <3>2. (1 .. asked') \ replays' = (1 .. asked) \ replays
      BY <1>0, <1>1 DEF PageTypeOK
    <3>3. NoneOlder
      BY <1>0, <3>1 DEF ShowsLast
    <3>4. \A b \in Boxes(tab) \ Abandoned :
             \/ box'[b] \in {Blank, Waiting, Error} \cup replays'
             \/ /\ box'[b] \in (1 .. asked') \ replays'
                /\ \A q \in (1 .. asked') \ replays' : q <= box'[b]
      BY <1>1, <1>2, <3>2, <3>3 DEF NoneOlder, IsLastAsked
    <3>5. away' \subseteq {asked'}
      BY <1>1, <3>1
    <3> QED
      BY <1>0, <3>4, <3>5, SameTab DEF ShowsLast, NoneOlder, IsLastAsked
  <2> QED
    BY <2>1, <2>2
<1> QED
  BY <1>3, <1>4, <1>5 DEF PageInv

\* A step that asks nothing: what it writes is a word, or the number of a request that was away,
\* and whatever still waits has its request.
LEMMA BoxStep ==
  ASSUME PageInv, UNCHANGED <<tab, asked, replays, crossed>>, away' \subseteq away,
         box' \in [Boxes(tab) -> 0 .. MaxAsks + 2],
         \A b \in Boxes(tab) \ Abandoned :
            box'[b] = box[b] \/ box'[b] \in {Blank, Error} \/ box'[b] \in away,
         \A b \in Boxes(tab) \ Abandoned : box'[b] = Waiting =>
            \/ b \in loader[tab].waits /\ away' \ replays # {}
            \/ b = "replay" /\ away' \cap replays # {}
  PROVE  PageInv'
<1> USE AsksAssumption
<1>0. PageTypeOK /\ ShowsLast
  BY DEF PageInv
<1>1. PageTypeOK'
  BY <1>0, SameTab DEF PageTypeOK
<1>2. WaitsForRequest'
  BY SameTab DEF WaitsForRequest
<1>3. ASSUME NoneOlder
      PROVE  NoneOlder'
  <2>1. \A r \in away : r \in replays \/ IsLastAsked(r)
    BY <1>0, <1>3 DEF PageTypeOK, NoneOlder, IsLastAsked
  <2> SUFFICES ASSUME NEW b \in Boxes(tab) \ Abandoned
               PROVE  \/ box'[b] \in {Blank, Waiting, Error} \cup replays
                      \/ IsLastAsked(box'[b])
    BY <1>3, SameTab DEF NoneOlder, IsLastAsked
  <2> QED
    BY <1>3, <2>1 DEF NoneOlder, IsLastAsked
<1>4. ShowsLast'
  BY <1>0, <1>3 DEF ShowsLast
<1> QED
  BY <1>1, <1>2, <1>4 DEF PageInv

\* An answer or a failure of a request of the tab: no box that asking had set to wait goes on
\* waiting; one of a replay: its own box does not.
LEMMA AnswerStep ==
  ASSUME PageInv, NEW r \in away, NEW rows \in BOOLEAN, Answer(r, rows) \/ LoadFails(r)
  PROVE  PageInv'
<1>0. PageTypeOK /\ WaitsForRequest /\ tab \in Tab /\ Arrive(r) /\ r \in 0 .. MaxAsks + 2
      /\ r # Waiting
  BY Words DEF PageInv, PageTypeOK, Answer, LoadFails
<1>1. UNCHANGED <<tab, asked, replays, crossed>> /\ away' = away \ {r}
  BY <1>0 DEF Arrive
<1>2. CASE r \notin replays
  <2>1. PICK told \in {r, Error}, over \in SUBSET Boxes(tab), blank \in SUBSET Boxes(tab) :
           /\ \A b \in Boxes(tab) : box'[b] = (IF b \in over THEN told
                                               ELSE IF b \in blank THEN Blank ELSE box[b])
           /\ box' \in [Boxes(tab) -> 0 .. MaxAsks + 2]
           /\ loader[tab].waits \ Abandoned \subseteq over \cup blank
    <3>1. CASE Answer(r, rows)
      <4> DEFINE over == IF rows THEN loader[tab].rows ELSE loader[tab].empty
      <4>1. box' = [b \in Boxes(tab) |-> IF b \in over THEN r ELSE box[b]]
        BY <1>2, <3>1 DEF Answer, Shown, Set
      <4>2. over \in SUBSET Boxes(tab) /\ loader[tab].waits \subseteq over
        BY <1>0, Loaders DEF Boxes
      <4> HIDE DEF over
      <4>3. box' \in [Boxes(tab) -> 0 .. MaxAsks + 2]
        BY <1>0, <4>1 DEF PageTypeOK
      <4>4. /\ \A b \in Boxes(tab) : box'[b] = (IF b \in over THEN r
                                                ELSE IF b \in {} THEN Blank ELSE box[b])
            /\ loader[tab].waits \ Abandoned \subseteq over \cup {}
        BY <4>1, <4>2
      <4> QED
        BY <4>2, <4>3, <4>4
    <3>2. CASE LoadFails(r)
      <4> DEFINE over == {loader[tab].tells} \cap Boxes(tab)
      <4> DEFINE blank == loader[tab].wipes \cap Boxes(tab)
      <4>1. box' = [b \in Boxes(tab) |-> IF b = loader[tab].tells THEN Error
                                         ELSE IF b \in loader[tab].wipes THEN Blank ELSE box[b]]
        BY <1>2, <3>2 DEF LoadFails, Failed
      <4>2. \A b \in Boxes(tab) : box'[b] = (IF b \in over THEN Error
                                             ELSE IF b \in blank THEN Blank ELSE box[b])
        BY <4>1
      <4>3. box' \in [Boxes(tab) -> 0 .. MaxAsks + 2]
        BY <1>0, <4>1, Words DEF PageTypeOK
      <4>4. loader[tab].waits \ Abandoned \subseteq over \cup blank
        BY <1>0, Loaders DEF Boxes, Abandoned
      <4>5. over \in SUBSET Boxes(tab) /\ blank \in SUBSET Boxes(tab)
        OBVIOUS
      <4> HIDE DEF over, blank
      <4> QED
        BY <4>2, <4>3, <4>4, <4>5
    <3> QED
      BY <3>1, <3>2
  <2>2. ASSUME NEW b \in Boxes(tab) \ Abandoned, box'[b] = Waiting
        PROVE  b = "replay" /\ away' \cap replays # {}
    <3>1. box[b] = Waiting /\ b \notin over /\ b \notin blank
      BY <1>0, <2>1, <2>2, Words
    <3> QED
      BY <1>0, <1>1, <1>2, <2>1, <3>1 DEF WaitsForRequest
  <2>3. \A b \in Boxes(tab) : box'[b] = box[b] \/ box'[b] \in {Blank, Error} \/ box'[b] \in away
    BY <2>1
  <2> QED
    BY <1>1, <2>1, <2>2, <2>3, BoxStep
<1>3. CASE r \in replays
  <2>1. PICK told \in {r, Error} :
           box' = [b \in Boxes(tab) |-> IF b \in {"replay"} THEN told ELSE box[b]]
    BY <1>3 DEF Answer, LoadFails, Set
  <2>2. box' \in [Boxes(tab) -> 0 .. MaxAsks + 2]
    BY <1>0, <2>1, Words DEF PageTypeOK
  <2>3. ASSUME NEW b \in Boxes(tab) \ Abandoned, box'[b] = Waiting
        PROVE  b \in loader[tab].waits /\ away' \ replays # {}
    <3>1. b # "replay" /\ box[b] = Waiting
      BY <1>0, <2>1, <2>3, Words
    <3> QED
      BY <1>0, <1>1, <1>3, <3>1 DEF WaitsForRequest
  <2>4. \A b \in Boxes(tab) : box'[b] = box[b] \/ box'[b] \in {Blank, Error} \/ box'[b] \in away
    BY <2>1
  <2> QED
    BY <1>1, <2>2, <2>3, <2>4, BoxStep
<1> QED
  BY <1>2, <1>3

LEMMA RefuseStep == PageInv /\ Refuse => PageInv'
<1> SUFFICES ASSUME PageInv, Refuse PROVE PageInv'
  OBVIOUS
<1>1. box' = [b \in Boxes(tab) |-> IF b \in loader[tab].refuses THEN Blank ELSE box[b]]
  BY DEF Refuse, Set
<1>2. UNCHANGED <<tab, asked, away, replays, crossed>>
  BY DEF Refuse
<1>3. box' \in [Boxes(tab) -> 0 .. MaxAsks + 2]
  BY <1>1, Words DEF PageInv, PageTypeOK
<1>4. \A b \in Boxes(tab) : box'[b] = box[b] \/ box'[b] = Blank
  BY <1>1
<1>5. \A b \in Boxes(tab) \ Abandoned : box'[b] = Waiting =>
         \/ b \in loader[tab].waits /\ away' \ replays # {}
         \/ b = "replay" /\ away' \cap replays # {}
  BY <1>2, <1>4, Words DEF PageInv, WaitsForRequest
<1> QED
  BY <1>2, <1>3, <1>4, <1>5, BoxStep

\* A step that sends nothing and shows nothing.
LEMMA ShowsSame ==
  ASSUME PageInv, UNCHANGED <<tab, asked, away, replays, box, crossed>>
  PROVE  PageInv'
  BY BoxStep DEF PageInv, PageTypeOK, WaitsForRequest

LEMMA NextPageInv == PageInv /\ [PageNext]_page => PageInv'
<1> SUFFICES ASSUME PageInv, [PageNext]_page PROVE PageInv'
  OBVIOUS
<1>1. CASE UNCHANGED page
  BY <1>1, ShowsSame DEF page
<1>2. ASSUME NEW byTab \in BOOLEAN, AskTab(byTab)
      PROVE  PageInv'
  BY <1>2, AskStep DEF AskTab
<1>3. ASSUME NEW r \in away, ServePins(r) \/ LoadFails(r) \/ (\E rows \in BOOLEAN : Answer(r, rows))
      PROVE  PageInv'
  <2>1. CASE ServePins(r)
    BY <2>1, ShowsSame DEF ServePins
  <2> QED
    BY <1>3, <2>1, AnswerStep
<1>4. ASSUME NEW s \in Pin, ClickUnpin(s) \/ UnpinDone(s) \/ UnpinFails(s)
      PROVE  PageInv'
  <2>1. CASE UnpinDone(s)
    BY <2>1, AskStep DEF UnpinDone
  <2>2. CASE ClickUnpin(s) \/ UnpinFails(s)
    BY <2>2, ShowsSame DEF ClickUnpin, UnpinFails
  <2> QED
    BY <1>4, <2>1, <2>2
<1> QED
  BY <1>1, <1>2, <1>3, <1>4, ReplayStep, RefuseStep DEF PageNext

\* PageInv holds in every state of a tab.
THEOREM PageIsSound == PageSpec => []PageInv
<1>1. PageInit => PageInv
  BY InitPageInv
<1>2. PageInv /\ [PageNext]_page => PageInv'
  BY NextPageInv
<1> QED
  BY <1>1, <1>2, PTL DEF PageSpec

LEMMA LastAskedIsLast == \A r : asked \in Nat /\ IsLastAsked(r) => LastAsked = r
<1> SUFFICES ASSUME NEW r, asked \in Nat, IsLastAsked(r) PROVE LastAsked = r
  OBVIOUS
<1> DEFINE Latest(x) == \A q \in (1 .. asked) \ replays : q <= x
<1>1. r \in (1 .. asked) \ replays /\ Latest(r)
  BY DEF IsLastAsked
<1>2. LastAsked = CHOOSE x \in (1 .. asked) \ replays : Latest(x)
  BY DEF LastAsked
<1> HIDE DEF Latest
<1>3. LastAsked \in (1 .. asked) \ replays /\ Latest(LastAsked)
  BY <1>1, <1>2
<1>4. LastAsked <= r /\ r <= LastAsked
  BY <1>1, <1>3 DEF Latest
<1> QED
  BY <1>1, <1>3, <1>4

\* A tab with nothing on its way has done loading, and shows nothing older than its last request
\* unless two of its requests crossed.
THEOREM QuietTabsShowLast == PageSpec => []QuietShowsLast
<1>1. PageInv => QuietShowsLast
  <2> SUFFICES ASSUME PageInv, away = {}
               PROVE  /\ \A b \in Boxes(tab) \ Abandoned : box[b] # Waiting
                      /\ \/ crossed
                         \/ \A b \in Boxes(tab) \ Abandoned :
                               box[b] \in {Blank, Error, LastAsked} \cup replays
    BY DEF QuietShowsLast
  <2>1. \A b \in Boxes(tab) \ Abandoned : box[b] # Waiting
    BY DEF PageInv, WaitsForRequest
  <2>2. asked \in Nat
    BY AsksAssumption DEF PageInv, PageTypeOK
  <2>3. ASSUME NoneOlder, NEW b \in Boxes(tab) \ Abandoned
        PROVE  box[b] \in {Blank, Error, LastAsked} \cup replays
    BY <2>1, <2>2, <2>3, LastAskedIsLast DEF NoneOlder
  <2>4. crossed \/ NoneOlder
    BY DEF PageInv, ShowsLast
  <2> QED
    BY <2>1, <2>3, <2>4
<1> QED
  BY <1>1, PageIsSound, PTL
===============================================================================
