----------------------------- MODULE MCKnowledge ------------------------------
(* What is read out of the store while others write to it: a behaviour is one *)
(* of Search, Provenance or Transfer, and the other two stay where they begin.*)
(* Provenance is in two parts: captures and expiry, and captures and walks.   *)
EXTENDS Search, Provenance, Transfer, TLC

VARIABLE part

knowledge == <<searchVars, provenanceVars, transferVars, part>>

\* A step of one part.
Retrieving(A) == part = "search" /\ A /\ UNCHANGED <<provenanceVars, transferVars, part>>
Inferring(A) == part = "chains" /\ A /\ walk' = walk /\ UNCHANGED <<searchVars, transferVars, part>>
Tracing(A) == part = "walks" /\ A /\ expired' = {} /\ UNCHANGED <<searchVars, transferVars, part>>
Transferring(A) == part = "transfer" /\ A /\ UNCHANGED <<searchVars, provenanceVars, part>>

KnowledgeInit ==
    /\ part \in {"search", "chains", "walks", "transfer"}
    /\ ProvenanceInit /\ TransferInit
    /\ SearchInit /\ (part # "search" => fts = <<>> /\ how = [x \in DOMAIN how |-> FALSE])

KnowledgeNext ==
    \/ Retrieving(SearchNext) \/ Inferring(ProvenanceNext) \/ Tracing(ProvenanceNext)
    \/ Transferring(TransferNext)

KnowledgeSpec == KnowledgeInit /\ [][KnowledgeNext]_knowledge

Symmetric == Permutations(Sessions)
=============================================================================
