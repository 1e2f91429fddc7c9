-------------------------------- MODULE Search --------------------------------
(* hybridSearch and its streaming variant: full-text hits, vector hits, the   *)
(* superseded ids, the pins and the missing rows are read in awaits of their  *)
(* own, then fused by reciprocal rank, recency and boost, sieved, perhaps     *)
(* reranked, and cut to k. Meanwhile summaries are pinned, unpinned, marked   *)
(* as superseded by another, deleted and pruned.                              *)
(*                                                                            *)
(* The summaries are numbered as the vectors order them for the query; the    *)
(* order of the full-text index is any. Scores are integers, on a scale fine  *)
(* enough to tell any two ranks apart, as the quotients in the code do.       *)
EXTENDS Integers, Sequences, FiniteSets

CONSTANTS
    MaxSum,       \* bound: the summaries are 1..MaxSum
    Fresh, Hot,   \* the recent ones, the ones of hot files
    k,            \* how many hits are asked for
    pool,         \* candidatePool
    rrfK,         \* what is added to every rank
    scale,        \* of the reciprocal ranks
    MaxTouch      \* bound: pins, unpins, marks, deletions and prunes

Sum == 1..MaxSum
ASSUME SearchAssumption ==
    /\ MaxSum \in Nat /\ Fresh \subseteq Sum /\ Hot \subseteq Sum
    /\ k \in Nat \ {0} /\ pool \in Nat \ {0} /\ MaxTouch \in Nat

Reciprocal(r) == IF r = 0 THEN 0 ELSE scale \div (rrfK + r)

ASSUME ScaleAssumption ==
    /\ rrfK \in Nat /\ scale \in Nat
    /\ \A m \in Sum : Reciprocal(m) > 0 /\ \A n \in Sum : m < n => Reciprocal(n) < Reciprocal(m)

VARIABLES
    fts,          \* the order of the full-text index for the query
    live,         \* the summaries there are
    pairs, pins,  \* summary_supersedes, as <<newer, older>>; the pinned
    how,          \* "hybrid" or "stream", with a vector table or by comparing all
    step,         \* where the search is
    bm25, vec,    \* what it has read
    seenDropped, seenPins, seenRows,
    hits, final,  \* the ranked hits, the answer
    emitted,      \* the stages a streaming search has emitted
    touched,      \* bound counter
    buried, kept, gone   \* history: what has been superseded and not pinned; what has been
                         \* pinned; what has been deleted; each since before the search

tableVars == <<live, pairs, pins>>
readVars == <<bm25, vec, seenDropped, seenPins, seenRows>>
historyVars == <<buried, kept, gone>>
searchVars == <<fts, tableVars, how, step, readVars, hits, final, emitted, touched, historyVars>>

Members(s) == {s[n] : n \in 1..Len(s)}
Orders(S) == {s \in [1..Cardinality(S) -> S] : \A m, n \in DOMAIN s : s[m] = s[n] => m = n}
near == [i \in Sum |-> i]
Top(s, n) == SubSeq(s, 1, IF Len(s) < n THEN Len(s) ELSE n)

SearchInit ==
    /\ fts \in UNION {Orders(S) : S \in SUBSET Sum}
    /\ how \in [stream : BOOLEAN, vecEnabled : BOOLEAN, rerank : BOOLEAN]
    /\ live = Sum /\ pairs = {} /\ pins = {}
    /\ step = "start"
    /\ bm25 = <<>> /\ vec = <<>> /\ seenDropped = {} /\ seenPins = {} /\ seenRows = {}
    /\ hits = <<>> /\ final = <<>> /\ emitted = <<>> /\ touched = 0
    /\ buried = {} /\ kept = {} /\ gone = {}

-----------------------------------------------------------------------------
(* What other requests and the consolidator do.                               *)

Searching == step \notin {"start", "done", "thrown"}

\* What is superseded by another.
Older(P) == {p[2] : p \in P}

Touch ==
    /\ touched < MaxTouch /\ touched' = touched + 1
    /\ step \notin {"done", "thrown"}
    /\ buried' = (IF Searching THEN buried \cap Older(pairs') ELSE Older(pairs')) \ pins'
    /\ kept' = IF Searching THEN kept \cap (pins' \cap live') ELSE pins'
    /\ gone' = IF Searching THEN gone ELSE Sum \ live'
    /\ UNCHANGED <<fts, how, step, readVars, hits, final, emitted>>

TouchPin == \E i \in live : pins' = pins \cup {i} /\ UNCHANGED <<live, pairs>> /\ Touch
TouchUnpin == \E i \in pins : pins' = pins \ {i} /\ UNCHANGED <<live, pairs>> /\ Touch

\* The consolidator compares what is not superseded yet; it may have read the pins long ago.
TouchMark ==
    \E newer, older \in live \ Older(pairs) :
        /\ newer # older /\ pairs' = pairs \cup {<<newer, older>>}
        /\ UNCHANGED <<live, pins>> /\ Touch

\* The foreign keys cascade: a mark goes with either of its ends.
Delete(S) ==
    /\ live' = live \ S /\ pins' = pins \ S
    /\ pairs' = {p \in pairs : p[1] \notin S /\ p[2] \notin S}

TouchDelete == \E i \in live : Delete({i}) /\ Touch

\* prune, asked for what is superseded
TouchPrune == pairs # {} /\ Delete(Older(pairs)) /\ Touch

-----------------------------------------------------------------------------
(* The search.                                                                *)

Reads == UNCHANGED <<fts, tableVars, how, touched, historyVars>>
Emit(stage) == emitted' = IF how.stream THEN Append(emitted, stage) ELSE emitted

\* Mutant: ranks count from 0, which then stands for none.
RankFromZero(s, i) == IF i \in Members(s) THEN (CHOOSE n \in 1..Len(s) : s[n] = i) - 1 ELSE 0

\* 1-based rank of i, 0 for none.
RankIn(s, i) == IF i \in Members(s) THEN CHOOSE n \in 1..Len(s) : s[n] = i ELSE 0

\* s without the deleted: what is left keeps its order.
LiveOf(s) ==
    {t \in Orders(Members(s) \cap live) :
        \A m, n \in DOMAIN t : m < n => RankIn(s, t[m]) < RankIn(s, t[n])}

\* searchFts joins the rows; the first stage of a stream is emitted at once.
SearchFts ==
    /\ step = "start" /\ step' = "vector"
    /\ \E s \in LiveOf(fts) : bm25' = Top(s, pool)
    /\ Emit("bm25")
    /\ UNCHANGED <<vec, seenDropped, seenPins, seenRows, hits, final>> /\ Reads

\* The vec0 table keeps the vectors of deleted summaries, comparing all joins the rows.
Nearest ==
    {Top(s, pool) : s \in IF how.vecEnabled THEN {near} ELSE LiveOf(near)}

SearchVec ==
    /\ step = "vector" /\ step' = "dropped"
    /\ vec' \in Nearest
    /\ Emit("vector")
    /\ UNCHANGED <<bm25, seenDropped, seenPins, seenRows, hits, final>> /\ Reads

\* The embedder or the index throws, or a read of the rows after it: a stream goes on with
\* the ranks it has got, a hybrid search ends.
SearchVecFails ==
    /\ step = "vector"
    /\ IF how.stream THEN step' = "dropped" /\ vec' \in {vec} \cup Nearest
       ELSE step' = "thrown" /\ UNCHANGED vec
    /\ Emit("vector")
    /\ UNCHANGED <<bm25, seenDropped, seenPins, seenRows, hits, final>> /\ Reads

ReadSuperseded ==
    /\ step = "dropped" /\ step' = "pins"
    /\ seenDropped' = Older(pairs)
    /\ UNCHANGED <<bm25, vec, seenPins, seenRows, hits, final, emitted>> /\ Reads

ReadPinned ==
    /\ step = "pins" /\ step' = "rows"
    /\ seenPins' = pins
    /\ UNCHANGED <<bm25, vec, seenDropped, seenRows, hits, final, emitted>> /\ Reads

\* getSummariesByIds of the ids that came from the vectors alone.
FetchMissing ==
    /\ step = "rows" /\ step' = "rank"
    /\ seenRows' = Members(bm25) \cup (Members(vec) \cap live)
    /\ UNCHANGED <<bm25, vec, seenDropped, seenPins, hits, final, emitted>> /\ Reads

recency(i) == IF i \in Fresh THEN 3 ELSE 2
boostFn(i) == IF i \in Hot THEN 3 ELSE 2

Score(i) == (Reciprocal(RankIn(bm25, i)) + Reciprocal(RankIn(vec, i))) * recency(i) * boostFn(i)

\* Mutant: what is superseded is dropped, pinned or not.
SieveAll == {i \in seenRows : i \notin seenDropped}

\* Superseded summaries are left out unless pinned, and so are ids without a row.
Sieve == {i \in seenRows : i \notin seenDropped \/ i \in seenPins}

\* The hits by falling score; the order of equal ones is the sort's.
Ranked == {s \in Orders(Sieve) : \A m, n \in 1..Len(s) : m < n => Score(s[m]) >= Score(s[n])}

\* fuseAndRank. A reranker orders the pool anew, or leaves it alone when it fails.
Fuse ==
    /\ step = "rank" /\ step' = "done"
    /\ \E s \in Ranked :
           /\ hits' = s
           /\ IF how.rerank
              THEN \E r \in Orders(Members(Top(s, pool))) : final' = Top(r, k)
              ELSE final' = Top(s, k)
    /\ Emit("final")
    /\ UNCHANGED readVars /\ Reads

SearchNext ==
    \/ TouchPin \/ TouchUnpin \/ TouchMark \/ TouchDelete \/ TouchPrune
    \/ SearchFts \/ SearchVec \/ SearchVecFails \/ ReadSuperseded \/ ReadPinned
    \/ FetchMissing \/ Fuse

SearchSpec == SearchInit /\ [][SearchNext]_searchVars

-----------------------------------------------------------------------------

\* What was superseded before the search is not shown, unless it was pinned since or lost its
\* mark since: deleting either end of a pair deletes the mark. (So one whose newer summary is
\* deleted before the marks are read IS shown, superseded as it was, and so is one that is
\* itself deleted between the full-text read and that of the marks.) What was deleted before
\* the search is not shown, although its vector is still found. What is pinned all the while is
\* not lost once an index has found it, superseded or not.
ShownRightly ==
    step = "done" =>
        /\ Members(final) \cap (buried \cup gone) = {}
        /\ kept \cap (Members(bm25) \cup Members(vec)) \subseteq Members(hits)

(* The inductive strengthening of ShownRightly: what each read has learnt of  *)
(* the summaries that the history follows.                                    *)

Step == {"start", "vector", "dropped", "pins", "rows", "rank", "done", "thrown"}

SearchTypeOK ==
    /\ live \subseteq Sum /\ pairs \subseteq live \X live /\ pins \subseteq live
    /\ step \in Step /\ fts \in UNION {Orders(S) : S \in SUBSET Sum}
    /\ bm25 \in Seq(Sum) /\ vec \in Seq(Sum)
    /\ seenDropped \subseteq Sum /\ seenPins \subseteq Sum /\ seenRows \subseteq Sum
    /\ hits \in Seq(Sum) /\ final \in Seq(Sum)
    /\ touched \in 0..MaxTouch
    /\ buried \subseteq Sum /\ kept \subseteq Sum /\ gone \subseteq Sum

\* What the history follows is still so.
HistoryIsTrue == buried \subseteq Older(pairs) \ pins /\ kept \subseteq pins /\ gone \cap live = {}

\* The reads took place one after the other, each after the history began.
MarksSeen == step \in {"pins", "rows", "rank"} => buried \subseteq seenDropped
PinsSeen == step \in {"rows", "rank"} => kept \subseteq seenPins /\ buried \cap seenPins = {}
TextRead == step \in Step \ {"start", "thrown"} => gone \cap Members(bm25) = {}
RowsRead ==
    step = "rank" =>
        /\ gone \cap seenRows = {}
        /\ kept \cap (Members(bm25) \cup Members(vec)) \subseteq seenRows

SearchInv ==
    /\ SearchTypeOK /\ HistoryIsTrue /\ MarksSeen /\ PinsSeen /\ TextRead /\ RowsRead
    /\ ShownRightly

-----------------------------------------------------------------------------

\* a is found, and b not before it.
Precedes(s, a, b) == \E m \in 1..Len(s) : s[m] = a /\ \A n \in 1..m : s[n] # b

\* A hit that is at least as good in both indexes, in recency and in boost, and better in
\* one index, comes first: fusion is monotonic.
FusionMonotonic ==
    \A m, n \in 1..Len(hits) :
        LET a == hits[m]
            b == hits[n] IN
        /\ recency(a) >= recency(b) /\ boostFn(a) >= boostFn(b)
        /\ ~Precedes(bm25, b, a) /\ ~Precedes(vec, b, a)
        /\ Precedes(bm25, a, b) \/ Precedes(vec, a, b)
        => m < n

(* The inductive strengthening of FusionMonotonic.                            *)

\* An index lists a summary once.
Listed(s) == Len(s) <= MaxSum /\ \A m, n \in 1..Len(s) : s[m] = s[n] => m = n

\* There are no hits before the end, and the ranks do not change after it.
HitsRanked ==
    /\ step # "done" => hits = <<>>
    /\ \A m, n \in 1..Len(hits) : m < n => hits[m] # hits[n] /\ Score(hits[m]) >= Score(hits[n])

RankInv == SearchTypeOK /\ Listed(bm25) /\ Listed(vec) /\ HitsRanked
=============================================================================
