------------------------------ MODULE Provenance ------------------------------
(* The provenance graph. A capture writes the event and then, an await at a   *)
(* time, the edges it infers: to the files the call names and to the previous *)
(* event of the session. Meanwhile trace, subgraph and shortestPath walk the  *)
(* graph breadth first, each read of a node's edges an await of its own, and  *)
(* the sweep deletes events; nothing deletes an edge. A capture of what is    *)
(* stored already inserts nothing and is handed the connection's last rowid:  *)
(* what it infers is written from that number.                                *)
(*                                                                            *)
(* An event is its number. Captures are numbered in the order of their        *)
(* timestamps, which their edges have; the events in the order of captures.   *)
EXTENDS Integers, Sequences, FiniteSets

CONSTANTS
    Files,        \* the file nodes
    Sessions,     \* the sessions
    Kinds,        \* the kinds of walks asked for
    MaxCaptures,  \* bound: the captures, and the rowids of any table
    MaxRepeats,   \* bound: the captures of what is stored already
    MaxSweeps,    \* bound: the events that expire
    maxDepth,     \* how deep a walk goes
    maxEdges      \* how many edges a subgraph holds

ASSUME ProvenanceAssumption ==
    /\ IsFiniteSet(Files) /\ Sessions # {} /\ MaxCaptures \in Nat
    /\ maxDepth \in Nat /\ maxEdges \in Nat \ {0}
    /\ Kinds \subseteq {"trace", "subgraph", "path"}

VARIABLES
    sessionOf,    \* the session of each event ever stored
    captures,     \* the captures: the event each was told it wrote, its session, whether it did
    stored,       \* the events the table holds
    edges,        \* the provenance_edges: an edge's id is its place
    inferring,    \* what each capture in flight still has to write
    walk,         \* the walk in progress or its answer
    known,        \* history: the edges there were when it began
    expired       \* history: the events deleted

captureVars == <<sessionOf, stored, captures, inferring, expired>>
provenanceVars == <<captureVars, edges, walk, known>>

Captured == 1..MaxCaptures
Node == Captured \cup Files
Entries(s) == {s[n] : n \in 1..Len(s)}

ProvenanceInit ==
    /\ sessionOf = <<>> /\ stored = {} /\ captures = <<>> /\ edges = <<>>
    /\ inferring = [c \in {} |-> <<>>]
    /\ walk = [kind |-> "none"]
    /\ known = 0 /\ expired = {}

-----------------------------------------------------------------------------
(* Capture and the edges it infers.                                           *)

\* What inferEdgesForEvent is called with: a file tool names one file or none, Bash any, in some
\* order; the chain is last.
BeginInference(e, s, first) ==
    /\ captures' = Append(captures, [event |-> e, session |-> s, first |-> first])
    /\ \E F \in SUBSET Files :
          \E paths \in {p \in [1..Cardinality(F) -> F] : Entries(p) = F} :
             inferring' = [c \in DOMAIN inferring \cup {Len(captures) + 1} |->
                             IF c \in DOMAIN inferring THEN inferring[c] ELSE [paths |-> paths, prev |-> 0]]
    /\ UNCHANGED <<edges, walk, known, expired>>

\* recordEvent inserts the event.
CaptureEvent ==
    /\ Len(captures) < MaxCaptures
    /\ \E s \in Sessions :
          /\ sessionOf' = Append(sessionOf, s)
          /\ stored' = stored \cup {Len(sessionOf) + 1}
          /\ BeginInference(Len(sessionOf) + 1, s, TRUE)

\* The session has the payload already and the insert is ignored. lastInsertRowid is that of the
\* connection's last insert, of whatever table, or the id of the stored event when there was none.
CaptureRepeated ==
    /\ Len(captures) < MaxCaptures /\ Len(captures) - Len(sessionOf) < MaxRepeats
    /\ \E same \in stored, e \in Captured : BeginInference(e, sessionOf[same], FALSE)
    /\ UNCHANGED <<sessionOf, stored>>

WithoutInference(c) == [x \in DOMAIN inferring \ {c} |-> inferring[x]]

\* addEdge, from the event the capture was told, at the time of the capture.
EdgeOf(c, to, type) == [from |-> captures[c].event, to |-> to, type |-> type, ts |-> c]

AddFileEdge(c) ==
    /\ inferring[c].paths # <<>>
    /\ edges' = Append(edges, EdgeOf(c, Head(inferring[c].paths), "touches"))
    /\ inferring' = [inferring EXCEPT ![c] = [@ EXCEPT !.paths = Tail(inferring[c].paths)]]
    /\ UNCHANGED <<sessionOf, stored, captures, expired, walk, known>>

\* Mutant: the newest other event of the session, earlier or not.
PreviousOther(s, e) == {x \in stored \ {e} : sessionOf[x] = s}

previousEventInSession(s, e) == {x \in stored : x < e /\ sessionOf[x] = s}

LookBack(c) ==
    LET previous == previousEventInSession(captures[c].session, captures[c].event) IN
    /\ inferring[c].paths = <<>> /\ inferring[c].prev = 0
    /\ \/ previous = {} /\ inferring' = WithoutInference(c)
       \/ \E last \in previous :
             /\ \A x \in previous : x <= last
             /\ inferring' = [inferring EXCEPT ![c] = [@ EXCEPT !.prev = last]]
    /\ UNCHANGED <<sessionOf, stored, captures, expired, edges, walk, known>>

AddChainEdge(c) ==
    /\ inferring[c].prev # 0
    /\ edges' = Append(edges, EdgeOf(c, inferring[c].prev, "derives_from"))
    /\ inferring' = WithoutInference(c)
    /\ UNCHANGED <<sessionOf, stored, captures, expired, walk, known>>

\* A write or a read fails, or the daemon stops: the rest is never written, and nobody is told.
InferenceFails(c) ==
    /\ inferring' = WithoutInference(c)
    /\ UNCHANGED <<sessionOf, stored, captures, expired, edges, walk, known>>

\* sweepExpired
SweepEvent ==
    /\ Cardinality(expired) < MaxSweeps
    /\ \E e \in stored : stored' = stored \ {e} /\ expired' = expired \cup {e}
    /\ UNCHANGED <<sessionOf, captures, inferring, edges, walk, known>>

Infer ==
    \E c \in DOMAIN inferring :
        AddFileEdge(c) \/ LookBack(c) \/ AddChainEdge(c) \/ InferenceFails(c)

-----------------------------------------------------------------------------
(* The walks.                                                                 *)

\* ORDER BY ts DESC, and by id where the timestamps are equal
NewestFirst(S) ==
    LET before(a, b) == edges[a].ts > edges[b].ts \/ (edges[a].ts = edges[b].ts /\ a < b)
    IN  [n \in 1..Cardinality(S) |-> CHOOSE a \in S : Cardinality({b \in S : before(b, a)}) = n - 1]

outgoing(n) == NewestFirst({i \in DOMAIN edges : edges[i].from = n})
incoming(n) == NewestFirst({i \in DOMAIN edges : edges[i].to = n})

BeginWalk ==
    /\ walk.kind = "none"
    /\ \E kind \in Kinds, from, to \in Node :
          /\ kind # "path" => to = from
          /\ walk' = [kind |-> kind, from |-> from, to |-> to, depth |-> 0,
                      frontier |-> <<from>>, next |-> <<>>, adjacent |-> <<>>, half |-> FALSE,
                      link |-> [n \in {from} |-> [prev |-> from, edge |-> 0, level |-> 0]],
                      out |-> <<>>, done |-> (kind = "path" /\ from = to) \/ maxDepth = 0]
    /\ known' = Len(edges)
    /\ UNCHANGED <<captureVars, edges>>

Here == Head(walk.frontier)
OtherEnd(i, n) == IF edges[i].from = n THEN edges[i].to ELSE edges[i].from

\* The node at the other end is met for the first time. How far it is from the source is a history.
Discover(w, i, n, other) ==
    IF other \in DOMAIN w.link THEN w
    ELSE [w EXCEPT !.link = [x \in DOMAIN w.link \cup {other} |->
                               IF x = other THEN [prev |-> n, edge |-> i, level |-> w.depth + 1]
                               ELSE w.link[x]],
                   !.next = Append(w.next, other)]

\* Mutant: an edge seen from its other end is taken again.
TakeTwice(w, i, n) ==
    CASE w.kind = "trace" -> [Discover(w, i, n, edges[i].to) EXCEPT !.out = Append(w.out, i)]
      [] w.kind = "subgraph" ->
            IF Len(w.out) >= maxEdges THEN w
            ELSE [Discover(w, i, n, OtherEnd(i, n)) EXCEPT !.out = Append(w.out, i)]
      [] w.kind = "path" ->
            IF w.done THEN w
            ELSE [Discover(w, i, n, OtherEnd(i, n)) EXCEPT !.done = OtherEnd(i, n) = w.to]

Take(w, i, n) ==
    CASE w.kind = "trace" -> [Discover(w, i, n, edges[i].to) EXCEPT !.out = Append(w.out, i)]
      [] w.kind = "subgraph" ->
            IF Len(w.out) >= maxEdges \/ i \in Entries(w.out) THEN w
            ELSE [Discover(w, i, n, OtherEnd(i, n)) EXCEPT !.out = Append(w.out, i)]
      [] w.kind = "path" ->
            IF w.done THEN w
            ELSE [Discover(w, i, n, OtherEnd(i, n)) EXCEPT !.done = OtherEnd(i, n) = w.to]

\* The next node of the frontier, or the next level, or the end.
Advance(w) ==
    IF w.done THEN w
    ELSE IF Len(w.frontier) > 1 THEN [w EXCEPT !.frontier = Tail(@)]
    ELSE [w EXCEPT !.frontier = w.next, !.next = <<>>, !.depth = @ + 1,
                   !.done = \/ w.next = <<>> \/ w.depth + 1 = maxDepth
                            \/ w.kind = "subgraph" /\ Len(w.out) >= maxEdges]

\* The walk when the first edges read of a node were taken, for each number of them.
Taken(adjacent) ==
    LET taken[k \in 0..Len(adjacent)] ==
          IF k = 0 THEN [walk EXCEPT !.adjacent = <<>>, !.half = FALSE]
          ELSE Take(taken[k - 1], adjacent[k], Here)
    IN  taken

\* All the edges read of a node are taken in one go.
Visit(adjacent) == Advance(Taken(adjacent)[Len(adjacent)])

Walking == walk.kind # "none" /\ ~walk.done

ReadOutgoing ==
    /\ Walking /\ ~walk.half
    /\ walk' = IF walk.kind = "trace" THEN Visit(outgoing(Here))
               ELSE [walk EXCEPT !.adjacent = outgoing(Here), !.half = TRUE]
    /\ UNCHANGED <<captureVars, edges, known>>

ReadIncoming ==
    /\ Walking /\ walk.half
    /\ walk' = Visit(walk.adjacent \o incoming(Here))
    /\ UNCHANGED <<captureVars, edges, known>>

ProvenanceNext ==
    CaptureEvent \/ CaptureRepeated \/ Infer \/ SweepEvent \/ BeginWalk \/ ReadOutgoing \/ ReadIncoming

ProvenanceSpec == ProvenanceInit /\ [][ProvenanceNext]_provenanceVars

-----------------------------------------------------------------------------
(* What the callers are told.                                                 *)

\* Edge i leads a walk of this kind from one node to another.
Leads(kind, i, a, b) ==
    \/ edges[i].from = a /\ edges[i].to = b
    \/ kind # "trace" /\ edges[i].from = b /\ edges[i].to = a

\* The nodes at most d edges of I from where the walk began, for each d.
Near(I) ==
    LET near[d \in 0..maxDepth] ==
          IF d = 0 THEN {walk.from}
          ELSE near[d - 1] \cup {n \in Node : \E i \in I, m \in near[d - 1] : Leads(walk.kind, i, m, n)}
    IN  near
Within(I, d) == Near(I)[d]

NoneTwice(s) == \A m, n \in 1..Len(s) : s[m] = s[n] => m = n

Known == 1..known
Answered(kind) == walk.kind = kind /\ walk.done

\* The parent links from a node back to the source, reversed.
Trails ==
    LET trail[n \in DOMAIN walk.link] ==
          IF n = walk.from THEN <<>> ELSE Append(trail[walk.link[n].prev], walk.link[n].edge)
    IN  trail
Trail == Trails[walk.to]

\* shortestPath answers a chain of edges from the source to the target, no longer than a shortest one of the
\* graph as it was when the walk began; and null only when that graph had none within maxDepth.
PathIsShortest ==
    Answered("path") =>
        IF walk.to \in DOMAIN walk.link
        THEN /\ Len(Trail) <= maxDepth
             /\ \A d \in 0..maxDepth : walk.to \in Within(Known, d) => Len(Trail) <= d
             /\ \E at \in [0..Len(Trail) -> Node] :
                  /\ at[0] = walk.from /\ at[Len(Trail)] = walk.to
                  /\ \A n \in 1..Len(Trail) : Leads("path", Trail[n], at[n - 1], at[n])
        ELSE walk.to \notin Within(Known, maxDepth)

\* subgraph answers at most maxEdges edges, none twice, which with their ends are connected to the seed within
\* maxDepth; and unless the cap was reached, every edge that was there within that distance.
SubgraphIsWhole ==
    Answered("subgraph") =>
        /\ Len(walk.out) <= maxEdges /\ NoneTwice(walk.out)
        /\ DOMAIN walk.link = Within(Entries(walk.out), maxDepth)
        /\ \A i \in Entries(walk.out) : {edges[i].from, edges[i].to} \subseteq DOMAIN walk.link
        /\ Len(walk.out) < maxEdges /\ maxDepth > 0 =>
             \A i \in Known :
                {edges[i].from, edges[i].to} \cap Within(Known, maxDepth - 1) # {} => i \in Entries(walk.out)

\* trace answers every edge it could reach, none twice, each after one that leads to it.
TraceIsWhole ==
    Answered("trace") =>
        /\ NoneTwice(walk.out)
        /\ \A n \in 1..Len(walk.out) :
             \/ edges[walk.out[n]].from = walk.from
             \/ \E m \in 1..n - 1 : edges[walk.out[m]].to = edges[walk.out[n]].from
        /\ maxDepth > 0 =>
             \A i \in Known : edges[i].from \in Within(Known, maxDepth - 1) => i \in Entries(walk.out)

\* The three walks answer rightly although edges are added while they read, a node at a time.
WalksRight == PathIsShortest /\ SubgraphIsWhole /\ TraceIsWhole

\* However captures interleave, one derives from an earlier event of its own session, and a capture that
\* stored its event from the one just before it: what lies between the two has expired. So no chain has a
\* cycle, and a trace along it ends. (A repeated capture says this of an event that is not its own: its edge
\* may lead from one session into another, and past events of either.)
ChainFollowsSession ==
    \A i \in DOMAIN edges :
        edges[i].type = "derives_from" =>
            LET c == captures[edges[i].ts]  e == edges[i].from  p == edges[i].to IN
            /\ p < e /\ sessionOf[p] = c.session
            /\ c.first =>
                 /\ sessionOf[e] = c.session
                 /\ \A x \in p + 1..e - 1 : sessionOf[x] = c.session => x \in expired

-----------------------------------------------------------------------------
(* The inductive strengthening.                                               *)

Capture == [event : Captured, session : Sessions, first : BOOLEAN]
Inference == [paths : Seq(Files), prev : Nat]
Edge == [from : Captured, to : Node, type : {"touches", "derives_from"}, ts : Nat]

ProvenanceTypeOK ==
    /\ sessionOf \in Seq(Sessions) /\ captures \in Seq(Capture)
    /\ stored \cup expired = 1..Len(sessionOf)
    /\ edges \in Seq(Edge)
    /\ Len(sessionOf) <= Len(captures) /\ Len(captures) <= MaxCaptures
    /\ DOMAIN inferring \subseteq 1..Len(captures)
    /\ inferring \in [DOMAIN inferring -> Inference]

\* p is what capture c may say its event derives from.
Follows(c, p) ==
    LET e == captures[c].event IN
    /\ c \in 1..Len(captures) /\ p \in 1..Len(sessionOf)
    /\ p < e /\ sessionOf[p] = captures[c].session
    /\ captures[c].first => \A x \in p + 1..e - 1 : sessionOf[x] = captures[c].session => x \in expired

ProvenanceInv ==
    /\ ProvenanceTypeOK
    /\ \A c \in 1..Len(captures) :
         captures[c].first => /\ captures[c].event \in 1..Len(sessionOf)
                              /\ sessionOf[captures[c].event] = captures[c].session
    /\ \A c \in DOMAIN inferring : inferring[c].prev # 0 => Follows(c, inferring[c].prev)
    /\ \A i \in 1..Len(edges) :
         edges[i].type = "derives_from" =>
            edges[i].from = captures[edges[i].ts].event /\ Follows(edges[i].ts, edges[i].to)

\* The nodes a walk has met form a tree, level by level.
Met(w) == DOMAIN w.link
Level(w, n) == w.link[n].level

Linked(w) ==
    /\ w.from \in Met(w) /\ Level(w, w.from) = 0
    /\ \A n \in Met(w) \ {w.from} :
         /\ w.link[n].prev \in Met(w) /\ Level(w, n) = Level(w, w.link[n].prev) + 1
         /\ w.link[n].edge \in 1..Len(edges) /\ Leads(w.kind, w.link[n].edge, w.link[n].prev, n)
         /\ w.kind # "path" => w.link[n].edge \in Entries(w.out)

\* Of the level it reads a walk has some nodes in its frontier, of the next one all in next.
Levels(w) ==
    /\ \A n \in Met(w) : Level(w, n) <= w.depth + 1 /\ Level(w, n) <= maxDepth
    /\ \A n \in Entries(w.frontier) : n \in Met(w) /\ Level(w, n) = w.depth
    /\ Entries(w.next) = {n \in Met(w) : Level(w, n) = w.depth + 1}
    /\ NoneTwice(w.frontier) /\ NoneTwice(w.next)

\* A node was read, and so were the edges there were when the walk began, unless the cap was reached.
Full(w) == w.kind = "subgraph" /\ Len(w.out) >= maxEdges
Read(w, n) == n \in Met(w) /\ Level(w, n) <= w.depth /\ n \notin Entries(w.frontier)
Explored(w, n) ==
    \A i \in Known, m \in Node :
        Leads(w.kind, i, n, m) =>
            /\ m \in Met(w) /\ Level(w, m) <= Level(w, n) + 1
            /\ w.kind # "path" => i \in Entries(w.out)

OutSound(w) ==
    /\ NoneTwice(w.out) /\ (w.kind = "subgraph" => Len(w.out) <= maxEdges)
    /\ \A i \in Entries(w.out) : edges[i].from \in Met(w) /\ edges[i].to \in Met(w)
    /\ w.kind = "trace" =>
         \A n \in 1..Len(w.out) :
            \/ edges[w.out[n]].from = w.from
            \/ \E m \in 1..n - 1 : edges[w.out[m]].to = edges[w.out[n]].from

\* A trace takes the edges of a node when it reads the node, all of them.
OutRead(w) == w.kind = "trace" => \A i \in Entries(w.out) : Read(w, edges[i].from)

Half(w) ==
    IF w.half
    THEN /\ w.kind # "trace" /\ ~w.done
         /\ \A i \in Known : edges[i].from = Head(w.frontier) => i \in Entries(w.adjacent)
         /\ \A i \in Entries(w.adjacent) : edges[i].from = Head(w.frontier)
    ELSE w.adjacent = <<>>

\* Why a walk has ended, or why it goes on.
Found(w) == w.kind = "path" /\ w.to \in Met(w) /\ (w.to = w.from \/ Level(w, w.to) = w.depth + 1)
Ended(w) ==
    IF w.done
    THEN \/ Found(w)
         \/ ~(w.kind = "path" /\ w.to \in Met(w)) /\ \A n \in Met(w) : Level(w, n) < maxDepth => Read(w, n)
         \/ Full(w)
    ELSE /\ w.depth < maxDepth /\ w.frontier # <<>>
         /\ w.kind = "path" => w.to \notin Met(w)

Link == [prev : Node, edge : Nat, level : Nat]
Walk ==
    [kind : {"trace", "subgraph", "path"}, from : Node, to : Node, depth : Nat, frontier : Seq(Node),
     next : Seq(Node), adjacent : Seq(Nat), half : BOOLEAN, link : UNION {[S -> Link] : S \in SUBSET Node},
     out : Seq(Nat), done : BOOLEAN]

WalkOK(w) ==
    /\ w \in Walk /\ Entries(w.out) \cup Entries(w.adjacent) \subseteq 1..Len(edges)
    /\ Linked(w) /\ Levels(w) /\ OutSound(w) /\ OutRead(w) /\ Half(w) /\ Ended(w)
    /\ \A n \in Met(w) : Read(w, n) => Explored(w, n) \/ Full(w)

WalkInv == known \in 0..Len(edges) /\ (walk.kind # "none" => WalkOK(walk))
=============================================================================
