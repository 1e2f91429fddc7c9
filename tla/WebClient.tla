------------------------------ MODULE WebClient ------------------------------
(* One tab of the web page and the requests it has on their way. A click, a   *)
(* form or a timer clears the tab's boxes and sends a request; each answer is *)
(* written over whatever the boxes hold when it arrives, and nothing ties an  *)
(* answer to the question asked last.                                         *)
EXTENDS Naturals, FiniteSets

CONSTANTS
    MaxAsks,      \* bound: requests of the tab
    Pin           \* the summaries that may be pinned

ASSUME AsksAssumption == MaxAsks \in Nat

VARIABLES
    tab,          \* the tab under study
    asked,        \* the requests sent so far are 1 .. asked
    away,         \* the requests without an answer
    replays,      \* those of them that replay a session
    box,          \* what each box of the tab shows
    hubsLoaded,   \* graphHubsLoaded
    pinned,       \* the daemon's pins
    seen,         \* the pins each list request read
    unpins,       \* the unpin requests on their way, and the buttons disabled
    disabled,
    crossed       \* history: two requests of the tab were away at once

page == <<tab, asked, away, replays, box, hubsLoaded, pinned, seen, unpins,
          disabled, crossed>>

-----------------------------------------------------------------------------
(* The tabs. A box is blank, says that it is loading, that it failed, or      *)
(* shows the answer to a request, whose number it holds. Of each loader: the  *)
(* boxes that wait, those it clears as it asks, the box that tells of a       *)
(* failure, those a failure wipes, those that an answer with rows and one     *)
(* without are written to, and those that a form without its words writes.    *)

Blank == 0
Waiting == MaxAsks + 1
Error == MaxAsks + 2

Loader(waits, clears, tells, wipes, rows, empty, refuses) ==
    [waits |-> waits, clears |-> clears, tells |-> tells, wipes |-> wipes, rows |-> rows,
     empty |-> empty, refuses |-> refuses]

Body == {"body"}
SummaryAndBody == {"summary", "body"}
Table == Loader(Body, {}, "body", {}, Body, Body, {})
Form == Loader(Body, {}, "body", {}, Body, Body, Body)

OverviewBoxes == {"capture", "drain", "spend", "context"}
OverviewTab == Loader(OverviewBoxes, {}, "capture", {}, OverviewBoxes, OverviewBoxes, {})
EventsTab == Table
SummariesTab == Table
SearchForm == Form
WhyForm == Form
AbForm == Table
HealthBoxes == {"stats", "doctor"}
HealthTab == Loader(HealthBoxes, {}, "stats", {"doctor"}, HealthBoxes, HealthBoxes, {})
PinnedTab == Table
SessionsTab == Loader(Body, {"replay"}, "body", {}, Body, Body, {})
SymbolForm == Form
HubsTable == Table
GraphForm == Loader({"summary"}, Body, "summary", {}, SummaryAndBody, SummaryAndBody, {"summary"})
PathForm == Form
PatternsTab == Loader(Body, {}, "body", {}, SummaryAndBody, SummaryAndBody, {})
FederationForm == Loader({"summary"}, Body, "summary", {}, SummaryAndBody, {"summary"}, Body)

loader == [overview |-> OverviewTab, events |-> EventsTab, summaries |-> SummariesTab,
           search |-> SearchForm, why |-> WhyForm, ab |-> AbForm, health |-> HealthTab,
           pinned |-> PinnedTab, sessions |-> SessionsTab, symbol |-> SymbolForm,
           hubs |-> HubsTable, graph |-> GraphForm, path |-> PathForm,
           patterns |-> PatternsTab, federation |-> FederationForm]

Tab == DOMAIN loader
Boxes(t) == UNION {loader[t].waits, loader[t].clears, loader[t].rows}

Set(boxes, v) == [b \in Boxes(tab) |-> IF b \in boxes THEN v ELSE box[b]]

\* What asking does to the boxes: some wait, some are cleared.
Loading == [b \in Boxes(tab) |->
               IF b \in loader[tab].waits THEN Waiting
               ELSE IF b \in loader[tab].clears THEN Blank ELSE box[b]]

\* Mutant: a tab that fails says nothing.
Silent == box

\* The catch: it reports in one box.
Failed == [b \in Boxes(tab) |->
              IF b = loader[tab].tells THEN Error
              ELSE IF b \in loader[tab].wipes THEN Blank ELSE box[b]]

Shown(r, rows) == Set(IF rows THEN loader[tab].rows ELSE loader[tab].empty, r)

-----------------------------------------------------------------------------
PageInit ==
    /\ tab \in Tab
    /\ asked = 0 /\ away = {} /\ replays = {}
    /\ box = [b \in Boxes(tab) |-> Blank]
    /\ hubsLoaded = FALSE
    /\ pinned = Pin /\ seen = <<>> /\ unpins = {} /\ disabled = {}
    /\ crossed = FALSE

NextRequest == asked + 1

SendRequest ==
    /\ asked < MaxAsks
    /\ asked' = NextRequest
    /\ away' = away \cup {NextRequest}
    /\ crossed' = (crossed \/ away # {})

\* loadTab, or the submit of a form that has all it needs. The graph tab loads
\* its hubs until a load has ended; a change of their kind loads them again.
AskTab(byTab) ==
    /\ tab = "hubs" /\ byTab => ~hubsLoaded
    /\ SendRequest
    /\ box' = Loading
    /\ disabled' = {}
    /\ UNCHANGED <<tab, replays, hubsLoaded, pinned, seen, unpins>>

\* runReplay: a click on a row of the sessions.
Replay ==
    /\ tab = "sessions" /\ box["body"] \notin {Blank, Waiting, Error}
    /\ SendRequest
    /\ replays' = replays \cup {NextRequest}
    /\ box' = Set({"replay"}, Waiting)
    /\ UNCHANGED <<tab, hubsLoaded, pinned, seen, unpins, disabled>>

\* A form without its words: the box is cleared or says what it wants, and the
\* request that may be on its way is not called off.
Refuse ==
    /\ loader[tab].refuses # {}
    /\ box' = Set(loader[tab].refuses, Blank)
    /\ UNCHANGED <<tab, asked, away, replays, hubsLoaded, pinned, seen, unpins,
                   disabled, crossed>>

\* The daemon answers a list of pins with those it has now.
ServePins(r) ==
    /\ tab = "pinned" /\ r \in away /\ r \notin DOMAIN seen
    /\ seen' = [q \in DOMAIN seen \cup {r} |-> IF q = r THEN pinned ELSE seen[q]]
    /\ UNCHANGED <<tab, asked, away, replays, box, hubsLoaded, pinned, unpins,
                   disabled, crossed>>

Arrive(r) ==
    /\ r \in away
    /\ away' = away \ {r}
    /\ hubsLoaded' = (hubsLoaded \/ tab = "hubs")
    /\ UNCHANGED <<tab, asked, replays, pinned, seen, unpins, disabled, crossed>>

Answer(r, rows) ==
    /\ tab = "pinned" => r \in DOMAIN seen
    /\ Arrive(r)
    /\ box' = IF r \in replays THEN Set({"replay"}, r) ELSE Shown(r, rows)

\* No daemon, or an answer that is not ok.
LoadFails(r) ==
    /\ Arrive(r)
    /\ box' = IF r \in replays THEN Set({"replay"}, Error) ELSE Failed

-----------------------------------------------------------------------------
(* The pinned tab: a button per row.                                          *)

Rows == IF tab = "pinned" /\ box["body"] \in DOMAIN seen THEN seen[box["body"]] ELSE {}

ClickUnpin(s) ==
    /\ s \in Rows /\ s \notin disabled
    /\ unpins' = unpins \cup {s}
    /\ disabled' = disabled \cup {s}
    /\ UNCHANGED <<tab, asked, away, replays, box, hubsLoaded, pinned, seen, crossed>>

\* The unpin is answered; the list is loaded again, while the bound allows.
UnpinDone(s) ==
    /\ s \in unpins
    /\ pinned' = pinned \ {s}
    /\ unpins' = unpins \ {s}
    /\ SendRequest
    /\ box' = Loading
    /\ disabled' = {}
    /\ UNCHANGED <<tab, replays, hubsLoaded, seen>>

\* The button says `failed' and stays disabled until the list is loaded again.
UnpinFails(s) ==
    /\ s \in unpins
    /\ unpins' = unpins \ {s}
    /\ UNCHANGED <<tab, asked, away, replays, box, hubsLoaded, pinned, seen, disabled,
                   crossed>>

PageNext ==
    \/ \E byTab \in BOOLEAN : AskTab(byTab)
    \/ Replay \/ Refuse
    \/ \E r \in away : ServePins(r) \/ LoadFails(r) \/ (\E rows \in BOOLEAN : Answer(r, rows))
    \/ \E s \in Pin : ClickUnpin(s) \/ UnpinDone(s) \/ UnpinFails(s)

PageSpec == PageInit /\ [][PageNext]_page

-----------------------------------------------------------------------------
(* Properties.                                                                *)

\* The last request for the tab's main box.
LastAsked == CHOOSE r \in (1 .. asked) \ replays : \A q \in (1 .. asked) \ replays : q <= r

\* The boxes that a failure leaves as they were when the request was sent.
Abandoned == loader[tab].rows \ ({loader[tab].tells} \cup loader[tab].wipes
                                 \cup loader[tab].clears)

\* A tab with nothing on its way has done loading, but for boxes a failure
\* abandons, and unless two of its requests crossed no box shows an answer
\* older than the request made last.
QuietShowsLast ==
    away = {} /\ asked > 0 =>
        /\ \A b \in Boxes(tab) \ Abandoned : box[b] # Waiting
        /\ \/ crossed
           \/ \A b \in Boxes(tab) \ Abandoned :
                 box[b] \in {Blank, Error, LastAsked} \cup replays

-----------------------------------------------------------------------------
(* The inductive strengthening.                                               *)

PageTypeOK ==
    /\ tab \in Tab
    /\ asked \in 0 .. MaxAsks
    /\ away \in SUBSET (1 .. asked) /\ replays \in SUBSET (1 .. asked)
    /\ replays # {} => tab = "sessions"
    /\ box \in [Boxes(tab) -> 0 .. MaxAsks + 2]
    /\ crossed \in BOOLEAN

\* A box that waits has a request of its own on its way.
WaitsForRequest ==
    \A b \in Boxes(tab) \ Abandoned : box[b] = Waiting =>
        \/ b \in loader[tab].waits /\ away \ replays # {}
        \/ b = "replay" /\ away \cap replays # {}

IsLastAsked(r) == r \in (1 .. asked) \ replays /\ \A q \in (1 .. asked) \ replays : q <= r

\* Until two requests cross, the one away is the last, and so is what is shown.
NoneOlder ==
    /\ away \subseteq {asked}
    /\ \A b \in Boxes(tab) \ Abandoned :
          box[b] \in {Blank, Waiting, Error} \cup replays \/ IsLastAsked(box[b])

ShowsLast == crossed \/ NoneOlder

PageInv == PageTypeOK /\ WaitsForRequest /\ ShowsLast
=============================================================================
