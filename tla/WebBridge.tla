------------------------------ MODULE WebBridge ------------------------------
(* The HTTP bridges of several workspaces' daemons, which share one token     *)
(* file and one machine's ports: the first boot, the search for a port, the   *)
(* port files, a rotation of the token, crashes, and one caller who looks up  *)
(* the port and the token of its workspace and sends a request there.         *)
EXTENDS Naturals, FiniteSets

CONSTANTS
    Workspace,
    Ports,        \* bound: the dynamic range is 0 .. Ports - 1; Ports is no port
    derived,      \* chooseStablePort: a port for each workspace
    pinnedPort,   \* the workspaces whose SIFTCODER_HTTP_PORT names their port
    MaxRetries,   \* MAX_RETRIES
    MaxBoots,     \* bound: boots of all daemons
    MaxTokens     \* bound: tokens made

ASSUME PortAssumption == Ports \in Nat \ {0} /\ derived \in [Workspace -> 0 .. Ports - 1]

VARIABLES
    file,         \* auth.token: 0 is no file, 1 an empty one, then the tokens
    tokens,       \* the number of the last token made
    bridge,       \* where each daemon's bridge is
    held,         \* the token each bridge compares with
    candidate, retries,
    owner,        \* who listens on each port: a workspace, Free or Stranger
    portFile,     \* http.port of each workspace
    boots,
    rotating,     \* the command line has emptied the file and not yet written
    caller        \* the caller's request: step, port, token, and the answer

web == <<file, tokens, bridge, held, candidate, retries, owner, portFile, boots,
         rotating, caller>>

Free == "free"
Stranger == "stranger"
ASSUME WorkspaceAssumption == Workspace # {} /\ Free \notin Workspace /\ Stranger \notin Workspace
NoPort == Ports
NoFile == 0
Empty == 1

\* History, for the properties alone: see the end.
VARIABLES crashed, uncertain, stopped
histories == <<crashed, uncertain, stopped>>

-----------------------------------------------------------------------------
WebInit ==
    /\ file = NoFile /\ tokens = Empty
    /\ bridge = [w \in Workspace |-> "down"]
    /\ held = [w \in Workspace |-> NoFile]
    /\ candidate = derived
    /\ retries = [w \in Workspace |-> 0]
    /\ owner \in [0 .. Ports - 1 -> {Free, Stranger}]
    /\ portFile = [w \in Workspace |-> NoPort]
    /\ boots = 0 /\ rotating = FALSE
    /\ caller = [step |-> "idle", of |-> CHOOSE w \in Workspace : TRUE, port |-> NoPort,
                 token |-> NoFile, from |-> Free, status |-> 0]
    /\ crashed = {} /\ uncertain = FALSE /\ stopped = FALSE

At(w, step) == bridge' = [bridge EXCEPT ![w] = step]

(* ensureAuthToken: look, then make or read.                                  *)
LookForToken(w) ==
    /\ bridge[w] = "down" /\ boots < MaxBoots
    /\ boots' = boots + 1
    /\ At(w, IF file = NoFile THEN "open" ELSE "read")
    /\ UNCHANGED <<file, tokens, held, candidate, retries, owner, portFile, rotating,
                   caller, histories>>

ReadToken(w) ==
    /\ bridge[w] = "read"
    /\ held' = [held EXCEPT ![w] = file]
    /\ uncertain' = (uncertain \/ file = Empty)
    /\ At(w, "bind")
    /\ UNCHANGED <<file, tokens, candidate, retries, owner, portFile, boots, rotating,
                   caller, crashed, stopped>>

\* writeFileSync empties the file and writes it.
OpenToken(w) ==
    /\ bridge[w] = "open" /\ tokens < MaxTokens
    /\ uncertain' = (uncertain \/ file # NoFile)
    /\ file' = Empty
    /\ At(w, "write")
    /\ UNCHANGED <<tokens, held, candidate, retries, owner, portFile, boots, rotating,
                   caller, crashed, stopped>>

\* Mutant: the token in the file and the one in memory are made by two calls.
WriteTokenTwice(w) ==
    /\ bridge[w] = "write"
    /\ tokens' = tokens + 2
    /\ file' = tokens + 1
    /\ held' = [held EXCEPT ![w] = tokens + 2]
    /\ At(w, "bind")
    /\ UNCHANGED <<candidate, retries, owner, portFile, boots, rotating, caller, histories>>

WriteToken(w) ==
    /\ bridge[w] = "write"
    /\ tokens' = tokens + 1
    /\ file' = tokens'
    /\ held' = [held EXCEPT ![w] = tokens']
    /\ At(w, "bind")
    /\ UNCHANGED <<candidate, retries, owner, portFile, boots, rotating, caller, histories>>

(* The search for a port.                                                     *)
next(p) == IF p = Ports - 1 THEN 0 ELSE p + 1

\* 'listening': the port is written for the command line to find.
Listen(w, p) ==
    /\ owner' = [owner EXCEPT ![p] = w]
    /\ portFile' = [portFile EXCEPT ![w] = p]
    /\ At(w, "up")

BindFree(w) ==
    /\ bridge[w] = "bind" /\ owner[candidate[w]] = Free
    /\ Listen(w, candidate[w])
    /\ UNCHANGED <<file, tokens, held, candidate, retries, boots, rotating, caller, histories>>

\* EADDRINUSE: the next port of the range; a port that was asked for by name,
\* and a search that has gone on too long, leave it to the system.
BindTaken(w) ==
    /\ bridge[w] = "bind" /\ owner[candidate[w]] # Free
    /\ IF w \in pinnedPort \/ retries[w] >= MaxRetries
       THEN At(w, "any") /\ UNCHANGED <<candidate, retries>>
       ELSE /\ retries' = [retries EXCEPT ![w] = @ + 1]
            /\ candidate' = [candidate EXCEPT ![w] = next(@)]
            /\ UNCHANGED bridge
    /\ UNCHANGED <<file, tokens, held, owner, portFile, boots, rotating, caller, histories>>

\* listen(0): the system gives a free port.
BindAny(w) ==
    /\ bridge[w] = "any"
    /\ \E p \in 0 .. Ports - 1 : owner[p] = Free /\ Listen(w, p)
    /\ UNCHANGED <<file, tokens, held, candidate, retries, boots, rotating, caller, histories>>

\* Any other error of listen is ignored: the daemon runs on without a bridge.
BindFails(w) ==
    /\ bridge[w] \in {"bind", "any"}
    /\ At(w, "deaf")
    /\ UNCHANGED <<file, tokens, held, candidate, retries, owner, portFile, boots, rotating,
                   caller, histories>>

Released(w) == [p \in DOMAIN owner |-> IF owner[p] = w THEN Free ELSE owner[p]]
Ends(w) ==
    /\ bridge[w] # "down"
    /\ At(w, "down")
    /\ owner' = Released(w)
    /\ candidate' = [candidate EXCEPT ![w] = derived[w]]
    /\ retries' = [retries EXCEPT ![w] = 0]
    /\ UNCHANGED <<file, tokens, held, boots, rotating, caller>>

(* shutdown: the server closes, and some statements later http.port goes; other *)
(* processes run in between. The boot is past its synchronous steps, so no      *)
(* token is half written.                                                       *)
StopCloses(w) ==
    /\ bridge[w] \in {"bind", "any", "deaf", "up"}
    /\ At(w, "closing")
    /\ owner' = Released(w)
    /\ stopped' = (stopped \/ (caller.step = "looked" /\ caller.of = w))
    /\ UNCHANGED <<file, tokens, held, candidate, retries, portFile, boots, rotating, caller,
                   crashed, uncertain>>

\* Mutant: a stop leaves http.port.
StopKeepsPort(w) == bridge[w] = "closing" /\ Ends(w) /\ UNCHANGED <<portFile, histories>>

StopRemoves(w) ==
    /\ bridge[w] = "closing"
    /\ Ends(w)
    /\ portFile' = [portFile EXCEPT ![w] = NoPort]
    /\ UNCHANGED histories

\* A crash leaves http.port, and the token file as the boot left it.
CrashDaemon(w) ==
    /\ Ends(w)
    /\ crashed' = crashed \cup {w}
    /\ uncertain' = (uncertain \/ bridge[w] = "write")
    /\ UNCHANGED <<portFile, stopped>>

\* siftcoder auth-token --rotate: no daemon hears of it.
RotateOpens ==
    /\ ~rotating /\ tokens < MaxTokens /\ file # NoFile
    /\ rotating' = TRUE /\ file' = Empty /\ uncertain' = TRUE
    /\ UNCHANGED <<tokens, bridge, held, candidate, retries, owner, portFile, boots, caller,
                   crashed, stopped>>

RotateWrites ==
    /\ rotating
    /\ rotating' = FALSE
    /\ tokens' = tokens + 1 /\ file' = tokens'
    /\ UNCHANGED <<bridge, held, candidate, retries, owner, portFile, boots, caller, histories>>

-----------------------------------------------------------------------------
(* The caller: siftcoder web, siftcoder auth-token, and one request.          *)

LookUp ==
    /\ caller.step = "idle" /\ portFile[caller.of] # NoPort /\ file # NoFile
    /\ caller' = [caller EXCEPT !.step = "looked", !.port = portFile[caller.of], !.token = file]
    /\ stopped' = (stopped \/ bridge[caller.of] = "closing")
    /\ UNCHANGED <<file, tokens, bridge, held, candidate, retries, owner, portFile, boots,
                   rotating, crashed, uncertain>>

\* isAuthorized: an empty token is never right.
Authorized(w, token) == token = held[w] /\ token # Empty

\* The routes of the page and of its callers. Those that need a body, or a time,
\* answer 400 without it.
TableRoutes == {"health", "savings", "events", "summaries"}
QueryRoutes == {"search", "timeline", "get", "why"}
CountRoutes == {"ab", "stats", "doctor", "pinned"}
SessionRoutes == {"symbol-search", "sessions", "thread", "replay", "pin"}
GraphRoutes == {"graph/subgraph", "graph/path", "graph/hubs"}
LateRoutes == {"federate-search", "patterns", "session-digest", "as-of", "unpin"}
ApiRoutes == TableRoutes \cup QueryRoutes \cup CountRoutes \cup SessionRoutes
             \cup GraphRoutes \cup LateRoutes
NeedsNothing == TableRoutes \cup CountRoutes \cup {"sessions", "graph/hubs", "patterns"}

\* What is asked of the bridge: does the query decode, is what the route needs
\* there, does the handler or a storage call throw.
Question == [route : ApiRoutes \cup {"favicon", "asset", "rpc", "elsewhere"},
             decodes : BOOLEAN, sound : BOOLEAN, throws : BOOLEAN]
Silence == 0

\* The answer of an api route. One whose storage call throws gives none.
ApiStatus(ask) ==
    IF ~ask.sound /\ ask.route \notin NeedsNothing THEN 400
    ELSE IF ask.throws THEN Silence
    ELSE 200

\* route's checks, in their order. A query that does not decode ends the request
\* before them, without an answer.
Status(ask, authorized) ==
    IF ~ask.decodes THEN Silence
    ELSE IF ask.route = "favicon" THEN 204
    ELSE IF ask.route = "elsewhere" THEN 404
    ELSE IF ~authorized THEN 401
    ELSE IF ask.route = "asset" THEN (IF ask.sound THEN 200 ELSE 404)
    ELSE ApiStatus(ask)

\* The answers a caller may get, with the right token and without it.
Answers == [known \in BOOLEAN |-> {Status(ask, known) : ask \in Question}]

SendQuestion ==
    /\ caller.step = "looked"
    /\ LET to == owner[caller.port]
       IN  \E status \in IF to \in Workspace THEN Answers[Authorized(to, caller.token)]
                                             ELSE {Silence} :
               caller' = [caller EXCEPT !.step = "done", !.from = to, !.status = status]
    /\ UNCHANGED <<file, tokens, bridge, held, candidate, retries, owner, portFile, boots,
                   rotating, histories>>

WebNext ==
    \/ \E w \in Workspace :
        \/ LookForToken(w) \/ ReadToken(w) \/ OpenToken(w) \/ WriteToken(w)
        \/ BindFree(w) \/ BindTaken(w) \/ BindAny(w) \/ BindFails(w)
        \/ StopCloses(w) \/ StopRemoves(w) \/ CrashDaemon(w)
    \/ RotateOpens \/ RotateWrites
    \/ LookUp \/ SendQuestion

WebSpec == WebInit /\ [][WebNext]_<<web, histories>>

-----------------------------------------------------------------------------
(* Properties. "uncertain": two first boots met, a boot or a rotation left    *)
(* the file empty for a moment another process could see, or a token was      *)
(* rotated. "stopped": the caller's daemon was stopped after the caller       *)
(* looked, or was already closing then.                                       *)

\* A bridge that listens compares with the token of the file, unless one of
\* those happened.
TokenAgrees ==
    \A w \in Workspace : bridge[w] = "up" /\ ~uncertain => held[w] = file

\* A caller that gets another workspace's data has followed a port file that a
\* crash left behind, or one of a daemon stopping as it looked or after.
AnswersOwnWorkspace ==
    caller.status = 200 /\ caller.from # caller.of => caller.of \in crashed \/ stopped

-----------------------------------------------------------------------------
(* The inductive strengthening.                                               *)

Codes == {Silence, 200, 204, 400, 401, 404}

Caller == [step : {"idle", "looked", "done"}, of : Workspace, port : 0 .. Ports, token : Nat,
           from : Workspace \cup {Free, Stranger}, status : Codes]

WebTypeOK ==
    /\ file \in Nat /\ tokens \in Nat /\ boots \in Nat
    /\ bridge \in [Workspace -> {"down", "open", "read", "write", "bind", "any", "deaf", "up", "closing"}]
    /\ held \in [Workspace -> Nat]
    /\ candidate \in [Workspace -> 0 .. Ports - 1]
    /\ retries \in [Workspace -> Nat]
    /\ owner \in [0 .. Ports - 1 -> Workspace \cup {Free, Stranger}]
    /\ portFile \in [Workspace -> 0 .. Ports]
    /\ rotating \in BOOLEAN /\ uncertain \in BOOLEAN /\ stopped \in BOOLEAN
    /\ crashed \in SUBSET Workspace
    /\ caller \in Caller

\* Until it is uncertain: the file is empty only under the hands of the one boot
\* that makes it, and whoever is past the token holds the one in the file.
OneTokenMade ==
    /\ tokens >= Empty
    /\ uncertain \/
        /\ ~rotating
        /\ \A w \in Workspace : bridge[w] = "write" => file = Empty
        /\ file = Empty => \E w \in Workspace : bridge[w] = "write"
        /\ \A w, x \in Workspace : bridge[w] = "write" /\ bridge[x] = "write" => w = x
        /\ \A w \in Workspace : bridge[w] = "read" => file # NoFile
        /\ \A w \in Workspace : bridge[w] \in {"bind", "any", "deaf", "up"} =>
                held[w] = file /\ file > Empty

\* The port file of a daemon that has not crashed names a port it listens on,
\* or has just closed.
PortFileTrue ==
    /\ \A p \in 0 .. Ports - 1 : owner[p] \in Workspace => bridge[owner[p]] = "up"
    /\ \A w \in Workspace \ crashed : portFile[w] # NoPort =>
            \/ bridge[w] = "closing"
            \/ (bridge[w] = "up" /\ owner[portFile[w]] = w)

CallerFollows ==
    /\ caller.step = "looked" =>
            /\ caller.port # NoPort
            /\ \/ owner[caller.port] = caller.of
               \/ caller.of \in crashed \/ stopped
    /\ caller.step = "done" => \/ caller.from = caller.of
                              \/ caller.of \in crashed \/ stopped
    /\ caller.step # "done" => caller.status = Silence

WebInv == WebTypeOK /\ OneTokenMade /\ PortFileTrue /\ CallerFollows
=============================================================================
