------------------------------ MODULE Commands -------------------------------
(* One command of the command line: the requests it sends to the daemon and   *)
(* what it makes of each result: print it, do the work itself on the          *)
(* database, or give up. The daemon may be down, come up, or go down while a  *)
(* request is in its hands, and a handler whose client gave up runs on.       *)
EXTENDS Naturals, Sequences, FiniteSets

CONSTANTS
    MaxTurns      \* bound: the daemon goes up or down

VARIABLES
    command,
    nth,          \* the place in its list of requests
    stage,        \* "idle", "sent", "local" or how it ended
    daemonUp, turns,
    inside,       \* the requests whose handlers run in the daemon
    done,         \* the places of the requests the daemon carried out
    localRuns     \* times the command did the work itself

commands == <<command, nth, stage, daemonUp, turns, inside, done, localRuns>>

-----------------------------------------------------------------------------
(* The commands by what they do with a request that fails.                    *)

\* Refused: the same storage call, locally. Anything else is thrown.
CurationCommands == {"prune", "retry", "pin", "unpin", "pinned"}
HygieneCommands == {"compact", "patterns", "sessions"}
DigestCommands == {"session-digest", "auto-pin-patterns"}
ReportCommands == {"savings", "stats"}
ImportCommands == {"import"}
SymbolCommands == {"symbol-search"}
CaptureCommands == {"capture"}
WithFallback == CurationCommands \cup HygieneCommands \cup DigestCommands
                \cup ReportCommands \cup ImportCommands \cup SymbolCommands
                \cup CaptureCommands

\* The same, and an answer that is not ok counts as none.
CheckedCommands == {"doctor", "export"}

\* Whatever the failure, the database answers.
ListCommands == {"list"}
StatusCommands == {"status"}
InfoCommands == {"info"}
ProbeCommands == ListCommands \cup StatusCommands \cup InfoCommands

\* Refused: exit 1. An answer in error is printed.
FederatedCommands == {"federate-search"}
DashboardCommands == {"dashboard"}
ContextCommands == {"context-budget"}
SearchCommands == {"search"}
MaintenanceCommands == {"maintenance"}
DaemonCommands == FederatedCommands \cup DashboardCommands \cup ContextCommands
                  \cup SearchCommands \cup MaintenanceCommands

\* No try: every failure is thrown.
GraphCommands == {"graph-subgraph", "graph-path", "graph-hubs"}
BackfillCommands == {"backfill"}
BareCommands == GraphCommands \cup BackfillCommands

\* A failure is reported and `watch' goes on; `stream-search' reads its frames itself.
WatchCommands == {"watch"}
StreamCommands == {"stream-search"}

DrainCommands == {"drain"}

Command == WithFallback \cup CheckedCommands \cup ProbeCommands \cup DaemonCommands
           \cup BareCommands \cup WatchCommands \cup StreamCommands \cup DrainCommands

\* The commands a second run of which is not harmless: it writes a row again,
\* or counts and pins what the first run has just changed.
Writing == {"capture", "import", "retry", "prune", "auto-pin-patterns", "drain"}

\* The requests of a command, in order.
Requests(c) ==
    IF c = "drain" THEN <<"ping", "drain">>
    ELSE IF c = "info" THEN <<"status", "status">>
    ELSE IF c = "maintenance" THEN <<"sweep_expired", "compact", "auto_pin_patterns">>
    ELSE IF c = "watch" THEN <<"stats", "doctor">>
    ELSE <<c>>

Work(c) == Len(Requests(c))

-----------------------------------------------------------------------------
CommandInit ==
    /\ command \in Command
    /\ nth = 1 /\ stage = "idle"
    /\ daemonUp \in BOOLEAN /\ turns = 0
    /\ inside = {} /\ done = {} /\ localRuns = 0

\* rpc: the socket takes the request or there is no one behind it.
Request ==
    /\ stage = "idle" /\ nth <= Work(command)
    /\ IF daemonUp THEN stage' = "sent" /\ inside' = inside \cup {nth}
                   ELSE stage' = "refused" /\ UNCHANGED inside
    /\ UNCHANGED <<command, nth, daemonUp, turns, done, localRuns>>

\* The handler runs to its end, be there a client or not.
Handle(i) ==
    /\ i \in inside /\ i \notin done /\ daemonUp
    /\ done' = done \cup {i}
    /\ UNCHANGED <<command, nth, stage, daemonUp, turns, inside, localRuns>>

\* The answer: ok once the work is done, or an error before or after it.
Reply(res) ==
    /\ stage = "sent" /\ daemonUp
    /\ res = "ok" => nth \in done
    /\ stage' = res
    /\ inside' = IF res = "ok" THEN inside ELSE inside \ {nth}
    /\ UNCHANGED <<command, nth, daemonUp, turns, done, localRuns>>

\* The timer of rpc: the handler does not hear of it.
GiveUpWaiting ==
    /\ stage = "sent"
    /\ stage' = "timeout"
    /\ UNCHANGED <<command, nth, daemonUp, turns, inside, done, localRuns>>

\* The connection ends without an answer: a short response, or a reset.
CutOff ==
    /\ stage = "sent" /\ ~daemonUp
    /\ stage' = "cut"
    /\ UNCHANGED <<command, nth, daemonUp, turns, inside, done, localRuns>>

\* The daemon starts, or exits with the handlers it was running.
DaemonTurns ==
    /\ turns < MaxTurns
    /\ turns' = turns + 1
    /\ daemonUp' = ~daemonUp
    /\ inside' = {}
    /\ UNCHANGED <<command, nth, stage, done, localRuns>>

-----------------------------------------------------------------------------
(* What the command does with a result.                                       *)

Results == {"ok", "error", "refused", "timeout", "cut"}

\* Mutant: the word timeout joins the list of reasons to work locally.
FallsBackOnTimeout(c, res) == res \in {"refused", "timeout"}

\* The catch blocks: e.message names ENOENT or ECONNREFUSED, and for `drain' a
\* timeout, its own or one that the error frame quotes.
FallsBack(c, res) ==
    \/ c \in WithFallback /\ res = "refused"
    \/ c \in CheckedCommands /\ res \in {"refused", "error"}
    \/ c \in ProbeCommands /\ res # "ok"
    \/ c = "drain" /\ res \in {"refused", "timeout", "error"}

FallBack ==
    /\ stage \in Results /\ FallsBack(command, stage)
    /\ stage' = "local"
    /\ UNCHANGED <<command, nth, daemonUp, turns, inside, done, localRuns>>

\* The next request of the command, or the end of it. `maintenance' prints
\* 'err' for a part that failed and goes on; a turn of `watch' ends quietly.
Proceed ==
    /\ \/ stage = "ok"
       \/ stage = "error" /\ command = "maintenance"
       \/ stage \in Results /\ command = "watch"
    /\ IF nth < Work(command) /\ (command = "watch" => stage = "ok")
       THEN nth' = nth + 1 /\ stage' = "idle"
       ELSE nth' = nth /\ stage' = "printed"
    /\ UNCHANGED <<command, daemonUp, turns, inside, done, localRuns>>

\* An error frame is printed as any answer is; `search' does without.
PrintError ==
    /\ stage = "error" /\ ~FallsBack(command, stage)
    /\ command \notin {"maintenance", "watch", "drain"}
    /\ stage' = IF command = "search" THEN "failed" ELSE "printed"
    /\ UNCHANGED <<command, nth, daemonUp, turns, inside, done, localRuns>>

\* The command throws, or says it needs the daemon, and exits with 1. `drain'
\* throws the error of the frame when it quotes none of its reasons.
Fail ==
    /\ \/ stage \in {"refused", "timeout", "cut"} /\ ~FallsBack(command, stage)
       \/ stage = "error" /\ command = "drain" /\ nth = 2
    /\ command # "watch"
    /\ stage' = "failed"
    /\ UNCHANGED <<command, nth, daemonUp, turns, inside, done, localRuns>>

\* openStorage and the storage call of the same name.
WorkLocally(fails) ==
    /\ stage = "local"
    /\ localRuns' = localRuns + 1
    /\ stage' = IF fails THEN "failed" ELSE "printed"
    /\ UNCHANGED <<command, nth, daemonUp, turns, inside, done>>

CommandNext ==
    \/ Request \/ GiveUpWaiting \/ CutOff \/ DaemonTurns
    \/ \E i \in inside : Handle(i)
    \/ \E res \in {"ok", "error"} : Reply(res)
    \/ FallBack \/ Proceed \/ PrintError \/ Fail
    \/ \E fails \in BOOLEAN : WorkLocally(fails)

CommandSpec == CommandInit /\ [][CommandNext]_commands

-----------------------------------------------------------------------------
(* Properties.                                                                *)

\* The daemon and the command never both do the work of a command that is not
\* safe to do twice, however the daemon comes, goes or dawdles. `drain' is the
\* one that may, and claims keep its two runs apart (DrainWorkers).
AtMostOneExecutor ==
    command \in Writing \ {"drain"} => Cardinality(done) + localRuns <= 1

-----------------------------------------------------------------------------
(* The inductive strengthening.                                               *)

CommandTypeOK ==
    /\ command \in Command /\ nth \in Nat /\ turns \in Nat /\ localRuns \in Nat
    /\ stage \in Results \cup {"idle", "sent", "local", "printed", "failed"}
    /\ daemonUp \in BOOLEAN
    /\ inside \in SUBSET Nat /\ done \in SUBSET Nat

\* A writing command has one request. What is refused has not reached a
\* handler, and only that is done locally, once.
DoneInOnePlace ==
    command \in Writing \ {"drain"} =>
        /\ nth = 1 /\ inside \subseteq {1} /\ done \subseteq {1}
        /\ stage \in {"idle", "refused", "local"} => inside = {} /\ done = {} /\ localRuns = 0
        /\ localRuns # 0 => /\ localRuns = 1 /\ inside = {} /\ done = {}
                           /\ stage \in {"printed", "failed"}

CommandInv == CommandTypeOK /\ DoneInOnePlace
=============================================================================
