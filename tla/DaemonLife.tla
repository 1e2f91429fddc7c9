----------------------------- MODULE DaemonLife ------------------------------
(* The daemon of one workspace over its life: who starts it, the pid-file     *)
(* handshake it makes at boot, the socket it takes, and the files a shutdown  *)
(* removes. Every process touches the same three files, and each file         *)
(* operation is a step of its own, so any other process may come between two  *)
(* of them.                                                                   *)
(*                                                                            *)
(* Each file is modelled by the daemon it stands for: pidFile by the process  *)
(* it names, sockFile by the listener behind the socket path, portFile by the *)
(* daemon whose HTTP port it holds.                                           *)
EXTENDS Naturals, FiniteSets

CONSTANTS
    Daemon,       \* processes that may become a daemon, by pid
    Session,      \* SessionStart hooks (spawn-daemon.mjs)
    Start,        \* invocations of `siftcoder start`
    Check,        \* invocations of `siftcoder check`
    NoDaemon,     \* no such file
    MaxFaults,    \* bound: crashes, failed boots and pids reused by strangers
    MaxStops      \* bound: signals and shutdown requests

ASSUME DaemonsAssumption == NoDaemon \notin Daemon
ASSUME LaunchersAssumption ==
    Session \cap Start = {} /\ Session \cap Check = {} /\ Start \cap Check = {}

VARIABLES
    pidFile, sockFile, portFile,
    phase,        \* where each daemon process is in main() or shutdown()
    stopping,     \* daemons told to stop by the shutdown request
    reused,       \* dead daemons whose pid another program now has
    launcher,     \* where each hook or command is
    child,        \* the process each launcher spawned
    faults, stops,
    raced         \* history: the handshake was passed in one of the ways it misses

files == <<pidFile, sockFile, portFile>>
bounds == <<faults, stops>>
life == <<files, phase, stopping, reused, launcher, child, bounds, raced>>

Launcher == Session \cup Start \cup Check

\* The phases of a daemon that has passed its handshake, in order.
Claimed == {"open", "unlinkSock", "bind", "bound", "up",
            "close", "rmPid", "rmSock", "rmPort"}
Booting == {"look", "read", "unlinkPid", "claim"}
Phase == {"unborn", "dead"} \cup Booting \cup Claimed

\* Daemons that answer on a listening socket, reachable by its path or not.
Servers == {d \in Daemon : phase[d] \in {"bound", "up", "close"}}

\* process.kill(pid, 0): the daemon lives, or its pid belongs to a stranger.
isPidAlive(d) == phase[d] \notin {"unborn", "dead"} \/ d \in reused

\* A client that connects to the socket path is answered.
Reachable == sockFile \in Servers

DaemonInit ==
    /\ pidFile = NoDaemon /\ sockFile = NoDaemon /\ portFile = NoDaemon
    /\ phase = [d \in Daemon |-> "unborn"]
    /\ stopping = {} /\ reused = {}
    /\ launcher = [l \in Launcher |-> "ready"]
    /\ child = [l \in Launcher |-> NoDaemon]
    /\ faults = 0 /\ stops = 0
    /\ raced = FALSE

-----------------------------------------------------------------------------
(* main() of the daemon.                                                      *)

Move(d, from, to) == phase[d] = from /\ phase' = [phase EXCEPT ![d] = to]

\* What a boot step leaves alone.
Boot == UNCHANGED <<stopping, reused, launcher, child, bounds>>

\* History: another daemon has read the pid file and not yet written it.
Overlaps(d) == \E e \in Daemon \ {d} : phase[e] \in {"unlinkPid", "claim"}

\* History: another daemon owns the workspace.
Owned(d) == \E e \in Daemon \ {d} : phase[e] \in Claimed

\* existsSync(paths.pid)
LookForPid(d) ==
    /\ Move(d, "look", IF pidFile = NoDaemon THEN "claim" ELSE "read")
    /\ UNCHANGED <<files, raced>> /\ Boot

\* Mutant: a pid file is taken for stale without asking whether it is.
ReadNoProbe(d) ==
    /\ Move(d, "read", "unlinkPid")
    /\ UNCHANGED <<files, raced>> /\ Boot

\* Mutant: the daemon that refuses to start cleans up as shutdown() does.
ReadAndCleanUp(d) ==
    LET refuse == pidFile \in Daemon \ {d} /\ isPidAlive(pidFile) IN
    /\ Move(d, "read", IF refuse THEN "dead" ELSE "unlinkPid")
    /\ sockFile' = IF refuse THEN NoDaemon ELSE sockFile
    /\ UNCHANGED <<pidFile, portFile, raced>> /\ Boot

\* Mutant: the daemon takes the file its launcher stamped for another's.
ReadNoSelf(d) ==
    /\ Move(d, "read",
            IF pidFile # NoDaemon /\ isPidAlive(pidFile) THEN "dead" ELSE "unlinkPid")
    /\ UNCHANGED <<files, raced>> /\ Boot

\* The file's daemon is alive and another process: refuse to start. A file
\* that vanished, or names a dead process, falls through to the unlink.
ReadPid(d) ==
    /\ Move(d, "read",
            IF pidFile \in Daemon \ {d} /\ isPidAlive(pidFile)
            THEN "dead" ELSE "unlinkPid")
    /\ UNCHANGED <<files, raced>> /\ Boot

UnlinkPid(d) ==
    /\ Move(d, "unlinkPid", "claim")
    /\ pidFile' = NoDaemon
    /\ UNCHANGED <<sockFile, portFile, raced>> /\ Boot

ClaimPid(d) ==
    /\ Move(d, "claim", "open")
    /\ pidFile' = d
    /\ raced' = (raced \/ Overlaps(d))
    /\ UNCHANGED <<sockFile, portFile>> /\ Boot

\* openStorage, the embedder, Storage.init, the replay of the log and the
\* choice of a backend; any of them may throw, and main().catch only exits.
OpenStore(d) ==
    /\ Move(d, "open", "unlinkSock")
    /\ UNCHANGED <<files, raced>> /\ Boot

FailBoot(d) ==
    /\ faults < MaxFaults
    /\ Move(d, "open", "dead")
    /\ faults' = faults + 1
    /\ UNCHANGED <<files, stopping, reused, launcher, child, stops, raced>>

\* startServer removes whatever file is at the socket path ...
UnlinkSocket(d) ==
    /\ Move(d, "unlinkSock", "bind")
    /\ sockFile' = NoDaemon
    /\ UNCHANGED <<pidFile, portFile, raced>> /\ Boot

\* ... and listens there. A file that came back in between is EADDRINUSE,
\* which nothing handles yet: the process dies.
Bind(d) ==
    /\ IF sockFile = NoDaemon
       THEN Move(d, "bind", "bound") /\ sockFile' = d
       ELSE Move(d, "bind", "dead") /\ UNCHANGED sockFile
    /\ UNCHANGED <<pidFile, portFile, raced>> /\ Boot

\* The HTTP bridge writes its port; the signal handlers are installed last.
FinishBoot(d) ==
    /\ Move(d, "bound", "up")
    /\ portFile' = d
    /\ UNCHANGED <<pidFile, sockFile, raced>> /\ Boot

-----------------------------------------------------------------------------
(* shutdown(): it removes the files by name, whoever they belong to by then.  *)

\* What a step of shutdown() leaves alone.
Shut == UNCHANGED <<stopping, reused, launcher, child, bounds, raced>>

\* The idle timer: the shutdown request was answered some time before.
IdleTick(d) ==
    /\ d \in stopping
    /\ Move(d, "up", "close")
    /\ UNCHANGED files /\ Shut

\* server.close() stops the listener and removes its path.
CloseServer(d) ==
    /\ Move(d, "close", "rmPid")
    /\ sockFile' = NoDaemon
    /\ UNCHANGED <<pidFile, portFile>> /\ Shut

RemovePid(d) ==
    /\ Move(d, "rmPid", "rmSock")
    /\ pidFile' = NoDaemon
    /\ UNCHANGED <<sockFile, portFile>> /\ Shut

RemoveSocket(d) ==
    /\ Move(d, "rmSock", "rmPort")
    /\ sockFile' = NoDaemon
    /\ UNCHANGED <<pidFile, portFile>> /\ Shut

RemovePort(d) ==
    /\ Move(d, "rmPort", "dead")
    /\ portFile' = NoDaemon
    /\ UNCHANGED <<pidFile, sockFile>> /\ Shut

-----------------------------------------------------------------------------
(* The SessionStart hook.                                                     *)

Go(l, from, to) == launcher[l] = from /\ launcher' = [launcher EXCEPT ![l] = to]

\* What a launcher's step that changes no file and spawns nothing leaves alone.
Launch == UNCHANGED <<files, phase, stopping, reused, child, bounds, raced>>

HookLook(s) ==
    /\ Go(s, "ready", IF pidFile = NoDaemon THEN "spawn" ELSE "probe")
    /\ Launch

\* The file is read outside any try: one that vanished ends the hook.
HookProbe(s) ==
    /\ Go(s, "probe",
          IF pidFile = NoDaemon \/ (isPidAlive(pidFile) /\ sockFile # NoDaemon)
          THEN "done" ELSE "spawn")
    /\ Launch

\* spawn(): the next pid; which one the machine gives makes no difference.
SpawnBy(l, next) ==
    LET d == CHOOSE u \in Daemon : phase[u] = "unborn" IN
    /\ \E u \in Daemon : phase[u] = "unborn"
    /\ Go(l, "spawn", next)
    /\ Move(d, "unborn", "look")
    /\ child' = [child EXCEPT ![l] = d]
    /\ UNCHANGED <<files, stopping, reused, bounds, raced>>

HookSpawn(s) == SpawnBy(s, "wait")

\* waitForSocket: the file appears, or two seconds pass.
HookWait(s) == Go(s, "wait", "done") /\ Launch

-----------------------------------------------------------------------------
(* The commands.                                                              *)

\* `check` pings first and is content with an answer; `start` does not ask.
CliBegin(c) ==
    /\ Go(c, "ready", IF c \in Check /\ Reachable THEN "done" ELSE "spawn")
    /\ Launch

CliSpawn(c) == SpawnBy(c, "stamp")

\* Both write the pid of the process they spawned, whatever the file held.
StampPid(c) ==
    /\ Go(c, "stamp", "done")
    /\ pidFile' = child[c]
    /\ raced' = (raced \/ Owned(child[c]))
    /\ UNCHANGED <<sockFile, portFile, phase, stopping, reused, child, bounds>>

\* SIGTERM: shutdown() once its handlers are there, the default action before.
\* The other phases are inside shutdown(), which runs to its end.
Terminated(p) ==
    IF p = "up" THEN "close"
    ELSE IF p \in Booting \cup {"open", "unlinkSock", "bind", "bound"} THEN "dead"
    ELSE p

\* `siftcoder stop`: the process the pid file names, be it who it may.
Stop ==
    /\ stops < MaxStops /\ pidFile # NoDaemon /\ isPidAlive(pidFile)
    /\ stops' = stops + 1
    /\ phase' = [phase EXCEPT ![pidFile] = Terminated(@)]
    /\ reused' = reused \ {pidFile}
    /\ UNCHANGED <<files, stopping, launcher, child, faults, raced>>

\* The shutdown request: onShutdown only sets a flag.
RequestShutdown ==
    /\ stops < MaxStops /\ Reachable /\ phase[sockFile] = "up"
    /\ stops' = stops + 1
    /\ stopping' = stopping \cup {sockFile}
    /\ UNCHANGED <<files, phase, reused, launcher, child, faults, raced>>

-----------------------------------------------------------------------------
(* What the machine does to a daemon.                                         *)

\* kill -9, an uncaught exception or a power cut: every file stays.
Crash(d) ==
    /\ faults < MaxFaults /\ phase[d] \notin {"unborn", "dead"}
    /\ faults' = faults + 1
    /\ phase' = [phase EXCEPT ![d] = "dead"]
    /\ UNCHANGED <<files, stopping, reused, launcher, child, stops, raced>>

\* After a reboot the numbers start again: a stranger gets the pid.
ReusePid(d) ==
    /\ faults < MaxFaults /\ phase[d] = "dead" /\ d \notin reused
    /\ faults' = faults + 1
    /\ reused' = reused \cup {d}
    /\ UNCHANGED <<files, phase, stopping, launcher, child, stops, raced>>

-----------------------------------------------------------------------------
DaemonStep(d) ==
    \/ LookForPid(d) \/ ReadPid(d) \/ UnlinkPid(d) \/ ClaimPid(d)
    \/ OpenStore(d) \/ UnlinkSocket(d) \/ Bind(d) \/ FinishBoot(d)
    \/ IdleTick(d) \/ CloseServer(d) \/ RemovePid(d) \/ RemoveSocket(d)
    \/ RemovePort(d)

HookStep(s) == HookLook(s) \/ HookProbe(s) \/ HookSpawn(s) \/ HookWait(s)
CommandStep(c) == CliBegin(c) \/ CliSpawn(c) \/ StampPid(c)

DaemonNext ==
    \/ \E d \in Daemon : DaemonStep(d) \/ FailBoot(d) \/ Crash(d) \/ ReusePid(d)
    \/ \E s \in Session : HookStep(s)
    \/ \E c \in Start \cup Check : CommandStep(c)
    \/ Stop \/ RequestShutdown

\* A process that can run runs; nobody is obliged to crash or to type stop.
DaemonFair ==
    /\ \A d \in Daemon : WF_life(DaemonStep(d))
    /\ \A s \in Session : WF_life(HookStep(s))
    /\ \A c \in Start \cup Check : WF_life(CommandStep(c))

DaemonSpec == DaemonInit /\ [][DaemonNext]_life /\ DaemonFair

-----------------------------------------------------------------------------
(* Properties.                                                                *)

\* The handshake of index.ts lets a second server up in two ways only: two
\* daemons read the pid file before either wrote it, or a command stamped it
\* with its child while another daemon owned the workspace. Crashes at any
\* point, stale files, strangers with an old pid and stops never do.
SecondServerNeedsRace == Cardinality(Servers) <= 1 \/ raced

\* A server the socket path does not lead to is the trace of such a race, or
\* of a shutdown that removed its successor's socket.
OrphanNeedsRaceOrStop == \A d \in Servers : sockFile = d \/ raced \/ stops > 0

\* However hooks and commands interleave, when no process crashes, fails to
\* boot or is told to stop, a hook that spawned a daemon ends with a daemon
\* that answers at the socket path, even when several raced for it.
SpawnEndsReachable ==
    \A s \in Session :
        <>[](launcher[s] \in {"wait", "done"} => Reachable \/ faults > 0 \/ stops > 0)

\* index.ts: "If a previous daemon for THIS workspace is still alive, refuse to
\* start a second one rather than racing on the same SQLite file."
OneServer == Cardinality(Servers) <= 1

-----------------------------------------------------------------------------
(* The inductive strengthening of the two.                                    *)

DaemonTypeOK ==
    /\ pidFile \in Daemon \cup {NoDaemon}
    /\ sockFile \in Daemon \cup {NoDaemon}
    /\ phase \in [Daemon -> Phase]
    /\ child \in [Launcher -> Daemon \cup {NoDaemon}]
    /\ stops \in Nat

\* The daemons whose pid file nobody may take: from the claim to its removal.
Holders == {d \in Daemon :
    phase[d] \in {"open", "unlinkSock", "bind", "bound", "up", "close", "rmPid"}}

\* The file names the holder, and nobody has taken it for stale.
HolderIsNamed ==
    \A d \in Holders : pidFile = d /\ ~Overlaps(d)

\* Until something is stopped nobody is in shutdown().
NobodyStops ==
    /\ stopping = {}
    /\ \A d \in Daemon : phase[d] \notin {"close", "rmPid", "rmSock", "rmPort"}

\* A listener keeps its path.
ListenerIsNamed == \A d \in Daemon : phase[d] \in {"bound", "up"} => sockFile = d

DaemonInv ==
    /\ DaemonTypeOK
    /\ ~raced => HolderIsNamed
    /\ stops = 0 => NobodyStops
    /\ ~raced /\ stops = 0 => ListenerIsNamed
=============================================================================
