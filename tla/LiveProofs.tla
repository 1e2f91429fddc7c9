------------------------------ MODULE LiveProofs ------------------------------
(***************************************************************************)
(* What lives beside the drains, for every number of its actors: daemons,  *)
(* pins, the stdio bridge and the periodic loop.                           *)
(***************************************************************************)
EXTENDS DaemonLife, Wire, Curation, McpBridge, PeriodicLoop, Induction, FiniteSetTheorems, TLAPS

-------------------------------------------------------------------------------
(* Which daemons serve a workspace, for any number of processes, hooks,       *)
(* commands, crashes and stops. DaemonInv is inductive: as long as nobody     *)
(* passed the handshake in one of the ways it misses (~raced), the pid file   *)
(* names the only process beyond its claim, so that a second one that looks   *)
(* finds it alive and refuses (HolderIsNamed); and before any stop, nobody    *)
(* removes the socket of the one that listens.                                *)

LEMMA InitDaemonInv == DaemonInit => DaemonInv
  BY DaemonsAssumption
  DEF DaemonInit, DaemonInv, DaemonTypeOK, HolderIsNamed, Holders, NobodyStops,
      ListenerIsNamed, Phase, Booting, Claimed

\* What one process's move does to the table of phases.
LEMMA Moved ==
  ASSUME DaemonTypeOK, NEW d \in Daemon, NEW from, NEW to \in Phase, Move(d, from, to)
  PROVE  /\ phase' \in [Daemon -> Phase] /\ phase[d] = from /\ phase'[d] = to
         /\ \A e \in Daemon \ {d} : phase'[e] = phase[e]
  BY DEF DaemonTypeOK, Move

\* A process moves before its claim, or is beyond shutdown's first steps: nobody holds more.
LEMMA BeforeClaim ==
  ASSUME DaemonInv, NEW d \in Daemon, NEW from \in {"look", "read", "unlinkPid"},
         NEW to \in {"read", "unlinkPid", "claim", "dead"}, Move(d, from, to),
         UNCHANGED <<sockFile, stopping, child, bounds, raced>>,
         pidFile' \in {pidFile, NoDaemon},
         ~raced /\ (pidFile' # pidFile \/ to \in {"unlinkPid", "claim"}) => Holders = {}
  PROVE  DaemonInv'
<1>1. /\ phase' \in [Daemon -> Phase] /\ phase[d] = from /\ phase'[d] = to
      /\ \A e \in Daemon \ {d} : phase'[e] = phase[e]
  BY Moved DEF DaemonInv, Phase, Booting
<1>2. Holders' = Holders /\ Holders \subseteq Daemon
  BY <1>1 DEF Holders
<1>3. ~raced /\ Holders # {} =>
        pidFile' = pidFile /\ \A e \in Daemon : Overlaps(e)' => Overlaps(e)
  BY <1>1 DEF Overlaps
<1>4. DaemonTypeOK'
  BY <1>1 DEF DaemonInv, DaemonTypeOK, bounds
<1>5. ~raced' => HolderIsNamed'
  BY <1>2, <1>3 DEF DaemonInv, HolderIsNamed
<1>6. stops' = 0 => NobodyStops'
  BY <1>1 DEF DaemonInv, NobodyStops, bounds
<1>7. ~raced' /\ stops' = 0 => ListenerIsNamed'
  BY <1>1 DEF DaemonInv, ListenerIsNamed, bounds
<1> QED
  BY <1>4, <1>5, <1>6, <1>7 DEF DaemonInv

\* A process that looks at the file of a holder finds it alive and refuses to start.
LEMMA LookStep ==
  ASSUME DaemonInv, NEW d \in Daemon, LookForPid(d) \/ ReadPid(d) \/ UnlinkPid(d)
  PROVE  DaemonInv'
<1>1. ~raced => \A h \in Holders :
        /\ h \in Daemon /\ pidFile = h /\ isPidAlive(h) /\ pidFile # NoDaemon
        /\ \A e \in Daemon \ {h} : phase[e] # "unlinkPid"
  BY DaemonsAssumption DEF DaemonInv, HolderIsNamed, Holders, isPidAlive, Overlaps
<1>2. d \in Holders => phase[d] \notin {"look", "read", "unlinkPid"}
  BY DEF Holders
<1>3. UNCHANGED <<sockFile, stopping, child, bounds, raced>>
  BY DEF LookForPid, ReadPid, UnlinkPid, Boot, files
<1>4. CASE LookForPid(d)
  <2>1. PICK to \in {"read", "claim"} : Move(d, "look", to) /\ (to = "claim" <=> pidFile = NoDaemon)
    BY <1>4 DEF LookForPid
  <2>2. pidFile' = pidFile
    BY <1>4 DEF LookForPid, files
  <2>3. ~raced /\ to = "claim" => Holders = {}
    BY <1>1, <2>1
  <2> QED
    BY <1>3, <2>1, <2>2, <2>3, BeforeClaim
<1>5. CASE ReadPid(d)
  <2>1. PICK to \in {"dead", "unlinkPid"} :
          /\ Move(d, "read", to)
          /\ to = "unlinkPid" => ~(pidFile \in Daemon \ {d} /\ isPidAlive(pidFile))
    BY <1>5 DEF ReadPid
  <2>2. phase[d] = "read"
    BY <2>1 DEF Move
  <2>3. ~raced /\ to = "unlinkPid" => Holders = {}
    BY <1>1, <1>2, <2>1, <2>2
  <2> QED
    BY <1>3, <1>5, <2>1, <2>3, BeforeClaim DEF ReadPid, files
<1>6. CASE UnlinkPid(d)
  <2>1. phase[d] = "unlinkPid" /\ Move(d, "unlinkPid", "claim") /\ pidFile' = NoDaemon
    BY <1>6 DEF UnlinkPid, Move
  <2>2. ~raced => Holders = {}
    BY <1>1, <1>2, <2>1
  <2> QED
    BY <1>3, <2>1, <2>2, BeforeClaim
<1> QED
  BY <1>4, <1>5, <1>6

\* The claim: unless another process is about to overwrite it, the claimant alone holds.
LEMMA ClaimStep ==
  ASSUME DaemonInv, NEW d \in Daemon, ClaimPid(d)
  PROVE  DaemonInv'
<1>1. /\ Move(d, "claim", "open") /\ pidFile' = d /\ raced' = (raced \/ Overlaps(d))
      /\ UNCHANGED <<sockFile, stopping, child, stops>>
  BY DEF ClaimPid, Boot, bounds
<1>2. /\ phase' \in [Daemon -> Phase] /\ phase[d] = "claim" /\ phase'[d] = "open"
      /\ \A e \in Daemon \ {d} : phase'[e] = phase[e]
  BY <1>1, Moved DEF DaemonInv, Phase, Claimed
<1>3. DaemonTypeOK'
  BY <1>1, <1>2 DEF DaemonInv, DaemonTypeOK
<1>4. ~raced' => HolderIsNamed'
  <2> SUFFICES ASSUME ~raced', NEW h \in Holders' PROVE pidFile' = h /\ ~Overlaps(h)'
    BY DEF HolderIsNamed
  <2>1. ~raced /\ ~Overlaps(d)
    BY <1>1
  <2>2. h \in Daemon /\ (h # d => h \in Holders)
    BY <1>2 DEF Holders
  <2>3. h = d
    BY <1>2, <2>1, <2>2 DEF DaemonInv, HolderIsNamed, Overlaps
  <2> QED
    BY <1>1, <1>2, <2>1, <2>3 DEF Overlaps
<1>5. /\ stops' = 0 => NobodyStops'
      /\ ~raced' /\ stops' = 0 => ListenerIsNamed'
  BY <1>1, <1>2 DEF DaemonInv, NobodyStops, ListenerIsNamed
<1> QED
  BY <1>3, <1>4, <1>5 DEF DaemonInv

LEMMA ListenStep ==
  ASSUME DaemonInv, NEW d \in Daemon,
         OpenStore(d) \/ UnlinkSocket(d) \/ Bind(d) \/ FinishBoot(d)
  PROVE  DaemonInv'
  BY DaemonsAssumption, SMTT(30)
  DEF DaemonInv, DaemonTypeOK, HolderIsNamed, Holders, NobodyStops, ListenerIsNamed, Overlaps,
      Phase, Booting, Claimed, OpenStore, UnlinkSocket, Bind, FinishBoot, Move, Boot, files, bounds

\* The steps of shutdown() come after a stop.
LEMMA ShutdownStep ==
  ASSUME DaemonInv, NEW d \in Daemon,
         \/ IdleTick(d) \/ CloseServer(d) \/ RemovePid(d) \/ RemoveSocket(d) \/ RemovePort(d)
  PROVE  DaemonInv'
  BY DaemonsAssumption, SMTT(30)
  DEF DaemonInv, DaemonTypeOK, HolderIsNamed, Holders, NobodyStops, ListenerIsNamed, Overlaps,
      Phase, Booting, Claimed, IdleTick, CloseServer, RemovePid, RemoveSocket, RemovePort, Move,
      Shut, files, bounds

\* A process that dies holds nothing any more.
LEMMA FaultStep ==
  ASSUME DaemonInv, NEW d \in Daemon, FailBoot(d) \/ Crash(d) \/ ReusePid(d)
  PROVE  DaemonInv'
  BY DaemonsAssumption, SMTT(30)
  DEF DaemonInv, DaemonTypeOK, HolderIsNamed, Holders, NobodyStops, ListenerIsNamed, Overlaps,
      Phase, Booting, Claimed, FailBoot, Crash, ReusePid, Move, files

LEMMA StopStep ==
  ASSUME DaemonInv, Stop \/ RequestShutdown
  PROVE  DaemonInv'
  BY DaemonsAssumption, SMTT(30)
  DEF DaemonInv, DaemonTypeOK, HolderIsNamed, Holders, NobodyStops, ListenerIsNamed, Overlaps,
      Phase, Booting, Claimed, Stop, RequestShutdown, Terminated, files

\* A hook or a command asks, waits, or gives up.
LEMMA AskStep ==
  ASSUME DaemonInv, Launch
  PROVE  DaemonInv'
  BY DEF DaemonInv, DaemonTypeOK, HolderIsNamed, Holders, NobodyStops, ListenerIsNamed,
         Overlaps, Launch, files, bounds

\* The process a hook or a command starts has everything before it.
LEMMA SpawnStep ==
  ASSUME DaemonInv, NEW l \in Launcher, NEW next, SpawnBy(l, next)
  PROVE  DaemonInv'
<1> DEFINE d == CHOOSE u \in Daemon : phase[u] = "unborn"
<1>1. d \in Daemon /\ phase[d] = "unborn"
  BY DEF SpawnBy
<1>2. /\ phase' = [phase EXCEPT ![d] = "look"] /\ child' = [child EXCEPT ![l] = d]
      /\ UNCHANGED <<files, stopping, reused, bounds, raced>>
  BY DEF SpawnBy, Move
<1> HIDE DEF d
<1> QED
  BY <1>1, <1>2
  DEF DaemonInv, DaemonTypeOK, HolderIsNamed, Holders, NobodyStops, ListenerIsNamed, Overlaps,
      Phase, Booting, Claimed, files, bounds

\* A command that stamps the file with its child finds no other owner, or races.
LEMMA StampStep ==
  ASSUME DaemonInv, NEW c \in Launcher, StampPid(c)
  PROVE  DaemonInv'
<1>1. /\ pidFile' = child[c] /\ raced' = (raced \/ Owned(child[c]))
      /\ UNCHANGED <<sockFile, phase, stopping, child, stops>>
  BY DEF StampPid, bounds
<1>2. DaemonTypeOK'
  BY <1>1 DEF DaemonInv, DaemonTypeOK
<1>3. Holders' = Holders /\ \A d \in Daemon : Overlaps(d)' <=> Overlaps(d)
  BY <1>1 DEF Holders, Overlaps
<1>4. ~raced' => \A d \in Holders : d = child[c]
  BY <1>1 DEF Holders, Owned, Claimed
<1>5. ~raced' => HolderIsNamed'
  BY <1>1, <1>3, <1>4 DEF DaemonInv, HolderIsNamed, Holders
<1>6. /\ stops' = 0 => NobodyStops'
      /\ ~raced' /\ stops' = 0 => ListenerIsNamed'
  BY <1>1 DEF DaemonInv, NobodyStops, ListenerIsNamed
<1> QED
  BY <1>2, <1>5, <1>6 DEF DaemonInv

LEMMA NextDaemonInv == DaemonInv /\ [DaemonNext]_life => DaemonInv'
<1> SUFFICES ASSUME DaemonInv, [DaemonNext]_life PROVE DaemonInv'
  OBVIOUS
<1>1. CASE \E d \in Daemon : DaemonStep(d) \/ FailBoot(d) \/ Crash(d) \/ ReusePid(d)
  BY <1>1, LookStep, ClaimStep, ListenStep, ShutdownStep, FaultStep DEF DaemonStep
<1>2. CASE \E s \in Session : HookStep(s)
  BY <1>2, AskStep, SpawnStep
  DEF HookStep, HookLook, HookProbe, HookSpawn, HookWait, Launcher
<1>3. CASE \E c \in Start \cup Check : CommandStep(c)
  BY <1>3, AskStep, SpawnStep, StampStep DEF CommandStep, CliBegin, CliSpawn, Launcher
<1>4. CASE Stop \/ RequestShutdown
  BY <1>4, StopStep
<1>5. CASE UNCHANGED life
  BY <1>5
  DEF life, files, bounds, DaemonInv, DaemonTypeOK, HolderIsNamed, Holders, NobodyStops,
      ListenerIsNamed, Overlaps
<1> QED
  BY <1>1, <1>2, <1>3, <1>4, <1>5 DEF DaemonNext

\* The invariant of DaemonLife holds in every state, however processes start, crash and stop.
THEOREM HandshakeIsSound == DaemonSpec => []DaemonInv
  BY InitDaemonInv, NextDaemonInv, PTL DEF DaemonSpec

\* index.ts lets a second server up in the two named ways only: crashes, stale files,
\* strangers with an old pid and stops never do.
THEOREM SecondServerIsRaced == DaemonSpec => []SecondServerNeedsRace
<1>1. DaemonInv => SecondServerNeedsRace
  <2> SUFFICES ASSUME DaemonInv, ~raced PROVE Cardinality(Servers) <= 1
    BY DEF SecondServerNeedsRace
  <2>1. Servers \subseteq {pidFile}
    BY DEF DaemonInv, HolderIsNamed, Holders, Servers
  <2>2. Servers = {} \/ Servers = {pidFile}
    BY <2>1
  <2>3. Cardinality({}) = 0 /\ Cardinality({pidFile}) = 1
    BY FS_EmptySet, FS_Singleton
  <2> QED
    BY <2>2, <2>3
<1> QED
  BY <1>1, HandshakeIsSound, PTL

\* A server its socket path does not lead to comes of such a race, or of a stop.
THEOREM OrphanIsRacedOrStopped == DaemonSpec => []OrphanNeedsRaceOrStop
<1>1. DaemonInv => OrphanNeedsRaceOrStop
  BY DEF DaemonInv, DaemonTypeOK, OrphanNeedsRaceOrStop, ListenerIsNamed, NobodyStops, Servers
<1> QED
  BY <1>1, HandshakeIsSound, PTL

-------------------------------------------------------------------------------
(* What a pin is worth, for any number of summaries, pins, prunes and         *)
(* restarts, wherever they come between the consolidator's three reads and    *)
(* its marks. PinInv is inductive: the pairs still to be marked were chosen   *)
(* among unpinned summaries, and whoever pins one of them later is noted in   *)
(* latePins (TodoUnpinned).                                                   *)

LEMMA InitPinInv == CurationInit => PinInv
  BY CurationAssumption
  DEF CurationInit, PinInv, CurationTypeOK, PinProtects, TodoUnpinned, Idle, Older

\* The consolidator counts embeddings, and there are finitely many.
LEMMA Counted == CurationTypeOK => Cardinality(embedded) \in Nat
<1> SUFFICES ASSUME CurationTypeOK PROVE Cardinality(embedded) \in Nat
  OBVIOUS
<1>1. MaxId \in Int /\ 1 \in Int
  BY CurationAssumption
<1>2. IsFiniteSet(Id)
  BY <1>1, FS_Interval DEF Id
<1>3. IsFiniteSet(embedded)
  BY <1>2, FS_Subset DEF CurationTypeOK
<1> QED
  BY <1>3, FS_CardinalityType

\* A pin of a summary that is marked, or about to be, is noted as late.
LEMMA PinStep ==
  ASSUME PinInv, NEW S \in SUBSET rows, PinAll(S)
  PROVE  PinInv'
<1>1. /\ pinned' = pinned \cup S
      /\ latePins' = latePins \cup {i \in S \ pinned : TooLate(i)}
      /\ UNCHANGED <<last, rows, embedded, pairs, con>>
  BY DEF PinAll, Edit
<1>2. CurationTypeOK'
  BY <1>1 DEF PinInv, CurationTypeOK
<1>3. PinProtects'
  BY <1>1 DEF PinInv, PinProtects, TooLate, Older
<1>4. TodoUnpinned'
  BY <1>1 DEF PinInv, TodoUnpinned, TooLate, Older
<1> QED
  BY <1>2, <1>3, <1>4 DEF PinInv

\* What is deleted is neither pinned nor marked any more.
LEMMA DeleteStep ==
  ASSUME PinInv, NEW S, Edit, Delete(S)
  PROVE  PinInv'
<1>1. /\ rows' = rows \ S /\ embedded' = embedded \ S
      /\ pinned' = pinned \ S /\ latePins' = latePins \ S
      /\ pairs' \subseteq pairs /\ UNCHANGED <<last, con>>
  BY DEF Delete, Edit
<1>2. CurationTypeOK'
  BY <1>1 DEF PinInv, CurationTypeOK
<1>3. PinProtects'
  BY <1>1 DEF PinInv, PinProtects, Older
<1>4. TodoUnpinned'
  BY <1>1 DEF PinInv, TodoUnpinned
<1> QED
  BY <1>2, <1>3, <1>4 DEF PinInv

\* The other edits leave marks alone, and pin nothing.
LEMMA EditStep ==
  ASSUME PinInv, SummaryAdded \/ Unpin \/ Compact
  PROVE  PinInv'
<1>1. CASE SummaryAdded
  <2>1. last' \in Id /\ last' \in 0..MaxId
    BY <1>1, CurationAssumption DEF SummaryAdded, PinInv, CurationTypeOK, Id
  <2> QED
    BY <1>1, <2>1
    DEF SummaryAdded, PinInv, CurationTypeOK, PinProtects, TodoUnpinned, history
<1>2. CASE Unpin
  BY <1>2 DEF Unpin, Edit, PinInv, CurationTypeOK, PinProtects, TodoUnpinned
<1>3. CASE Compact
  BY <1>3 DEF Compact, Edit, PinInv, CurationTypeOK, PinProtects, TodoUnpinned, history
<1> QED
  BY <1>1, <1>2, <1>3

\* The scan compares only what it has just read as unpinned.
LEMMA ScanStep ==
  ASSUME PinInv, ReadPins
  PROVE  PinInv'
<1> DEFINE live == (con.all \ con.dropped) \ pinned
<1>1. /\ con' = IF Marks(live) = {} THEN Idle(con.lastTotal)
                ELSE [con EXCEPT !.at = "mark", !.todo = Marks(live)]
      /\ UNCHANGED <<last, rows, embedded, pinned, latePins, pairs>>
  BY DEF ReadPins, Scan, Quiet, Step
<1>2. Marks(live) \subseteq live \X live /\ live \subseteq Id /\ live \cap pinned = {}
  BY DEF Marks, PinInv, CurationTypeOK
<1>3. Marks(live) \in SUBSET (Id \X Id) /\ pinned \cap Older(Marks(live)) = {}
  BY <1>2 DEF Older
<1> HIDE DEF live
<1>4. CurationTypeOK' /\ TodoUnpinned'
  BY <1>1, <1>3 DEF PinInv, CurationTypeOK, TodoUnpinned, Idle
<1>5. PinProtects'
  BY <1>1 DEF PinInv, PinProtects
<1> QED
  BY <1>4, <1>5 DEF PinInv

LEMMA MarkStep ==
  ASSUME PinInv, Mark
  PROVE  PinInv'
<1> PICK p \in con.todo :
      /\ pairs' = pairs \cup {p}
      /\ con' = IF con.todo = {p} THEN Idle(con.lastTotal) ELSE [con EXCEPT !.todo = @ \ {p}]
  BY DEF Mark
<1>1. con.at = "mark" /\ UNCHANGED <<last, rows, embedded, pinned, latePins>>
  BY DEF Mark, Step
<1>2. Older(pairs') = Older(pairs) \cup {p[2]} /\ p[2] \in Older(con.todo) /\ p \in Id \X Id
  BY DEF Older, PinInv, CurationTypeOK
<1>3. CurationTypeOK'
  BY <1>1, <1>2 DEF PinInv, CurationTypeOK, Idle
<1>4. PinProtects'
  BY <1>1, <1>2 DEF PinInv, PinProtects, TodoUnpinned
<1>5. TodoUnpinned'
  <2>1. con'.at = "mark" => Older(con'.todo) \subseteq Older(con.todo)
    BY DEF Idle, Older, PinInv, CurationTypeOK
  <2> QED
    BY <1>1, <2>1 DEF PinInv, TodoUnpinned
<1> QED
  BY <1>3, <1>4, <1>5 DEF PinInv

\* The other steps of the consolidator, and a restart, mark nothing and have nothing to mark.
LEMMA IdleStep ==
  ASSUME PinInv, Tick \/ ReadDropped \/ MarkFails \/ Restart
  PROVE  PinInv'
<1>1. UNCHANGED <<last, rows, embedded, pinned, latePins, pairs>>
  BY DEF Tick, ReadDropped, MarkFails, Restart, Quiet, Step, table, history
<1>2. con'.at # "mark" /\ con' \in
        [at : {"armed", "dropped", "pins", "mark", "off", "dead"}, lastTotal : Nat,
         all : SUBSET Id, dropped : SUBSET Id, todo : SUBSET (Id \X Id)]
  <2>1. CASE Tick
    BY <2>1, Counted DEF Tick, Idle, PinInv, CurationTypeOK
  <2>2. CASE ReadDropped
    BY <2>2 DEF ReadDropped, Older, PinInv, CurationTypeOK
  <2>3. CASE MarkFails \/ Restart
    BY <2>3 DEF MarkFails, Restart, Idle, PinInv, CurationTypeOK
  <2> QED
    BY <2>1, <2>2, <2>3
<1> QED
  BY <1>1, <1>2 DEF PinInv, CurationTypeOK, PinProtects, TodoUnpinned

LEMMA NextPinInv == PinInv /\ [CurationNext]_curation => PinInv'
<1> SUFFICES ASSUME PinInv, [CurationNext]_curation PROVE PinInv'
  OBVIOUS
<1>1. CASE Consolidate
  BY <1>1, ScanStep, MarkStep, IdleStep DEF Consolidate
<1>2. CASE Curate
  <2>1. CASE SummaryAdded \/ Unpin \/ Compact
    BY <2>1, EditStep
  <2>2. CASE Pin
    BY <2>2, PinStep DEF Pin
  <2>3. CASE AutoPin
    BY <2>3, PinStep DEF AutoPin
  <2>4. CASE Prune
    BY <2>4, DeleteStep DEF Prune
  <2>5. CASE Expire
    BY <2>5, DeleteStep DEF Expire
  <2> QED
    BY <1>2, <2>1, <2>2, <2>3, <2>4, <2>5 DEF Curate
<1>3. CASE Restart
  BY <1>3, IdleStep
<1>4. CASE UNCHANGED curation
  BY <1>4 DEF curation, table, history, PinInv, CurationTypeOK, PinProtects, TodoUnpinned
<1> QED
  BY <1>1, <1>2, <1>3, <1>4 DEF CurationNext

\* A pinned summary is superseded only if it was pinned after the mark or after the tick that
\* made it had read the pins (consolidator.ts:74), however requests fall between its awaits.
THEOREM PinsProtectInTime == CurationSpec => []PinProtects
<1>1. PinInv => PinProtects
  BY DEF PinInv
<1> QED
  BY <1>1, InitPinInv, NextPinInv, PTL DEF CurationSpec

-------------------------------------------------------------------------------
(* What stands for a summary that is gone. HeirInv is inductive: a mark leads *)
(* from an older summary to a newer one, and a newer one that is neither kept *)
(* nor expired was superseded in its turn (KeepersStay). So the newest heir   *)
(* of a summary is there: had prune taken it, it would have an heir newer     *)
(* still.                                                                     *)

\* A set of ids has a newest member.
LEMMA NewestId ==
  ASSUME NEW H, H \subseteq Id, H # {}
  PROVE  \E m \in H : \A h \in H : h <= m
<1> DEFINE T == {MaxId - h : h \in H}
<1>1. MaxId \in Nat /\ \A h \in H : h \in Int /\ 1 <= h /\ h <= MaxId
  BY CurationAssumption DEF Id
<1>2. T \subseteq Nat /\ T # {}
  BY <1>1
<1>3. PICK x \in T : \A y \in T : x <= y
  BY <1>2, LeastNat
<1>4. PICK m \in H : x = MaxId - m
  OBVIOUS
<1>5. \A h \in H : MaxId - m <= MaxId - h
  BY <1>3, <1>4
<1> QED
  BY <1>1, <1>5

\* The heirs of i: i itself, what superseded an heir, and nothing else.
LEMMA HeirsAre ==
  ASSUME HeirInv, NEW i \in Id
  PROVE  /\ i \in Heirs(i) /\ Heirs(i) \subseteq Id
         /\ \A p \in merged : p[2] \in Heirs(i) => p[1] \in Heirs(i)
         /\ \A h \in Heirs(i) \ {i} : \E p \in merged : p[1] = h
<1>1. merged \subseteq Id \X Id
  BY DEF HeirInv, Upward
<1>2. i \in Heirs(i) /\ Heirs(i) \subseteq Id
  BY DEF Heirs
<1>3. \A p \in merged : p[2] \in Heirs(i) => p[1] \in Heirs(i)
  BY <1>1 DEF Heirs
<1>4. \A h \in Heirs(i) \ {i} : \E p \in merged : p[1] = h
  <2> DEFINE S == {i} \cup {p[1] : p \in merged}
  <2>1. S \in SUBSET Id /\ i \in S /\ \A p \in merged : p[1] \in S
    BY <1>1
  <2>2. \A h \in Heirs(i) : h \in S
    BY <2>1 DEF Heirs
  <2> QED
    BY <2>2
<1> QED
  BY <1>2, <1>3, <1>4

LEMMA HeirsRemain == HeirInv => HeirRemains
<1> SUFFICES ASSUME HeirInv, NEW i \in Older(merged)
             PROVE  \E h \in Heirs(i) : h \in (rows \ Older(pairs)) \cup expired
  BY DEF HeirRemains
<1>1. i \in Id
  BY DEF HeirInv, Upward, Older
<1>2. PICK m \in Heirs(i) : \A h \in Heirs(i) : h <= m
  BY <1>1, HeirsAre, NewestId
<1>3. m \notin Older(merged)
  <2> SUFFICES ASSUME NEW p \in merged, p[2] = m PROVE FALSE
    BY DEF Older
  <2>1. p[1] \in Heirs(i) /\ p[1] \in Id /\ p[2] \in Id /\ p[2] < p[1]
    BY <1>1, HeirsAre DEF HeirInv, Upward
  <2>2. p[1] <= m
    BY <1>2, <2>1
  <2> QED
    BY <2>1, <2>2, CurationAssumption DEF Id
<1>4. \E p \in merged : p[1] = m
  BY <1>1, <1>3, HeirsAre
<1>5. m \in rows \cup expired
  BY <1>3, <1>4 DEF HeirInv, KeepersStay
<1>6. m \notin Older(pairs)
  BY <1>3 DEF HeirInv, Older
<1> QED
  BY <1>5, <1>6

LEMMA InitHeirInv == CurationInit => HeirInv
<1> SUFFICES ASSUME CurationInit PROVE HeirInv
  OBVIOUS
<1>1. CurationTypeOK
  BY InitPinInv DEF PinInv
<1> QED
  BY <1>1 DEF CurationInit, HeirInv, Upward, KeepersStay, Idle

\* Only prune and the sweeper delete: the one what was superseded, the other what expires.
LEMMA TakenAway ==
  ASSUME HeirInv, CurationTypeOK', NEW S, Delete(S), UNCHANGED <<con, merged>>,
         expired \subseteq expired', S \subseteq Older(merged) \cup expired'
  PROVE  HeirInv'
<1>1. pairs' \subseteq pairs /\ rows' = rows \ S
  BY DEF Delete
<1>2. KeepersStay'
  BY <1>1 DEF HeirInv, KeepersStay, Older
<1> QED
  BY <1>1, <1>2 DEF HeirInv, Upward

\* The scan pairs a summary with a newer one.
LEMMA ChosenUpward ==
  ASSUME HeirInv, ReadPins
  PROVE  Upward(con'.todo) /\ UNCHANGED <<rows, pairs, merged, expired>>
<1> DEFINE live == (con.all \ con.dropped) \ pinned
<1>1. live \subseteq Id
  BY DEF HeirInv, CurationTypeOK
<1>2. Upward(Marks(live))
  BY <1>1 DEF Upward, Marks, Keeper
<1>3. Upward({})
  BY DEF Upward
<1>4. /\ con' = IF Marks(live) = {} THEN Idle(con.lastTotal)
                ELSE [con EXCEPT !.at = "mark", !.todo = Marks(live)]
      /\ UNCHANGED <<rows, pairs, merged, expired>>
  BY DEF ReadPins, Scan, Quiet, Step
<1> HIDE DEF live
<1>5. con'.todo \in {{}, Marks(live)}
  BY <1>4 DEF Idle, HeirInv, CurationTypeOK
<1> QED
  BY <1>2, <1>3, <1>4, <1>5

LEMMA MarkHeirs ==
  ASSUME HeirInv, Mark
  PROVE  /\ Upward(merged') /\ Upward(con'.todo) /\ pairs' \subseteq merged' /\ KeepersStay'
<1> PICK p \in con.todo :
      /\ {p[1], p[2]} \subseteq rows
      /\ pairs' = pairs \cup {p} /\ merged' = merged \cup {p}
      /\ con' = IF con.todo = {p} THEN Idle(con.lastTotal) ELSE [con EXCEPT !.todo = @ \ {p}]
  BY DEF Mark
<1>1. UNCHANGED <<rows, expired>>
  BY DEF Mark, Step
<1>2. con'.todo \subseteq con.todo
  BY DEF Idle, HeirInv, CurationTypeOK
<1>3. Upward(merged') /\ Upward(con'.todo)
  BY <1>2 DEF HeirInv, Upward
<1>4. Older(merged) \subseteq Older(merged')
  BY DEF Older
<1>5. KeepersStay'
  BY <1>1, <1>4 DEF HeirInv, KeepersStay
<1> QED
  BY <1>3, <1>5 DEF HeirInv

LEMMA NextHeirInv == HeirInv /\ PinInv' /\ [CurationNext]_curation => HeirInv'
<1> SUFFICES ASSUME HeirInv, PinInv', [CurationNext]_curation PROVE HeirInv'
  OBVIOUS
<1>0. CurationTypeOK'
  BY DEF PinInv
<1>1. CASE ReadPins
  BY <1>0, <1>1, ChosenUpward DEF HeirInv, Upward, KeepersStay, Older
<1>2. CASE Mark
  BY <1>0, <1>2, MarkHeirs DEF HeirInv
<1>3. CASE Tick \/ ReadDropped \/ MarkFails \/ Restart
  <2>1. con'.todo \in {{}, con.todo} /\ UNCHANGED <<rows, pairs, merged, expired>>
    <3>1. CASE Tick
      BY <3>1 DEF Tick, Idle, Quiet, Step
    <3>2. CASE ReadDropped
      BY <3>2 DEF ReadDropped, Quiet, Step, HeirInv, CurationTypeOK
    <3>3. CASE MarkFails \/ Restart
      BY <3>3 DEF MarkFails, Restart, Idle, Quiet, Step, table, history
    <3> QED
      BY <1>3, <3>1, <3>2, <3>3
  <2> QED
    BY <1>0, <2>1 DEF HeirInv, Upward, KeepersStay, Older
<1>4. CASE SummaryAdded \/ Pin \/ AutoPin \/ Unpin \/ Compact
  <2>1. rows \subseteq rows' /\ UNCHANGED <<con, pairs, merged, expired>>
    BY <1>4 DEF SummaryAdded, Pin, AutoPin, PinAll, Unpin, Compact, Edit, history
  <2> QED
    BY <1>0, <2>1 DEF HeirInv, Upward, KeepersStay, Older
<1>5. CASE Prune
  <2>1. Older(pairs) \subseteq Older(merged)
    BY DEF HeirInv, Older
  <2> QED
    BY <1>0, <1>5, <2>1, TakenAway DEF Prune, Edit
<1>6. CASE Expire
  <2>1. PICK i \in rows : Delete({i}) /\ expired' = expired \cup {i}
    BY <1>6 DEF Expire
  <2> QED
    BY <1>0, <1>6, <2>1, TakenAway DEF Expire, Edit
<1>7. CASE UNCHANGED curation
  BY <1>0, <1>7 DEF curation, table, history, HeirInv, Upward, KeepersStay, Older
<1> QED
  BY <1>1, <1>2, <1>3, <1>4, <1>5, <1>6, <1>7 DEF CurationNext, Consolidate, Curate

\* No family of near duplicates is deleted to the last member (prune deletes what consolidator.ts
\* marked): whatever replaced a superseded summary, or replaced that, is there and shown unless it
\* expired, for any number of summaries and any measure of nearness.
THEOREM AnHeirRemains == CurationSpec => []HeirRemains
<1>1. CurationInit => PinInv /\ HeirInv
  BY InitPinInv, InitHeirInv
<1>2. PinInv /\ HeirInv /\ [CurationNext]_curation => PinInv' /\ HeirInv'
  BY NextPinInv, NextHeirInv
<1> QED
  BY <1>1, <1>2, HeirsRemain, PTL DEF CurationSpec

-------------------------------------------------------------------------------
(* The stdio bridge, for any calls of the host. BridgeInv is inductive: a     *)
(* call that is not dispatched is in one place of stdin and buffer            *)
(* (LinesOnce), an answered one has one response (AnsweredOnce), and a        *)
(* dispatch awaits one sampling request at a time (AwaitsOne).                *)

(* Lists of lines.                                                            *)

\* A chunk moves the first lines of stdin behind those of the buffer.
LEMMA ChunkMoves ==
  ASSUME NEW a \in Seq(Line), NEW b \in Seq(Line), NEW k \in 0..Len(b),
         OnceIn(a), OnceIn(b), CallsIn(a) \cap CallsIn(b) = {}
  PROVE  LET s == a \o SubSeq(b, 1, k) IN
         /\ s \in Seq(Line) /\ Leaves(b, k) \in Seq(Line)
         /\ OnceIn(s) /\ OnceIn(Leaves(b, k)) /\ CallsIn(Leaves(b, k)) \cap CallsIn(s) = {}
         /\ CallsIn(s) \cup CallsIn(Leaves(b, k)) \subseteq CallsIn(a) \cup CallsIn(b)
<1> DEFINE s == a \o SubSeq(b, 1, k)
           r == Leaves(b, k)
<1>1. /\ s \in Seq(Line) /\ Len(s) = Len(a) + k
      /\ \A m \in 1..Len(a) : s[m] = a[m]
      /\ \A m \in 1..Len(s) : m \notin 1..Len(a) => m - Len(a) \in 1..k /\ s[m] = b[m - Len(a)]
  OBVIOUS
<1>2. /\ r \in Seq(Line) /\ Len(r) = Len(b) - k
      /\ \A m \in 1..Len(r) : r[m] = b[m + k] /\ m + k \in 1..Len(b)
  BY DEF Leaves
<1>3. Len(a) \in Nat /\ Len(b) \in Nat
  OBVIOUS
<1> HIDE DEF s, r
<1>4. \A m \in 1..Len(a), n \in 1..Len(b) : ~(a[m].is = "call" /\ b[n].is = "call" /\ a[m].n = b[n].n)
  BY DEF CallsIn
<1>5. OnceIn(s)
  <2> SUFFICES ASSUME NEW m \in 1..Len(s), NEW n \in 1..Len(s),
                      s[m].is = "call", s[n].is = "call", s[m].n = s[n].n
               PROVE  m = n
    BY DEF OnceIn
  <2>1. CASE m \in 1..Len(a) /\ n \in 1..Len(a)
    BY <1>1, <2>1 DEF OnceIn
  <2>2. CASE m \notin 1..Len(a) /\ n \notin 1..Len(a)
    <3>1. m - Len(a) \in 1..Len(b) /\ n - Len(a) \in 1..Len(b)
      BY <1>1, <1>3, <2>2
    <3>2. s[m] = b[m - Len(a)] /\ s[n] = b[n - Len(a)]
      BY <1>1, <1>3, <2>2
    <3>3. m - Len(a) = n - Len(a)
      BY <3>1, <3>2 DEF OnceIn
    <3> QED
      BY <1>3, <3>3
  <2>3. CASE m \in 1..Len(a) /\ n \notin 1..Len(a)
    <3>1. n - Len(a) \in 1..Len(b) /\ s[n] = b[n - Len(a)] /\ s[m] = a[m]
      BY <1>1, <1>3, <2>3
    <3> QED
      BY <1>4, <2>3, <3>1
  <2>4. CASE m \notin 1..Len(a) /\ n \in 1..Len(a)
    <3>1. m - Len(a) \in 1..Len(b) /\ s[m] = b[m - Len(a)] /\ s[n] = a[n]
      BY <1>1, <1>3, <2>4
    <3> QED
      BY <1>4, <2>4, <3>1
  <2> QED
    BY <2>1, <2>2, <2>3, <2>4
<1>6. OnceIn(r)
  <2> SUFFICES ASSUME NEW m \in 1..Len(r), NEW n \in 1..Len(r),
                      r[m].is = "call", r[n].is = "call", r[m].n = r[n].n
               PROVE  m = n
    BY DEF OnceIn
  <2>1. m + k \in 1..Len(b) /\ n + k \in 1..Len(b) /\ r[m] = b[m + k] /\ r[n] = b[n + k]
    BY <1>2, <1>3
  <2>2. m + k = n + k
    BY <2>1 DEF OnceIn
  <2> QED
    BY <2>2
<1>7. ASSUME NEW m \in 1..Len(s)
      PROVE  \/ m \in 1..Len(a) /\ s[m] = a[m]
             \/ m - Len(a) \in 1..k /\ s[m] = b[m - Len(a)]
  BY <1>1, <1>3
<1>8. CallsIn(s) \subseteq CallsIn(a) \cup CallsIn(b)
  <2> SUFFICES ASSUME NEW m \in 1..Len(s), s[m].is = "call"
               PROVE  s[m].n \in CallsIn(a) \cup CallsIn(b)
    BY DEF CallsIn
  <2>1. CASE m \in 1..Len(a) /\ s[m] = a[m]
    BY <2>1 DEF CallsIn
  <2>2. CASE m - Len(a) \in 1..k /\ s[m] = b[m - Len(a)]
    <3>1. m - Len(a) \in 1..Len(b)
      BY <1>3, <2>2
    <3> QED
      BY <2>2, <3>1 DEF CallsIn
  <2> QED
    BY <1>7, <2>1, <2>2
<1>9. ASSUME NEW n \in 1..Len(r), r[n].is = "call"
      PROVE  /\ n + k \in 1..Len(b) /\ r[n] = b[n + k] /\ b[n + k].is = "call"
             /\ r[n].n \in CallsIn(b)
  <2>1. n + k \in 1..Len(b) /\ r[n] = b[n + k]
    BY <1>2, <1>3
  <2> QED
    BY <1>9, <2>1 DEF CallsIn
<1>10. CallsIn(r) \subseteq CallsIn(b)
  BY <1>9 DEF CallsIn
<1>11. CallsIn(r) \cap CallsIn(s) = {}
  <2> SUFFICES ASSUME NEW n \in 1..Len(r), r[n].is = "call",
                      NEW m \in 1..Len(s), s[m].is = "call", s[m].n = r[n].n
               PROVE  FALSE
    BY DEF CallsIn
  <2>1. CASE m \in 1..Len(a) /\ s[m] = a[m]
    BY <1>4, <1>9, <2>1
  <2>2. CASE m - Len(a) \in 1..k /\ s[m] = b[m - Len(a)]
    <3>1. m - Len(a) \in 1..Len(b)
      BY <1>3, <2>2
    <3>2. m - Len(a) = n + k
      BY <1>9, <2>2, <3>1 DEF OnceIn
    <3> QED
      BY <1>3, <2>2, <3>2
  <2> QED
    BY <1>7, <2>1, <2>2
<1> QED
  BY <1>1, <1>2, <1>5, <1>6, <1>8, <1>10, <1>11 DEF s, r

\* The lines behind the n-th.
LEMMA LinesLeft ==
  ASSUME NEW b \in Seq(Line), NEW n \in 1..Len(b), OnceIn(b)
  PROVE  /\ Leaves(b, n) \in Seq(Line) /\ OnceIn(Leaves(b, n))
         /\ CallsIn(Leaves(b, n)) \subseteq CallsIn(b)
         /\ b[n].is = "call" => b[n].n \in CallsIn(b) \ CallsIn(Leaves(b, n))
<1> DEFINE r == Leaves(b, n)
<1>1. /\ r \in Seq(Line) /\ Len(r) = Len(b) - n /\ Len(b) \in Nat
      /\ \A m \in 1..Len(r) : r[m] = b[m + n] /\ m + n \in 1..Len(b)
  BY DEF Leaves
<1> HIDE DEF r
<1>2. OnceIn(r)
  <2> SUFFICES ASSUME NEW i \in 1..Len(r), NEW j \in 1..Len(r),
                      r[i].is = "call", r[j].is = "call", r[i].n = r[j].n
               PROVE  i = j
    BY DEF OnceIn
  <2>1. i + n = j + n
    BY <1>1 DEF OnceIn
  <2> QED
    BY <2>1
<1>3. CallsIn(r) \subseteq CallsIn(b)
  BY <1>1 DEF CallsIn
<1>4. b[n].is = "call" => b[n].n \in CallsIn(b)
  BY DEF CallsIn
<1>5. ASSUME b[n].is = "call", b[n].n \in CallsIn(r)
      PROVE  FALSE
  <2>1. PICK m \in 1..Len(r) : r[m].is = "call" /\ r[m].n = b[n].n
    BY <1>5 DEF CallsIn
  <2>2. m + n = n
    BY <1>1, <1>5, <2>1 DEF OnceIn
  <2> QED
    BY <2>2
<1> QED
  BY <1>1, <1>2, <1>3, <1>4, <1>5 DEF r

\* A line is written at the end.
LEMMA LineWritten ==
  ASSUME NEW s \in Seq(Line), NEW l \in Line, OnceIn(s)
  PROVE  /\ Append(s, l) \in Seq(Line)
         /\ l.is = "call" /\ l.n \notin CallsIn(s) =>
              OnceIn(Append(s, l)) /\ CallsIn(Append(s, l)) = CallsIn(s) \cup {l.n}
         /\ l.is # "call" => OnceIn(Append(s, l)) /\ CallsIn(Append(s, l)) = CallsIn(s)
<1> DEFINE t == Append(s, l)
<1>1. /\ t \in Seq(Line) /\ Len(t) = Len(s) + 1 /\ Len(s) \in Nat
      /\ \A m \in 1..Len(s) : t[m] = s[m]
      /\ t[Len(s) + 1] = l
  OBVIOUS
<1>2. 1..Len(t) = 1..Len(s) \cup {Len(s) + 1}
  BY <1>1
<1> HIDE DEF t
<1>3. CallsIn(t) = CallsIn(s) \cup (IF l.is = "call" THEN {l.n} ELSE {})
  BY <1>1, <1>2 DEF CallsIn
<1>4. ASSUME l.is = "call" => l.n \notin CallsIn(s)
      PROVE  OnceIn(t)
  <2>1. \A m \in 1..Len(s) : l.is = "call" /\ s[m].is = "call" => s[m].n # l.n
    BY <1>4 DEF CallsIn
  <2> QED
    BY <1>1, <1>2, <2>1 DEF OnceIn
<1> QED
  BY <1>1, <1>3, <1>4 DEF t

-----------------------------------------------------------------------------
(* One dispatch at a time.                                                    *)

\* A step that only moves dispatches on, neither written nor done, wakes none.
LEMMA StagesMove ==
  ASSUME BridgeInv, UNCHANGED <<calls, stdin, cut, buffer, waiter, unanswered, responses, wokenBy>>,
         stage' \in [Caller -> Stage],
         \A c \in Caller \ {0} : stage[c] \in {"written", "done"} => stage'[c] = stage[c],
         waiting' \subseteq waiting,
         \A i \in waiting' : waiter[i] # 0 => stage'[waiter[i]] = stage[waiter[i]],
         sampling' \in [Caller -> BOOLEAN], available' \in BOOLEAN, left' \in [Caller -> Int]
  PROVE  BridgeInv'
<1>0. BridgeTypeOK /\ LinesOnce /\ AnsweredOnce /\ AwaitsOne /\ WokenByOwn /\ Caller' = Caller
  BY DEF BridgeInv, Caller
<1>1. BridgeTypeOK'
  BY <1>0 DEF BridgeTypeOK
<1>2. CallsIn(stdin') = CallsIn(stdin) /\ CallsIn(buffer') = CallsIn(buffer)
  OBVIOUS
<1>3. LinesOnce'
  <2>1. \A c \in CallsIn(stdin) \cup CallsIn(buffer) : c \in 1..Len(calls) /\ stage'[c] = "written"
    BY <1>0 DEF LinesOnce, Caller
  <2> QED
    BY <1>0, <2>1 DEF LinesOnce
<1>4. AnsweredOnce'
  <2>1. \A n \in 1..Len(responses) : responses[n] \in Caller \ {0}
    BY <1>0 DEF BridgeTypeOK
  <2> QED
    BY <1>0, <2>1 DEF AnsweredOnce
<1>5. AwaitsOne'
  <2>1. \A i \in waiting' : i \in waiting
    OBVIOUS
  <2> QED
    BY <1>0, <2>1 DEF AwaitsOne
<1>6. WokenByOwn'
  BY <1>0 DEF WokenByOwn
<1> QED
  BY <1>1, <1>3, <1>4, <1>5, <1>6 DEF BridgeInv

\* What a dispatch goes on to.
LEMMA NextStages ==
  ASSUME BridgeTypeOK, NEW c \in Caller
  PROVE  AfterDrain(c) \in Stage /\ Thrown(c) \in Stage /\ (c # 0 => Begins(c) \in Stage)
BY DEF AfterDrain, Thrown, Begins, Stage

\* Dispatch c goes on to stage "to".
LEMMA DispatchMoves ==
  ASSUME BridgeInv, NEW c \in Caller, NEW to \in Stage,
         stage' = [stage EXCEPT ![c] = to], stage[c] \notin {"written", "done", "sampling"},
         left' \in [Caller -> Int],
         UNCHANGED <<calls, stdin, cut, buffer, sampling, available, waiter, waiting,
                     unanswered, responses, wokenBy>>
  PROVE  BridgeInv'
<1>0. BridgeTypeOK /\ AwaitsOne
  BY DEF BridgeInv
<1>1. stage' \in [Caller -> Stage] /\ stage'[c] = to /\ \A x \in Caller \ {c} : stage'[x] = stage[x]
  BY <1>0 DEF BridgeTypeOK
<1>2. \A i \in waiting : waiter[i] \in Caller
  BY <1>0 DEF BridgeTypeOK
<1>3. \A i \in waiting' : waiter[i] # 0 => stage'[waiter[i]] = stage[waiter[i]]
  BY <1>0, <1>1, <1>2 DEF AwaitsOne
<1>4. sampling' \in [Caller -> BOOLEAN] /\ available' \in BOOLEAN
  BY <1>0 DEF BridgeTypeOK
<1> QED
  BY <1>1, <1>3, <1>4, StagesMove

LEMMA AwaitedMoves ==
  ASSUME BridgeInv, NEW c \in Caller, NEW to \in Stage, Awaited(c, to),
         stage[c] \notin {"written", "done", "sampling"}
  PROVE  BridgeInv'
<1>1. left' \in [Caller -> Int]
  BY DEF BridgeInv, BridgeTypeOK, Awaited
<1> QED
  BY <1>1, DispatchMoves DEF Awaited

LEMMA DispatchStep ==
  ASSUME BridgeInv, NEW c \in Caller,
         \/ GetStatus(c) \/ DaemonDrains(c) \/ ClaimNone(c) \/ ClaimFails(c) \/ Claim(c)
         \/ TakeCached(c) \/ Recorded(c) \/ RecordFails(c) \/ Requested(c)
  PROVE  BridgeInv'
<1>0. BridgeTypeOK /\ AfterDrain(c) \in Stage /\ Thrown(c) \in Stage
      /\ {"claim", "drain", "event", "write", "reply"} \subseteq Stage
  BY NextStages DEF BridgeInv, Stage
<1>1. CASE GetStatus(c)
  BY <1>0, <1>1, AwaitedMoves DEF GetStatus
<1>2. CASE DaemonDrains(c)
  BY <1>0, <1>2, AwaitedMoves DEF DaemonDrains
<1>3. CASE ClaimNone(c)
  BY <1>0, <1>3, AwaitedMoves DEF ClaimNone
<1>4. CASE ClaimFails(c)
  BY <1>0, <1>4, AwaitedMoves DEF ClaimFails
<1>5. CASE Claim(c)
  <2>1. \A n \in 1..DrainBatch : [left EXCEPT ![c] = n] \in [Caller -> Int]
    BY <1>0 DEF BridgeTypeOK
  <2>2. left' \in [Caller -> Int]
    BY <1>5, <2>1 DEF Claim
  <2> QED
    BY <1>0, <1>5, <2>2, DispatchMoves DEF Claim
<1>6. CASE TakeCached(c)
  BY <1>0, <1>6, AwaitedMoves DEF TakeCached
<1>7. CASE Recorded(c)
  <2>1. left' \in [Caller -> Int]
    BY <1>0, <1>7 DEF Recorded, BridgeTypeOK
  <2> DEFINE to == IF left[c] > 1 THEN "event" ELSE AfterDrain(c)
  <2>2. to \in Stage
    BY <1>0
  <2>3. stage' = [stage EXCEPT ![c] = to]
    BY <1>7 DEF Recorded
  <2> HIDE DEF to
  <2> QED
    BY <1>7, <2>1, <2>2, <2>3, DispatchMoves DEF Recorded
<1>8. CASE RecordFails(c)
  BY <1>0, <1>8, AwaitedMoves DEF RecordFails
<1>9. CASE Requested(c)
  BY <1>0, <1>9, AwaitedMoves DEF Requested
<1> QED
  BY <1>1, <1>2, <1>3, <1>4, <1>5, <1>6, <1>7, <1>8, <1>9

\* The periodic loop wakes, or finds nothing to do.
LEMMA LoopSteps ==
  ASSUME BridgeInv, LoopTick \/ LoopTickEnds
  PROVE  BridgeInv'
<1>1. 0 \in Caller /\ {"asleep", "status"} \subseteq Stage
  BY DEF BridgeInv, BridgeTypeOK, Caller, Stage
<1> QED
  BY <1>1, AwaitedMoves DEF LoopTick, LoopTickEnds

LEMMA HandshakeStep ==
  ASSUME BridgeInv, NEW c \in Caller \ {0}, Handshake(c)
  PROVE  BridgeInv'
<1>0. BridgeTypeOK /\ AwaitsOne /\ 0 \in Caller /\ {"reply", "asleep", "off"} \subseteq Stage
  BY DEF BridgeInv, BridgeTypeOK, Caller, Stage
<1> DEFINE loop == IF available' THEN "asleep" ELSE "off"
<1>1. /\ stage[c] = "handshake" /\ available' \in BOOLEAN /\ loop \in Stage
      /\ stage' = [stage EXCEPT ![c] = "reply", ![0] = loop]
      /\ UNCHANGED <<calls, stdin, cut, buffer, sampling, waiter, waiting, unanswered,
                     responses, left, wokenBy>>
  BY <1>0 DEF Handshake
<1> HIDE DEF loop
<1>2. stage' \in [Caller -> Stage] /\ \A x \in Caller \ {c, 0} : stage'[x] = stage[x]
  BY <1>0, <1>1 DEF BridgeTypeOK
<1>3. \A i \in waiting' : waiter[i] # 0 => stage'[waiter[i]] = stage[waiter[i]]
  <2>1. \A i \in waiting : waiter[i] \in Caller
    BY <1>0 DEF BridgeTypeOK
  <2> QED
    BY <1>0, <1>1, <1>2, <2>1 DEF AwaitsOne
<1>4. sampling' \in [Caller -> BOOLEAN] /\ left' \in [Caller -> Int]
  BY <1>0, <1>1 DEF BridgeTypeOK
<1> QED
  BY <1>1, <1>2, <1>3, <1>4, StagesMove

-----------------------------------------------------------------------------
(* Sampling.                                                                  *)

LEMMA TimeoutStep ==
  ASSUME BridgeInv, NEW i \in waiting, SamplingTimesOut(i)
  PROVE  BridgeInv'
<1>0. BridgeTypeOK /\ AwaitsOne /\ "write" \in Stage
  BY DEF BridgeInv, Stage
<1>1. /\ waiting' = waiting \ {i} /\ stage' = [stage EXCEPT ![waiter[i]] = "write"]
      /\ UNCHANGED <<calls, stdin, cut, buffer, sampling, available, waiter, unanswered,
                     responses, left, wokenBy>>
  BY DEF SamplingTimesOut
<1>2. \A j \in waiting : waiter[j] \in Caller
  BY <1>0 DEF BridgeTypeOK
<1>3. stage' \in [Caller -> Stage] /\ \A x \in Caller \ {waiter[i]} : stage'[x] = stage[x]
  BY <1>0, <1>1, <1>2 DEF BridgeTypeOK
<1>4. \A j \in waiting' : waiter[j] # 0 => stage'[waiter[j]] = stage[waiter[j]]
  BY <1>0, <1>1, <1>2, <1>3 DEF AwaitsOne
<1>5. \A x \in Caller \ {0} : stage[x] \in {"written", "done"} => stage'[x] = stage[x]
  BY <1>0, <1>3 DEF AwaitsOne
<1>6. sampling' \in [Caller -> BOOLEAN] /\ available' \in BOOLEAN /\ left' \in [Caller -> Int]
  BY <1>0, <1>1 DEF BridgeTypeOK
<1> QED
  BY <1>1, <1>3, <1>4, <1>5, <1>6, StagesMove

LEMMA SampleStep ==
  ASSUME BridgeInv, NEW c \in Caller, Sample(c)
  PROVE  BridgeInv'
<1> DEFINE n == Len(waiter) + 1
<1>0. BridgeTypeOK /\ LinesOnce /\ AnsweredOnce /\ AwaitsOne /\ WokenByOwn
  BY DEF BridgeInv
<1>1. /\ stage[c] = "event" /\ waiter' = Append(waiter, c)
      /\ waiting' = waiting \cup {n} /\ unanswered' = unanswered \cup {n}
      /\ stage' = [stage EXCEPT ![c] = "sampling"]
      /\ UNCHANGED <<calls, stdin, cut, buffer, sampling, available, responses, left, wokenBy>>
  BY DEF Sample
<1>2. /\ waiter' \in Seq(Caller) /\ Len(waiter') = n /\ waiter'[n] = c
      /\ \A i \in 1..Len(waiter) : waiter'[i] = waiter[i] /\ waiter[i] \in Caller
      /\ Len(waiter) \in Nat /\ n \notin 1..Len(waiter) /\ 1..Len(waiter) \subseteq 1..n /\ n \in 1..n
      /\ 0..Len(waiter) \subseteq 0..n
  BY <1>0, <1>1 DEF BridgeTypeOK
<1> HIDE DEF n
<1>3. stage' \in [Caller -> Stage] /\ stage'[c] = "sampling" /\ \A x \in Caller \ {c} : stage'[x] = stage[x]
  BY <1>0, <1>1 DEF BridgeTypeOK, Stage
<1>4. BridgeTypeOK'
  <2>1. waiting' \subseteq 1..Len(waiter') /\ unanswered' \subseteq 1..Len(waiter')
    BY <1>0, <1>1, <1>2 DEF BridgeTypeOK
  <2>2. wokenBy' \in [Caller -> 0..Len(waiter')]
    BY <1>0, <1>1, <1>2 DEF BridgeTypeOK
  <2>3. Caller' = Caller
    BY <1>1 DEF Caller
  <2> QED
    BY <1>0, <1>1, <1>2, <1>3, <2>1, <2>2, <2>3 DEF BridgeTypeOK
<1>5. LinesOnce'
  <2>1. \A x \in CallsIn(stdin) \cup CallsIn(buffer) : x \in 1..Len(calls) /\ stage'[x] = "written"
    BY <1>0, <1>1, <1>3 DEF LinesOnce, Caller
  <2> QED
    BY <1>0, <1>1, <2>1 DEF LinesOnce
<1>6. AnsweredOnce'
  <2>1. \A m \in 1..Len(responses) : responses[m] \in Caller
    BY <1>0 DEF BridgeTypeOK
  <2> QED
    BY <1>0, <1>1, <1>3, <2>1 DEF AnsweredOnce
<1>7. AwaitsOne'
  <2>1. \A i \in waiting : i \in 1..Len(waiter) /\ (waiter[i] # 0 => waiter[i] # c)
    BY <1>0, <1>1 DEF AwaitsOne, BridgeTypeOK
  <2>2. \A i \in waiting' : i \in waiting \/ i = n
    BY <1>1
  <2>3. ASSUME NEW i \in waiting', waiter'[i] # 0
        PROVE  stage'[waiter'[i]] = "sampling"
    BY <1>0, <1>2, <1>3, <2>1, <2>2, <2>3 DEF AwaitsOne
  <2>4. ASSUME NEW i \in waiting', NEW j \in waiting', waiter'[i] # 0, waiter'[i] = waiter'[j]
        PROVE  i = j
    BY <1>0, <1>2, <2>1, <2>2, <2>4 DEF AwaitsOne
  <2> QED
    BY <2>3, <2>4 DEF AwaitsOne
<1>8. WokenByOwn'
  <2>1. \A x \in Caller : wokenBy[x] # 0 => wokenBy[x] \in 1..Len(waiter)
    BY <1>0, <1>2 DEF BridgeTypeOK
  <2> QED
    BY <1>0, <1>1, <1>2, <2>1 DEF WokenByOwn, Caller
<1> QED
  BY <1>4, <1>5, <1>6, <1>7, <1>8 DEF BridgeInv

-----------------------------------------------------------------------------
(* The host.                                                                  *)

LEMMA HostCallsStep ==
  ASSUME BridgeInv, HostCalls
  PROVE  BridgeInv'
<1>0. BridgeTypeOK /\ LinesOnce /\ AnsweredOnce /\ AwaitsOne /\ WokenByOwn
  BY DEF BridgeInv
<1> DEFINE c == Len(calls) + 1
           l == [is |-> "call", n |-> c]
<1>1. PICK k \in Asked[c] : calls' = Append(calls, k)
  BY DEF HostCalls
<1>2. /\ Len(calls) < Len(Asked) /\ stdin' = Append(stdin, l)
      /\ UNCHANGED <<cut, buffer, available, waiter, waiting, unanswered, responses>>
  BY DEF HostCalls
<1>3. /\ stage' = [x \in 0..c |-> IF x = c THEN "written" ELSE stage[x]]
      /\ sampling' = [x \in 0..c |-> IF x = c THEN FALSE ELSE sampling[x]]
      /\ wokenBy' = [x \in 0..c |-> IF x = c THEN 0 ELSE wokenBy[x]]
      /\ left' = [x \in 0..c |-> IF x = c THEN 0 ELSE left[x]]
  BY DEF HostCalls
<1>4. Len(calls) \in Nat /\ c \in 1..Len(Asked)
  BY <1>0, <1>2, BridgeAssumption DEF BridgeTypeOK
<1>5. k \in AnyCall
  BY <1>1, <1>4, BridgeAssumption
<1>6. calls' \in Seq(AnyCall) /\ Len(calls') = c
  BY <1>0, <1>1, <1>5 DEF BridgeTypeOK
<1>7. /\ Caller' = 0..c /\ Caller = 0..c - 1 /\ Caller' = Caller \cup {c} /\ c \notin Caller
      /\ Caller \ {0} \subseteq Caller' \ {0} /\ 1..Len(calls) \subseteq Caller /\ c \in Nat
      /\ 1..Len(calls') = 1..Len(calls) \cup {c}
  BY <1>4, <1>6 DEF Caller
<1>8. l \in Line /\ l.is = "call" /\ l.n = c
  BY <1>7 DEF Line
<1> HIDE DEF c, l
<1>9. /\ stage' \in [Caller' -> Stage] /\ stage'[c] = "written"
      /\ \A x \in Caller : stage'[x] = stage[x]
  BY <1>0, <1>3, <1>7 DEF BridgeTypeOK, Stage
<1>10. sampling' \in [Caller' -> BOOLEAN]
  BY <1>0, <1>3, <1>7 DEF BridgeTypeOK
<1>11. /\ wokenBy' \in [Caller' -> 0..Len(waiter)] /\ wokenBy'[c] = 0
       /\ \A x \in Caller : wokenBy'[x] = wokenBy[x]
  BY <1>0, <1>3, <1>7 DEF BridgeTypeOK
<1>12. left' \in [Caller' -> Int]
  BY <1>0, <1>3, <1>7 DEF BridgeTypeOK
<1>13. waiter \in Seq(Caller') /\ responses \in Seq(Caller' \ {0})
  BY <1>0, <1>7 DEF BridgeTypeOK
<1>14. c \notin CallsIn(stdin) /\ c \notin CallsIn(buffer)
  BY <1>0, <1>7 DEF LinesOnce
<1>15. stdin' \in Seq(Line) /\ OnceIn(stdin') /\ CallsIn(stdin') = CallsIn(stdin) \cup {c}
  BY <1>0, <1>2, <1>8, <1>14, LineWritten DEF BridgeTypeOK, LinesOnce
<1>16. BridgeTypeOK'
  BY <1>0, <1>2, <1>6, <1>9, <1>10, <1>11, <1>12, <1>13, <1>15 DEF BridgeTypeOK
<1>17. LinesOnce'
  <2>1. \A x \in CallsIn(stdin') \cup CallsIn(buffer) : x \in 1..Len(calls') /\ stage'[x] = "written"
    BY <1>0, <1>7, <1>9, <1>15 DEF LinesOnce
  <2> QED
    BY <1>0, <1>2, <1>14, <1>15, <2>1 DEF LinesOnce
<1>18. AnsweredOnce'
  <2>1. \A n \in 1..Len(responses) : responses[n] \in Caller
    BY <1>0 DEF BridgeTypeOK
  <2> QED
    BY <1>0, <1>2, <1>9, <2>1 DEF AnsweredOnce
<1>19. AwaitsOne'
  <2>1. \A i \in waiting : waiter[i] \in Caller
    BY <1>0 DEF BridgeTypeOK
  <2> QED
    BY <1>0, <1>2, <1>9, <2>1 DEF AwaitsOne
<1>20. WokenByOwn'
  BY <1>0, <1>2, <1>7, <1>11 DEF WokenByOwn
<1> QED
  BY <1>16, <1>17, <1>18, <1>19, <1>20 DEF BridgeInv

LEMMA HostAnswersStep ==
  ASSUME BridgeInv, HostAnswers
  PROVE  BridgeInv'
<1>0. BridgeTypeOK /\ LinesOnce /\ AnsweredOnce /\ AwaitsOne /\ WokenByOwn
  BY DEF BridgeInv
<1>1. PICK i \in unanswered :
        /\ unanswered' = unanswered \ {i}
        /\ stdin' = Append(stdin, [is |-> "answer", n |-> i])
        /\ UNCHANGED <<calls, cut, buffer, stage, sampling, available, waiter, waiting, responses,
                       left, wokenBy>>
  BY DEF HostAnswers
<1> DEFINE l == [is |-> "answer", n |-> i]
<1>2. l \in Line /\ l.is # "call"
  BY <1>0 DEF BridgeTypeOK, Line
<1>3. stdin' = Append(stdin, l)
  BY <1>1
<1> HIDE DEF l
<1>4. stdin' \in Seq(Line) /\ OnceIn(stdin') /\ CallsIn(stdin') = CallsIn(stdin)
  BY <1>0, <1>2, <1>3, LineWritten DEF BridgeTypeOK, LinesOnce
<1>5. Caller' = Caller
  BY <1>1 DEF Caller
<1>6. BridgeTypeOK'
  BY <1>0, <1>1, <1>4, <1>5 DEF BridgeTypeOK
<1>7. LinesOnce'
  BY <1>0, <1>1, <1>4 DEF LinesOnce
<1>8. (AnsweredOnce /\ AwaitsOne /\ WokenByOwn)'
  BY <1>0, <1>1, <1>5 DEF AnsweredOnce, AwaitsOne, WokenByOwn
<1> QED
  BY <1>6, <1>7, <1>8 DEF BridgeInv

-----------------------------------------------------------------------------
(* The loop over the buffer.                                                  *)

\* A waiter is woken with an answer to its own request, if there is one.
LEMMA WakesOwn ==
  ASSUME BridgeTypeOK, NEW ids, NEW c \in Caller
  PROVE  /\ Wakes(ids)[c] # 0 => Wakes(ids)[c] \in ids \cap waiting /\ waiter[Wakes(ids)[c]] = c
         /\ Wakes(ids)[c] = 0 => \A i \in ids \cap waiting : waiter[i] # c
<1> DEFINE own == {i \in ids \cap waiting : waiter[i] = c}
<1>1. DOMAIN wokenBy = Caller /\ 0 \notin waiting
  BY DEF BridgeTypeOK
<1>2. Wakes(ids)[c] = IF own = {} THEN 0 ELSE CHOOSE i \in own : TRUE
  BY <1>1 DEF Wakes
<1>3. ASSUME own # {}
      PROVE  (CHOOSE i \in own : TRUE) \in own
  BY <1>3
<1> QED
  BY <1>1, <1>2, <1>3

LEMMA FirstCallIs ==
  ASSUME NEW b, NEW n \in FirstCall(b)
  PROVE  n = 0 \/ (n \in 1..Len(b) /\ b[n].is = "call")
<1> DEFINE places == {m \in 1..Len(b) : b[m].is = "call"}
<1>1. CASE places = {}
  BY <1>1 DEF FirstCall
<1>2. CASE places # {}
  BY <1>2 DEF FirstCall
<1> QED
  BY <1>1, <1>2

\* What is left after the loop has run over b, and who was woken.
LEMMA RunKeeps ==
  ASSUME BridgeTypeOK, WokenByOwn, NEW b \in Seq(Line), NEW stages \in [Caller -> Stage], Run(b, stages),
         OnceIn(b), stdin' \in Seq(Line), OnceIn(stdin'), CallsIn(stdin') \cap CallsIn(b) = {},
         \A c \in CallsIn(stdin') \cup CallsIn(b) : c \in 1..Len(calls) /\ stages[c] = "written",
         responses' \in Seq(Caller \ {0}),
         \A m, n \in 1..Len(responses') : responses'[m] = responses'[n] => m = n,
         \A n \in 1..Len(responses') : stages[responses'[n]] = "done",
         \A i \in waiting : waiter[i] # 0 =>
             stages[waiter[i]] = "sampling" /\ \A j \in waiting : waiter[i] = waiter[j] => i = j,
         cut' \in BOOLEAN, UNCHANGED <<calls, available, waiter, unanswered, left>>
  PROVE  BridgeInv'
<1>1. PICK n \in FirstCall(b) :
        LET answers == {b[m].n : m \in {j \in 1..Len(b) : b[j].is = "answer" /\ (n = 0 \/ j < n)}}
            woken == Wakes(answers)
        IN  /\ buffer' = IF n = 0 THEN <<>> ELSE Leaves(b, n)
            /\ wokenBy' = [c \in DOMAIN wokenBy |-> IF woken[c] = 0 THEN wokenBy[c] ELSE woken[c]]
            /\ waiting' = waiting \ answers
            /\ stage' = [c \in DOMAIN stages |->
                           IF n > 0 /\ c = b[n].n
                           THEN IF stages[c] = "written" THEN Begins(c) ELSE "again"
                           ELSE IF woken[c] # 0 THEN "write" ELSE stages[c]]
            /\ sampling' = IF n > 0 THEN [sampling EXCEPT ![b[n].n] = available] ELSE sampling
  BY DEF Run
<1> DEFINE answers == {b[m].n : m \in {j \in 1..Len(b) : b[j].is = "answer" /\ (n = 0 \/ j < n)}}
           woken == Wakes(answers)
           first == IF n = 0 THEN {} ELSE {b[n].n}
<1>2. n = 0 \/ (n \in 1..Len(b) /\ b[n].is = "call")
  BY FirstCallIs
<1>3. DOMAIN wokenBy = Caller /\ DOMAIN stages = Caller /\ Caller' = Caller
  BY DEF BridgeTypeOK, Caller
<1>4. waiting' = waiting \ answers
  BY <1>1
<1>5. \A c \in Caller :
        /\ woken[c] # 0 => woken[c] \in answers \cap waiting /\ waiter[woken[c]] = c
        /\ woken[c] = 0 => \A i \in answers \cap waiting : waiter[i] # c
  BY WakesOwn
<1>6. first \subseteq CallsIn(b)
  BY <1>2 DEF CallsIn
<1>7. /\ buffer' \in Seq(Line) /\ OnceIn(buffer')
      /\ CallsIn(buffer') \subseteq CallsIn(b) \ first
  <2>1. CASE n = 0
    <3>1. buffer' = <<>>
      BY <1>1, <2>1
    <3> QED
      BY <2>1, <3>1 DEF OnceIn, CallsIn
  <2>2. CASE n # 0
    <3>1. buffer' = Leaves(b, n)
      BY <1>1, <2>2
    <3> QED
      BY <1>2, <2>2, <3>1, LinesLeft
  <2> QED
    BY <2>1, <2>2
<1>8. \A c \in first : c \in Caller \ {0} /\ stages[c] = "written" /\ Begins(c) \in Stage
  <2>1. \A c \in first : c \in 1..Len(calls) /\ stages[c] = "written"
    BY <1>6
  <2> QED
    BY <2>1, NextStages DEF Caller
<1>9. \A c \in Caller :
        stage'[c] = IF c \in first THEN Begins(c) ELSE IF woken[c] # 0 THEN "write" ELSE stages[c]
  <2>1. \A c \in Caller :
          stage'[c] = IF n > 0 /\ c = b[n].n
                      THEN IF stages[c] = "written" THEN Begins(c) ELSE "again"
                      ELSE IF woken[c] # 0 THEN "write" ELSE stages[c]
    BY <1>1, <1>3
  <2>2. n > 0 <=> n # 0
    BY <1>2
  <2> HIDE DEF woken
  <2> QED
    BY <1>8, <2>1, <2>2
<1>10. stage' \in [Caller -> Stage]
  <2>1. DOMAIN stage' = Caller /\ stage' = [c \in DOMAIN stage' |-> stage'[c]]
    BY <1>1, <1>3
  <2>2. \A c \in Caller : stage'[c] \in Stage
    <3>1. "write" \in Stage
      BY DEF Stage
    <3> HIDE DEF woken, first
    <3> QED
      BY <1>8, <1>9, <3>1
  <2> QED
    BY <2>1, <2>2
<1>11. sampling' \in [Caller -> BOOLEAN]
  <2>1. CASE n = 0
    BY <1>1, <2>1 DEF BridgeTypeOK
  <2>2. CASE n # 0
    <3>1. sampling' = [sampling EXCEPT ![b[n].n] = available]
      BY <1>1, <1>2, <2>2
    <3> QED
      BY <3>1 DEF BridgeTypeOK
  <2> QED
    BY <2>1, <2>2
<1>12. \A c \in Caller : wokenBy'[c] = IF woken[c] = 0 THEN wokenBy[c] ELSE woken[c]
  BY <1>1, <1>3
<1>13. DOMAIN wokenBy' = Caller /\ wokenBy' = [c \in DOMAIN wokenBy' |-> wokenBy'[c]]
  BY <1>1, <1>3
<1> HIDE DEF answers, woken, first
<1>14. wokenBy' \in [Caller -> 0..Len(waiter)]
  <2>1. \A c \in Caller : wokenBy[c] \in 0..Len(waiter)
    BY DEF BridgeTypeOK
  <2>2. waiting \subseteq 0..Len(waiter)
    BY DEF BridgeTypeOK
  <2>3. \A c \in Caller : wokenBy'[c] \in 0..Len(waiter)
    BY <1>5, <1>12, <2>1, <2>2
  <2> QED
    BY <1>13, <2>3
<1>15. waiting' \subseteq 1..Len(waiter) /\ waiting' \subseteq waiting
  BY <1>4 DEF BridgeTypeOK
<1>16. BridgeTypeOK'
  BY <1>3, <1>7, <1>10, <1>11, <1>14, <1>15 DEF BridgeTypeOK
<1>17. \A c \in Caller \ {0} : woken[c] # 0 => stages[c] = "sampling"
  BY <1>5
<1>18. \A c \in Caller \ ({0} \cup first) : stages[c] # "sampling" => stage'[c] = stages[c]
  BY <1>9, <1>17
<1>19. LinesOnce'
  <2>1. ASSUME NEW c \in CallsIn(stdin') \cup CallsIn(buffer')
        PROVE  c \in 1..Len(calls) /\ stage'[c] = "written"
    <3>1. c \in 1..Len(calls) /\ stages[c] = "written" /\ c \notin first
      BY <1>6, <1>7
    <3>2. c \in Caller /\ c # 0
      BY <3>1 DEF Caller
    <3> QED
      BY <1>18, <3>1, <3>2
  <2>2. CallsIn(stdin') \cap CallsIn(buffer') = {}
    BY <1>7
  <2> QED
    BY <1>7, <2>1, <2>2 DEF LinesOnce
<1>20. AnsweredOnce'
  <2>1. \A m \in 1..Len(responses') : responses'[m] \in Caller \ {0}
    OBVIOUS
  <2>2. \A m \in 1..Len(responses') : stage'[responses'[m]] = "done"
    BY <1>8, <1>18, <2>1
  <2> QED
    BY <2>2 DEF AnsweredOnce
<1>21. AwaitsOne'
  <2>1. \A i \in waiting : waiter[i] \in Caller
    BY DEF BridgeTypeOK
  <2>2. ASSUME NEW i \in waiting', waiter[i] # 0
        PROVE  stage'[waiter[i]] = "sampling"
    <3>1. i \in waiting /\ i \notin answers /\ waiter[i] \in Caller \ {0} /\ stages[waiter[i]] = "sampling"
      BY <1>4, <2>1, <2>2
    <3>2. waiter[i] \notin first
      BY <1>8, <3>1
    <3>3. woken[waiter[i]] = 0
      BY <1>5, <3>1
    <3> QED
      BY <1>9, <3>1, <3>2, <3>3
  <2> QED
    BY <1>15, <2>2 DEF AwaitsOne
<1>22. WokenByOwn'
  BY <1>3, <1>5, <1>12 DEF WokenByOwn
<1> QED
  BY <1>16, <1>19, <1>20, <1>21, <1>22 DEF BridgeInv

LEMMA ArriveStep ==
  ASSUME BridgeInv, LinesArrive
  PROVE  BridgeInv'
<1>0. BridgeTypeOK /\ LinesOnce /\ AnsweredOnce /\ AwaitsOne /\ WokenByOwn
  BY DEF BridgeInv
<1>1. PICK lines \in 0..Len(stdin), half \in BOOLEAN :
        /\ stdin' = Leaves(stdin, lines) /\ cut' = half
        /\ Run(buffer \o SubSeq(stdin, 1, lines), stage)
        /\ UNCHANGED <<calls, available, waiter, unanswered, responses, left>>
  BY DEF LinesArrive
<1> DEFINE b == buffer \o SubSeq(stdin, 1, lines)
<1>2. /\ b \in Seq(Line) /\ stdin' \in Seq(Line) /\ OnceIn(b) /\ OnceIn(stdin')
      /\ CallsIn(stdin') \cap CallsIn(b) = {}
      /\ CallsIn(b) \cup CallsIn(stdin') \subseteq CallsIn(buffer) \cup CallsIn(stdin)
  <2>1. /\ buffer \in Seq(Line) /\ stdin \in Seq(Line) /\ lines \in 0..Len(stdin)
        /\ OnceIn(buffer) /\ OnceIn(stdin) /\ CallsIn(buffer) \cap CallsIn(stdin) = {}
    BY <1>0 DEF BridgeTypeOK, LinesOnce
  <2> QED
    BY <1>1, <2>1, ChunkMoves
<1>3. Run(b, stage)
  BY <1>1
<1> HIDE DEF b
<1>4. \A c \in CallsIn(stdin') \cup CallsIn(b) : c \in 1..Len(calls) /\ stage[c] = "written"
  BY <1>0, <1>2 DEF LinesOnce
<1>5. stage \in [Caller -> Stage] /\ responses' \in Seq(Caller \ {0}) /\ cut' \in BOOLEAN
  BY <1>0, <1>1 DEF BridgeTypeOK
<1>6. /\ \A m, n \in 1..Len(responses') : responses'[m] = responses'[n] => m = n
      /\ \A n \in 1..Len(responses') : stage[responses'[n]] = "done"
  BY <1>0, <1>1 DEF AnsweredOnce
<1>7. \A i \in waiting : waiter[i] # 0 =>
          stage[waiter[i]] = "sampling" /\ \A j \in waiting : waiter[i] = waiter[j] => i = j
  BY <1>0 DEF AwaitsOne
<1> QED
  BY <1>0, <1>1, <1>2, <1>3, <1>4, <1>5, <1>6, <1>7, RunKeeps

LEMMA ReplyStep ==
  ASSUME BridgeInv, NEW c \in Caller \ {0}, Reply(c)
  PROVE  BridgeInv'
<1>0. BridgeTypeOK /\ LinesOnce /\ AnsweredOnce /\ AwaitsOne /\ WokenByOwn
  BY DEF BridgeInv
<1> DEFINE stages == [stage EXCEPT ![c] = "done"]
<1>1. /\ stage[c] = "reply" /\ responses' = Append(responses, c) /\ Run(buffer, stages)
      /\ UNCHANGED <<calls, stdin, cut, available, waiter, unanswered, left>>
  BY DEF Reply
<1>2. stages \in [Caller -> Stage] /\ stages[c] = "done" /\ \A x \in Caller \ {c} : stages[x] = stage[x]
  BY <1>0 DEF BridgeTypeOK, Stage
<1> HIDE DEF stages
<1>3. /\ buffer \in Seq(Line) /\ stdin' \in Seq(Line) /\ cut' \in BOOLEAN
      /\ OnceIn(buffer) /\ OnceIn(stdin') /\ CallsIn(stdin') \cap CallsIn(buffer) = {}
  BY <1>0, <1>1 DEF BridgeTypeOK, LinesOnce
<1>4. \A x \in CallsIn(stdin') \cup CallsIn(buffer) : x \in 1..Len(calls) /\ stages[x] = "written"
  <2>1. \A x \in CallsIn(stdin') \cup CallsIn(buffer) : x \in 1..Len(calls) /\ stage[x] = "written"
    BY <1>0, <1>1 DEF LinesOnce
  <2> QED
    BY <1>1, <1>2, <2>1 DEF Caller
<1>5. /\ responses' \in Seq(Caller \ {0}) /\ Len(responses') = Len(responses) + 1
      /\ responses'[Len(responses) + 1] = c /\ Len(responses) \in Nat
      /\ \A n \in 1..Len(responses) : responses'[n] = responses[n] /\ responses[n] \in Caller
  BY <1>0, <1>1 DEF BridgeTypeOK
<1>6. 1..Len(responses') = 1..Len(responses) \cup {Len(responses) + 1}
  BY <1>5
<1>7. \A n \in 1..Len(responses) : responses[n] # c /\ stage[responses[n]] = "done"
  BY <1>0, <1>1 DEF AnsweredOnce
<1>8. \A m, n \in 1..Len(responses') : responses'[m] = responses'[n] => m = n
  BY <1>0, <1>5, <1>6, <1>7 DEF AnsweredOnce
<1>9. \A n \in 1..Len(responses') : stages[responses'[n]] = "done"
  BY <1>2, <1>5, <1>6, <1>7
<1>10. \A i \in waiting : waiter[i] # 0 =>
           stages[waiter[i]] = "sampling" /\ \A j \in waiting : waiter[i] = waiter[j] => i = j
  <2>1. \A i \in waiting : waiter[i] \in Caller
    BY <1>0 DEF BridgeTypeOK
  <2> QED
    BY <1>0, <1>1, <1>2, <2>1 DEF AwaitsOne
<1> QED
  BY <1>0, <1>1, <1>2, <1>3, <1>4, <1>5, <1>8, <1>9, <1>10, RunKeeps

-----------------------------------------------------------------------------

LEMMA BridgeBegins ==
  ASSUME BridgeInit
  PROVE  BridgeInv
<1>1. calls = <<>> /\ Len(calls) = 0 /\ Caller = {0}
  BY DEF BridgeInit, Caller
<1>2. /\ stdin = <<>> /\ cut = FALSE /\ buffer = <<>> /\ available = FALSE
      /\ waiter = <<>> /\ waiting = {} /\ unanswered = {} /\ responses = <<>>
  BY DEF BridgeInit
<1>3. stage \in [Caller -> Stage]
  BY <1>1 DEF BridgeInit, Stage
<1>4. sampling \in [Caller -> BOOLEAN]
  BY <1>1 DEF BridgeInit
<1>5. left \in [Caller -> Int]
  BY <1>1 DEF BridgeInit
<1>6. wokenBy \in [Caller -> 0..Len(waiter)] /\ wokenBy[0] = 0
  BY <1>1, <1>2 DEF BridgeInit
<1>7. BridgeTypeOK
  BY <1>1, <1>2, <1>3, <1>4, <1>5, <1>6 DEF BridgeTypeOK
<1>8. LinesOnce
  BY <1>2 DEF LinesOnce, OnceIn, CallsIn
<1>9. AnsweredOnce /\ AwaitsOne
  BY <1>2 DEF AnsweredOnce, AwaitsOne
<1>10. WokenByOwn
  BY <1>1, <1>6 DEF WokenByOwn
<1> QED
  BY <1>7, <1>8, <1>9, <1>10 DEF BridgeInv

LEMMA BridgeRests ==
  ASSUME BridgeInv, UNCHANGED bridgeVars
  PROVE  BridgeInv'
<1>1. /\ UNCHANGED <<calls, stdin, cut, buffer, stage, sampling, available, waiter, waiting, unanswered>>
      /\ UNCHANGED <<responses, left, wokenBy>>
  BY DEF bridgeVars
<1>2. stage' \in [Caller -> Stage] /\ sampling' \in [Caller -> BOOLEAN] /\ available' \in BOOLEAN
      /\ left' \in [Caller -> Int]
  BY <1>1 DEF BridgeInv, BridgeTypeOK
<1> QED
  BY <1>1, <1>2, StagesMove

LEMMA BridgeGoesOn ==
  ASSUME BridgeInv, [BridgeNext]_bridgeVars
  PROVE  BridgeInv'
<1>1. 0 \in Caller
  BY DEF BridgeInv, BridgeTypeOK, Caller
<1>2. ASSUME NEW c \in Caller, Dispatch(c)
      PROVE  BridgeInv'
  BY <1>2, DispatchStep, SampleStep DEF Dispatch
<1>3. CASE Serve
  BY <1>2, <1>3, ArriveStep, TimeoutStep, HandshakeStep, ReplyStep DEF Serve
<1>4. CASE UNCHANGED bridgeVars
  BY <1>4, BridgeRests
<1>5. CASE Dispatch(0)
  BY <1>1, <1>2, <1>5
<1> QED
  BY <1>3, <1>4, <1>5, HostCallsStep, HostAnswersStep, LoopSteps DEF BridgeNext

\* Each response of a list of different ones counts.
LEMMA BridgeInvStates == BridgeInv => LinesAnsweredOnce
<1> SUFFICES ASSUME BridgeInv
             PROVE  LinesAnsweredOnce
  OBVIOUS
<1>0. BridgeTypeOK /\ AnsweredOnce /\ WokenByOwn
  BY DEF BridgeInv
<1> DEFINE n == Len(responses)
<1>1. n \in Nat /\ responses \in [1..n -> Members(responses)]
  BY <1>0 DEF BridgeTypeOK, Members
<1>2. \A i, j \in 1..n : responses[i] = responses[j] => i = j
  BY <1>0 DEF AnsweredOnce
<1> HIDE DEF n
<1>3. responses \in Injection(1..n, Members(responses))
  BY <1>1, <1>2 DEF Injection, IsInjective
<1>4. responses \in Surjection(1..n, Members(responses))
  BY <1>1 DEF Surjection, Members, n
<1>5. IsFiniteSet(1..n) /\ Cardinality(1..n) = n
  BY <1>1, FS_Interval
<1>6. Cardinality(Members(responses)) = n
  BY <1>3, <1>4, <1>5, FS_Surjection
<1>7. \A c \in Caller : stage[c] # "again"
  BY <1>0 DEF BridgeTypeOK, Stage
<1> QED
  BY <1>0, <1>6, <1>7 DEF LinesAnsweredOnce, WokenByOwn, n

\* Each call is dispatched once and answered once, and a dispatch is woken with the answer to
\* its own sampling request, for any calls of the host (StdioBridge, requestSampling).
THEOREM BridgeAnswersOnce == BridgeSpec => []LinesAnsweredOnce
<1>1. BridgeInit => BridgeInv
  BY BridgeBegins
<1>2. BridgeInv /\ [BridgeNext]_bridgeVars => BridgeInv'
  BY BridgeGoesOn
<1> QED
  BY <1>1, <1>2, BridgeInvStates, PTL DEF BridgeSpec

-------------------------------------------------------------------------------
(* The periodic loop. OneChain is inductive with the types.                   *)

LEMMA LoopBegins ==
  ASSUME LoopInit
  PROVE  LoopInv
<1>1. /\ raw = 0 /\ running = "no" /\ stopped = FALSE /\ backoffSteps = 0 /\ timer = 1 /\ errors = 0
  BY DEF LoopInit
<1>2. 0 \in 0..MaxRaw /\ 0 \in 0..MaxErrors /\ 0 \in 0..MaxBackoff /\ 1 \in Nat
  BY LoopAssumption
<1>3. LoopTypeOK
  BY <1>1, <1>2 DEF LoopTypeOK
<1>4. OneChain
  BY <1>1 DEF OneChain
<1> QED
  BY <1>3, <1>4 DEF LoopInv

LEMMA BackoffBounded ==
  ASSUME LoopTypeOK, MoreBackoff
  PROVE  backoffSteps' \in 0..MaxBackoff
  BY LoopAssumption DEF LoopTypeOK, MoreBackoff, Least

LEMMA LoopGoesOn ==
  ASSUME LoopInv, [LoopNext]_loopVars
  PROVE  LoopInv'
<1>0. LoopTypeOK /\ OneChain
  BY DEF LoopInv
<1>1. CASE Arrive
  BY <1>0, <1>1, LoopAssumption DEF Arrive, LoopInv, LoopTypeOK, OneChain
<1>2. CASE Elapse
  BY <1>0, <1>2 DEF Elapse, LoopInv, LoopTypeOK, OneChain
<1>3. CASE Fire
  BY <1>0, <1>3 DEF Fire, LoopInv, LoopTypeOK, OneChain
<1>4. CASE Look
  <2>1. /\ running = "look" /\ running' \in {"drain", "finally"}
        /\ UNCHANGED <<raw, stopped, timer>>
        /\ UNCHANGED errors \/ LoopError
        /\ UNCHANGED backoffSteps \/ MoreBackoff
    BY <1>4 DEF Look
  <2>2. errors' \in 0..MaxErrors /\ backoffSteps' \in 0..MaxBackoff
    BY <1>0, <2>1, LoopAssumption, BackoffBounded DEF LoopTypeOK, LoopError
  <2> QED
    BY <1>0, <2>1, <2>2 DEF LoopInv, LoopTypeOK, OneChain
<1>5. CASE Drain
  <2>1. /\ running = "drain" /\ running' = "finally"
        /\ UNCHANGED <<stopped, timer>>
        /\ UNCHANGED errors \/ LoopError
        /\ UNCHANGED backoffSteps \/ backoffSteps' = 0 \/ MoreBackoff
        /\ UNCHANGED raw \/ raw' \in 0..raw - 1
    BY <1>5 DEF Drain
  <2>2. errors' \in 0..MaxErrors /\ backoffSteps' \in 0..MaxBackoff
    BY <1>0, <2>1, LoopAssumption, BackoffBounded DEF LoopTypeOK, LoopError
  <2>3. raw' \in 0..MaxRaw
    BY <1>0, <2>1, LoopAssumption DEF LoopTypeOK
  <2> QED
    BY <1>0, <2>1, <2>2, <2>3 DEF LoopInv, LoopTypeOK, OneChain
<1>6. CASE Finally
  <2>1. 2 ^ backoffSteps \in Nat \ {0}
    BY <1>0, PowersAssumption DEF LoopTypeOK
  <2>2. /\ running = "finally" /\ running' = "no"
        /\ timer' \in Nat /\ (stopped => timer' = 0) /\ (~stopped => timer' # 0)
        /\ UNCHANGED <<raw, stopped, backoffSteps, errors>>
    BY <1>6, <2>1 DEF Finally
  <2> QED
    BY <1>0, <2>2 DEF LoopInv, LoopTypeOK, OneChain
<1>7. CASE StopLoop
  BY <1>0, <1>7 DEF StopLoop, LoopInv, LoopTypeOK, OneChain
<1>8. CASE UNCHANGED loopVars
  BY <1>0, <1>8 DEF loopVars, LoopInv, LoopTypeOK, OneChain
<1> QED
  BY <1>1, <1>2, <1>3, <1>4, <1>5, <1>6, <1>7, <1>8 DEF LoopNext, Turn

\* The periodic drain is one chain of ticks and timers, for any back-off and however often
\* looks and drains fail (runPeriodicDaemonDrain, runPeriodicDrain).
THEOREM LoopIsOneChain == LoopSpec => []OneChain
<1>1. LoopInv => OneChain
  BY DEF LoopInv
<1>2. LoopInit => LoopInv
  BY LoopBegins
<1>3. LoopInv /\ [LoopNext]_loopVars => LoopInv'
  BY LoopGoesOn
<1> QED
  BY <1>1, <1>2, <1>3, PTL DEF LoopSpec

-------------------------------------------------------------------------------
(* Frames over a stream that is cut anywhere. StreamInv is inductive: buffer  *)
(* and pipe hold the rest of what was written from the first frame on that    *)
(* the decoder has not returned (Synced), so the loop of push finds a header  *)
(* wherever a round leaves it. The lemmas first say what the two recursive    *)
(* functions of Wire are.                                                     *)

\* The stream grows by the cells of one frame after the other.
LEMMA WrittenIs ==
  ASSUME NEW f \in Frames
  PROVE  /\ Written(f)[0] = <<>>
         /\ \A n \in 1..Len(f) : Written(f)[n] = Written(f)[n - 1] \o Cells(f, n)
<1> DEFINE Goes(g, n) == IF n = 0 THEN <<>> ELSE g[n - 1] \o Cells(f, n)
           Grows(g, k) == g = [n \in 0..k |-> Goes(g, n)]
           S == {k \in Nat : \E g : Grows(g, k)}
<1>1. Len(f) \in Nat
  BY FrameAssumption DEF Frames
<1>2. 0 \in S
  <2>1. Grows([n \in 0..0 |-> <<>>], 0)
    OBVIOUS
  <2> QED
    BY <2>1
<1>3. ASSUME NEW k \in Nat, k \in S
      PROVE  k + 1 \in S
  <2>1. PICK g : Grows(g, k)
    BY <1>3
  <2> DEFINE h == [n \in 0..(k + 1) |-> IF n = k + 1 THEN Goes(g, n) ELSE g[n]]
  <2> HIDE DEF Goes
  <2>2. \A n \in 0..k : h[n] = g[n] /\ g[n] = Goes(g, n)
    BY <2>1
  <2>3. \A n \in 0..(k + 1) : (n # k + 1 => n \in 0..k) /\ (n # 0 => n - 1 \in 0..k)
    OBVIOUS
  <2>4. \A n \in 0..(k + 1) : h[n] = Goes(g, n) /\ (n # 0 => n - 1 \in 0..k)
    BY <2>2, <2>3
  <2>5. h = [n \in 0..(k + 1) |-> h[n]]
    OBVIOUS
  <2> HIDE DEF h
  <2>6. \A n \in 0..(k + 1) : Goes(g, n) = Goes(h, n)
    BY <2>2, <2>4 DEF Goes
  <2>7. Grows(h, k + 1)
    BY <2>4, <2>5, <2>6
  <2> QED
    BY <2>7
<1> HIDE DEF S
<1>4. Len(f) \in S
  BY <1>1, <1>2, <1>3, SetInduction
<1>5. PICK g : Grows(g, Len(f))
  BY <1>4 DEF S
<1>6. Grows(Written(f), Len(f))
  BY <1>5 DEF Written
<1> HIDE DEF Goes
<1>7. \A n \in 0..Len(f) : Written(f)[n] = Goes(Written(f), n)
  BY <1>6
<1>8. 0 \in 0..Len(f) /\ \A n \in 1..Len(f) : n \in 0..Len(f) /\ n # 0
  BY <1>1
<1> QED
  BY <1>7, <1>8 DEF Goes

\* The elements of a sequence that two typed ones make.
LEMMA Concatenated ==
  \A T : \A s, t \in Seq(T) :
      /\ s \o t \in Seq(T) /\ Len(s) \in Nat /\ Len(s \o t) = Len(s) + Len(t)
      /\ \A m \in 1..Len(s) : (s \o t)[m] = s[m]
      /\ \A m \in 1..Len(t) : (s \o t)[Len(s) + m] = t[m]
OBVIOUS

\* What one more frame's cells make of a stream.
LEMMA Extended ==
  \A T : \A s, t \in Seq(T) : \A size \in Nat :
      Len(t) = 1 + size => /\ Len(s \o t) = Len(s) + 1 + size
                           /\ (s \o t)[Len(s) + 1] = t[1]
                           /\ \A m \in 1..Len(s) : (s \o t)[m] = s[m]
<1> SUFFICES ASSUME NEW T, NEW s \in Seq(T), NEW t \in Seq(T), NEW size \in Nat, Len(t) = 1 + size
             PROVE  /\ Len(s \o t) = Len(s) + 1 + size
                    /\ (s \o t)[Len(s) + 1] = t[1]
                    /\ \A m \in 1..Len(s) : (s \o t)[m] = s[m]
  OBVIOUS
<1>1. 1 \in 1..Len(t) /\ Len(s) \in Nat
  OBVIOUS
<1> QED
  BY <1>1

\* The cells of a frame are a header and its body.
LEMMA CellsAre ==
  ASSUME NEW f \in Frames, NEW i \in 1..Len(f)
  PROVE  /\ f[i].size \in Nat
         /\ Cells(f, i) \in Seq([at : 1..Len(f), header : BOOLEAN])
         /\ Len(Cells(f, i)) = 1 + f[i].size
         /\ Cells(f, i)[1].at = i
<1> DEFINE T == [at : 1..Len(f), header : BOOLEAN]
           head == <<[at |-> i, header |-> TRUE]>>
           body == [n \in 1..f[i].size |-> [at |-> i, header |-> FALSE]]
<1>1. f[i].size \in Nat
  BY FrameAssumption DEF Frames
<1>2. head \in Seq(T) /\ Len(head) = 1 /\ head[1].at = i
  OBVIOUS
<1>3. body \in Seq(T) /\ Len(body) = f[i].size
  <2>1. [at |-> i, header |-> FALSE] \in T
    OBVIOUS
  <2> HIDE DEF T
  <2>2. \A x \in T : LET s == [n \in 1..f[i].size |-> x] IN s \in Seq(T) /\ Len(s) = f[i].size
    BY <1>1
  <2> QED
    BY <2>1, <2>2
<1>4. Cells(f, i) = head \o body
  BY DEF Cells
<1> HIDE DEF head, body, T
<1>5. 1 \in 1..Len(head)
  BY <1>2
<1>6. /\ head \o body \in Seq(T) /\ Len(head \o body) = Len(head) + Len(body)
      /\ (head \o body)[1] = head[1]
  <2>1. \A s, t \in Seq(T) : /\ s \o t \in Seq(T) /\ Len(s \o t) = Len(s) + Len(t)
                            /\ \A m \in 1..Len(s) : (s \o t)[m] = s[m]
    BY Concatenated
  <2> QED
    BY <1>2, <1>3, <1>5, <2>1
<1> QED
  BY <1>1, <1>2, <1>3, <1>4, <1>6 DEF T

\* Where the frames begin and end in the stream.
LEMMA WrittenGrows ==
  ASSUME NEW f \in Frames
  PROVE  /\ Len(f) \in Nat /\ \A i \in 1..Len(f) : f[i].size \in Nat
         /\ \A n \in 0..Len(f) : Written(f)[n] \in Seq([at : 1..Len(f), header : BOOLEAN])
         /\ Written(f)[0] = <<>>
         /\ \A i \in 1..Len(f) :
                /\ Len(Written(f)[i]) = Len(Written(f)[i - 1]) + 1 + f[i].size
                /\ Written(f)[i][Len(Written(f)[i - 1]) + 1].at = i
                /\ \A m \in 1..Len(Written(f)[i - 1]) : Written(f)[i][m] = Written(f)[i - 1][m]
<1> DEFINE w == Written(f)
           T == [at : 1..Len(f), header : BOOLEAN]
           S == {n \in Nat : n <= Len(f) => w[n] \in Seq(T)}
<1>1. Len(f) \in Nat /\ \A i \in 1..Len(f) : f[i].size \in Nat
  BY CellsAre DEF Frames
<1>2. w[0] = <<>> /\ \A i \in 1..Len(f) : w[i] = w[i - 1] \o Cells(f, i)
  BY WrittenIs
<1>3. \A i \in 1..Len(f) : /\ Cells(f, i) \in Seq(T) /\ Len(Cells(f, i)) = 1 + f[i].size
                           /\ Cells(f, i)[1].at = i
  BY CellsAre
<1> HIDE DEF w, T
<1>4. 0 \in S
  <2>1. <<>> \in Seq(T)
    OBVIOUS
  <2> QED
    BY <1>2, <2>1
<1>5. ASSUME NEW n \in Nat, n \in S
      PROVE  n + 1 \in S
  <2> SUFFICES ASSUME n + 1 <= Len(f) PROVE w[n + 1] \in Seq(T)
    OBVIOUS
  <2>1. n + 1 \in 1..Len(f) /\ (n + 1) - 1 = n /\ w[n] \in Seq(T)
    BY <1>1, <1>5
  <2>2. w[n + 1] = w[n] \o Cells(f, n + 1)
    BY <1>2, <2>1
  <2>3. Cells(f, n + 1) \in Seq(T)
    BY <1>3, <2>1
  <2> QED
    BY <2>1, <2>2, <2>3, Concatenated
<1> HIDE DEF S
<1>6. \A n \in Nat : n \in S
  BY <1>4, <1>5, SetInduction
<1>7. \A n \in 0..Len(f) : w[n] \in Seq(T)
  BY <1>1, <1>6 DEF S
<1>8. ASSUME NEW i \in 1..Len(f)
      PROVE  /\ Len(w[i]) = Len(w[i - 1]) + 1 + f[i].size
             /\ w[i][Len(w[i - 1]) + 1].at = i
             /\ \A m \in 1..Len(w[i - 1]) : w[i][m] = w[i - 1][m]
  <2>1. i - 1 \in 0..Len(f) /\ f[i].size \in Nat
    BY <1>1
  <2>2. w[i - 1] \in Seq(T) /\ w[i] = w[i - 1] \o Cells(f, i)
    BY <1>2, <1>7, <2>1
  <2>3. Cells(f, i) \in Seq(T) /\ Len(Cells(f, i)) = 1 + f[i].size /\ Cells(f, i)[1].at = i
    BY <1>3
  <2> DEFINE s == w[i - 1]  t == Cells(f, i)  x == w[i]  size == f[i].size
  <2>4. s \in Seq(T) /\ t \in Seq(T) /\ size \in Nat /\ Len(t) = 1 + size /\ x = s \o t
    BY <2>1, <2>2, <2>3
  <2> HIDE DEF s, t, x, size
  <2>5. /\ Len(x) = Len(s) + 1 + size /\ x[Len(s) + 1] = t[1]
        /\ \A m \in 1..Len(s) : x[m] = s[m]
    BY <2>4, Extended
  <2> QED
    BY <2>3, <2>5 DEF s, t, x, size
<1> QED
  BY <1>1, <1>2, <1>7, <1>8 DEF w, T

\* What was written stays a prefix of what will be; so each frame's header is where the frames
\* before it end.
LEMMA FramesInStream ==
  ASSUME NEW f \in Frames
  PROVE  \A n \in 0..Len(f), i \in 0..Len(f) :
             i < n => /\ Len(Written(f)[i]) + 1 + f[i + 1].size = Len(Written(f)[i + 1])
                      /\ Len(Written(f)[i + 1]) <= Len(Written(f)[n])
                      /\ Written(f)[n][Len(Written(f)[i]) + 1].at = i + 1
<1> DEFINE w == Written(f)
           Holds(n, i) == /\ Len(w[i]) + 1 + f[i + 1].size = Len(w[i + 1]) /\ Len(w[i + 1]) <= Len(w[n])
                          /\ w[n][Len(w[i]) + 1].at = i + 1
           S == {n \in Nat : n <= Len(f) => \A i \in 0..Len(f) : i < n => Holds(n, i)}
<1>1. Len(f) \in Nat /\ \A i \in 1..Len(f) : f[i].size \in Nat
  BY WrittenGrows
<1>2. \A n \in 0..Len(f) : Len(w[n]) \in Nat
  BY WrittenGrows
<1>3. \A i \in 1..Len(f) : /\ Len(w[i]) = Len(w[i - 1]) + 1 + f[i].size
                           /\ w[i][Len(w[i - 1]) + 1].at = i
                           /\ \A m \in 1..Len(w[i - 1]) : w[i][m] = w[i - 1][m]
  BY WrittenGrows
<1> HIDE DEF w
<1>4. 0 \in S
  BY <1>1
<1>5. ASSUME NEW n \in Nat, n \in S
      PROVE  n + 1 \in S
  <2> HIDE DEF Holds
  <2> SUFFICES ASSUME n + 1 <= Len(f), NEW i \in 0..Len(f), i < n + 1
               PROVE  Holds(n + 1, i)
    OBVIOUS
  <2> USE DEF Holds
  <2>1. /\ n + 1 \in 1..Len(f) /\ n \in 0..Len(f) /\ (n + 1) - 1 = n
        /\ i + 1 \in 1..Len(f) /\ (i + 1) - 1 = i /\ i + 1 \in 0..Len(f) /\ n + 1 \in 0..Len(f)
    BY <1>1
  <2>2. /\ Len(w[n]) \in Nat /\ Len(w[n + 1]) \in Nat /\ Len(w[i]) \in Nat /\ Len(w[i + 1]) \in Nat
        /\ f[n + 1].size \in Nat /\ f[i + 1].size \in Nat
    BY <1>1, <1>2, <2>1
  <2>3. Len(w[n + 1]) = Len(w[n]) + 1 + f[n + 1].size /\ \A m \in 1..Len(w[n]) : w[n + 1][m] = w[n][m]
    BY <1>3, <2>1
  <2>4. Len(w[i + 1]) = Len(w[i]) + 1 + f[i + 1].size /\ w[i + 1][Len(w[i]) + 1].at = i + 1
    BY <1>3, <2>1
  <2>5. CASE i = n
    BY <2>2, <2>4, <2>5
  <2>6. CASE i < n
    <3>1. Holds(n, i)
      BY <1>5, <2>1, <2>6
    <3>2. Len(w[i]) + 1 \in 1..Len(w[n])
      <4>1. \A x, y, z, s \in Nat : x + 1 + s = y /\ y <= z => x + 1 \in 1..z
        OBVIOUS
      <4> QED
        BY <2>2, <3>1, <4>1
    <3>3. w[n + 1][Len(w[i]) + 1] = w[n][Len(w[i]) + 1]
      BY <2>3, <3>2
    <3>4. \A x, y, z, s \in Nat : x <= y /\ z = y + 1 + s => x <= z
      OBVIOUS
    <3>5. Len(w[i + 1]) <= Len(w[n + 1])
      BY <2>2, <2>3, <3>1, <3>4
    <3> QED
      BY <3>1, <3>3, <3>5
  <2> QED
    BY <2>1, <2>5, <2>6
<1> HIDE DEF S
<1>6. \A n \in Nat : n \in S
  BY <1>4, <1>5, SetInduction
<1>7. \A n \in 0..Len(f) : n \in Nat /\ n <= Len(f)
  BY <1>1
<1>8. \A n \in 0..Len(f), i \in 0..Len(f) : i < n => Holds(n, i)
  BY <1>6, <1>7 DEF S
<1> QED
  BY <1>8 DEF w

\* The loop of push from an offset on is one round, and the loop from where that leaves it.
LEMMA LoopIs ==
  ASSUME frames \in Frames, NEW b \in Seq(Cell)
  PROVE  \A o \in 0..Len(b) :
             Loop(b)[o] = IF Returns(b, o)
             THEN [out |-> <<b[o + 1].at>> \o Loop(b)[Advance(b, o)].out, end |-> Loop(b)[Advance(b, o)].end]
                          ELSE [out |-> <<>>, end |-> o]
<1> DEFINE L == Len(b)
           Goes(g, o) == IF Returns(b, o)
                         THEN [out |-> <<b[o + 1].at>> \o g[Advance(b, o)].out, end |-> g[Advance(b, o)].end]
                         ELSE [out |-> <<>>, end |-> o]
           Runs(g, k) == g = [o \in (L - k)..L |-> Goes(g, o)]
           S == {k \in Nat : k <= L => \E g : Runs(g, k)}
<1>1. L \in Nat
  OBVIOUS
<1>2. \A o \in 0..L : Returns(b, o) => o < L /\ Advance(b, o) \in (o + 1)..L
  <2> SUFFICES ASSUME NEW o \in 0..L, Returns(b, o)
               PROVE  o < L /\ Advance(b, o) \in (o + 1)..L
    OBVIOUS
  <2>1. o < L /\ o + 1 + FrameAt(b, o).size <= L
    BY DEF Returns, Complete
  <2>2. b[o + 1] \in Cell
    BY <2>1
  <2>3. FrameAt(b, o).size \in Nat
    BY <2>2, WrittenGrows DEF FrameAt, Cell
  <2> QED
    BY <2>1, <2>3 DEF Advance
<1> HIDE DEF L
<1>3. 0 \in S
  <2> DEFINE g == [o \in {L} |-> [out |-> <<>>, end |-> o]]
  <2>1. ~Returns(b, L)
    BY <1>1, <1>2
  <2>2. (L - 0)..L = {L}
    BY <1>1
  <2>3. Runs(g, 0)
    BY <2>1, <2>2
  <2> QED
    BY <2>3
<1>4. ASSUME NEW k \in Nat, k \in S
      PROVE  k + 1 \in S
  <2> HIDE DEF Runs, Goes
  <2> SUFFICES ASSUME k + 1 <= L PROVE \E g : Runs(g, k + 1)
    OBVIOUS
  <2>1. k <= L
    BY <1>1
  <2>2. PICK g : Runs(g, k)
    BY <1>4, <2>1
  <2> DEFINE first == L - (k + 1)
             h == [o \in first..L |-> IF o = first THEN Goes(g, o) ELSE g[o]]
  <2>3. /\ first \in 0..L /\ first < L - k
        /\ \A o \in first..L : o \in 0..L /\ (o # first => o \in (L - k)..L)
        /\ \A o \in (L - k)..L : o \in first..L /\ o # first
        /\ \A o \in first..L : (o + 1)..L \subseteq (L - k)..L
    BY <1>1
  <2> HIDE DEF first
  <2>4. \A o \in (L - k)..L : g[o] = Goes(g, o)
    BY <2>2 DEF Runs
  <2>5. \A o \in (L - k)..L : h[o] = g[o]
    BY <2>3
  <2>6. \A o \in first..L : h[o] = Goes(g, o)
    BY <2>3, <2>4
  <2>7. h = [o \in first..L |-> h[o]]
    OBVIOUS
  <2> HIDE DEF h
  <2>8. \A o \in first..L : Goes(g, o) = Goes(h, o)
    <3> SUFFICES ASSUME NEW o \in first..L
                 PROVE  Goes(g, o) = Goes(h, o)
      OBVIOUS
    <3>1. Returns(b, o) => h[Advance(b, o)] = g[Advance(b, o)]
      BY <1>2, <2>3, <2>5
    <3> QED
      BY <3>1 DEF Goes
  <2>9. h = [o \in first..L |-> Goes(h, o)]
    BY <2>6, <2>7, <2>8
  <2> QED
    BY <2>9 DEF first, Runs
<1> HIDE DEF S, Goes, Runs
<1>5. L \in S
  BY <1>1, <1>3, <1>4, SetInduction
<1>6. PICK g : Runs(g, L)
  BY <1>1, <1>5 DEF S
<1>7. g = [o \in 0..L |-> Goes(g, o)]
  BY <1>1, <1>6 DEF Runs
<1>8. Loop(b) = [o \in 0..L |-> Goes(Loop(b), o)]
  BY <1>7 DEF Loop, L, Goes
<1>9. \A o \in 0..L : Loop(b)[o] = Goes(Loop(b), o)
  BY <1>8
<1> QED
  BY <1>9 DEF L, Goes

\* The two parts of a sequence that is cut.
LEMMA CutOf ==
  \A T : \A s \in Seq(T) : \A k \in 0..Len(s) :
      /\ SubSeq(s, 1, k) \in Seq(T) /\ Len(SubSeq(s, 1, k)) = k
      /\ \A m \in 1..k : SubSeq(s, 1, k)[m] = s[m]
      /\ SubSeq(s, k + 1, Len(s)) \in Seq(T) /\ Len(SubSeq(s, k + 1, Len(s))) = Len(s) - k
      /\ \A m \in 1..(Len(s) - k) : SubSeq(s, k + 1, Len(s))[m] = s[k + m]
OBVIOUS

\* One frame more at the front.
LEMMA OneMore ==
  \A i, e \in Nat : i < e =>
      <<i + 1>> \o [m \in 1..(e - (i + 1)) |-> (i + 1) + m] = [m \in 1..(e - i) |-> i + m]
<1> SUFFICES ASSUME NEW i \in Nat, NEW e \in Nat, i < e
             PROVE  <<i + 1>> \o [m \in 1..(e - (i + 1)) |-> (i + 1) + m] = [m \in 1..(e - i) |-> i + m]
  OBVIOUS
<1> DEFINE s == <<i + 1>>
           t == [m \in 1..(e - (i + 1)) |-> (i + 1) + m]
           u == [m \in 1..(e - i) |-> i + m]
<1>1. s \in Seq(Nat) /\ Len(s) = 1 /\ s[1] = i + 1
  OBVIOUS
<1>2. t \in Seq(Nat) /\ Len(t) = e - (i + 1) /\ \A m \in 1..(e - (i + 1)) : t[m] = (i + 1) + m
  OBVIOUS
<1>3. u \in Seq(Nat) /\ Len(u) = e - i /\ \A m \in 1..(e - i) : u[m] = i + m
  OBVIOUS
<1> HIDE DEF s, t, u
<1>4. /\ s \o t \in Seq(Nat) /\ Len(s \o t) = Len(s) + Len(t)
      /\ \A m \in 1..Len(s) : (s \o t)[m] = s[m]
      /\ \A m \in 1..Len(t) : (s \o t)[Len(s) + m] = t[m]
  <2>1. s \in Seq(Nat) /\ t \in Seq(Nat)
    BY <1>1, <1>2
  <2> QED
    BY <2>1, Concatenated
<1>5. /\ s \o t \in Seq(Nat) /\ Len(s \o t) = 1 + (e - (i + 1))
      /\ \A m \in 1..1 : (s \o t)[m] = s[m]
      /\ \A m \in 1..(e - (i + 1)) : (s \o t)[1 + m] = t[m]
  BY <1>4, <1>1, <1>2
<1>6. \A m \in 1..(e - i) : (s \o t)[m] = u[m]
  <2> SUFFICES ASSUME NEW m \in 1..(e - i) PROVE (s \o t)[m] = i + m
    BY <1>3
  <2>1. CASE m = 1
    BY <1>1, <1>5, <2>1
  <2>2. CASE m # 1
    <3>1. m - 1 \in 1..(e - (i + 1)) /\ 1 + (m - 1) = m
      BY <2>2
    <3>2. (s \o t)[m] = t[m - 1]
      BY <1>5, <3>1
    <3>3. t[m - 1] = (i + 1) + (m - 1)
      BY <1>2, <3>1
    <3> QED
      BY <3>2, <3>3
  <2> QED
    BY <2>1, <2>2
<1>7. Len(s \o t) = Len(u)
  BY <1>3, <1>5
<1>8. s \o t = u
  <2>1. \A x, y \in Seq(Nat) : Len(x) = Len(y) /\ (\A m \in 1..Len(y) : x[m] = y[m]) => x = y
    OBVIOUS
  <2> QED
    BY <1>3, <1>5, <1>6, <1>7, <2>1
<1> QED
  BY <1>8 DEF s, t, u

\* Frames j + 1 up to e behind the first j.
LEMMA Joined ==
  \A j, e \in Nat : j <= e => [i \in 1..j |-> i] \o [m \in 1..(e - j) |-> j + m] = [i \in 1..e |-> i]
<1> SUFFICES ASSUME NEW j \in Nat, NEW e \in Nat, j <= e
             PROVE  [i \in 1..j |-> i] \o [m \in 1..(e - j) |-> j + m] = [i \in 1..e |-> i]
  OBVIOUS
<1> DEFINE s == [i \in 1..j |-> i]
           t == [m \in 1..(e - j) |-> j + m]
           u == [i \in 1..e |-> i]
<1>1. s \in Seq(Nat) /\ Len(s) = j /\ \A m \in 1..j : s[m] = m
  OBVIOUS
<1>2. t \in Seq(Nat) /\ Len(t) = e - j /\ \A m \in 1..(e - j) : t[m] = j + m
  OBVIOUS
<1>3. u \in Seq(Nat) /\ Len(u) = e /\ \A m \in 1..e : u[m] = m
  OBVIOUS
<1> HIDE DEF s, t, u
<1>4. /\ s \o t \in Seq(Nat) /\ Len(s \o t) = Len(s) + Len(t)
      /\ \A m \in 1..Len(s) : (s \o t)[m] = s[m]
      /\ \A m \in 1..Len(t) : (s \o t)[Len(s) + m] = t[m]
  <2>1. s \in Seq(Nat) /\ t \in Seq(Nat)
    BY <1>1, <1>2
  <2> QED
    BY <2>1, Concatenated
<1>5. \A m \in 1..e : (s \o t)[m] = u[m]
  <2> SUFFICES ASSUME NEW m \in 1..e PROVE (s \o t)[m] = m
    BY <1>3
  <2>1. CASE m <= j
    BY <1>1, <1>4, <2>1
  <2>2. CASE ~(m <= j)
    <3>1. m - j \in 1..(e - j) /\ j + (m - j) = m
      BY <2>2
    <3>2. (s \o t)[m] = t[m - j]
      BY <1>1, <1>2, <1>4, <3>1
    <3> QED
      BY <1>2, <3>1, <3>2
  <2> QED
    BY <2>1, <2>2
<1>6. Len(s \o t) = Len(u)
  BY <1>1, <1>2, <1>3, <1>4
<1>7. s \o t = u
  <2>1. \A x, y \in Seq(Nat) : Len(x) = Len(y) /\ (\A m \in 1..Len(y) : x[m] = y[m]) => x = y
    OBVIOUS
  <2> QED
    BY <1>3, <1>4, <1>5, <1>6, <2>1
<1> QED
  BY <1>7 DEF s, t, u

\* What the decoder makes of a buffer that holds the stream behind the first j frames: it returns
\* frame after frame up to some frame e, and stops where e ends, where no frame is complete.
LEMMA LoopReturns ==
  ASSUME frames \in Frames, NEW b \in Seq(Cell), NEW j \in 0..Len(frames),
         InStream(b, Len(Written(frames)[j])),
         Len(Written(frames)[j]) + Len(b) <= Len(Written(frames)[Len(frames)])
  PROVE  \E e \in j..Len(frames) :
             LET p == Len(Written(frames)[e]) - Len(Written(frames)[j]) IN
             /\ p \in 0..Len(b) /\ ~Returns(b, p)
             /\ Loop(b)[0] = [out |-> [m \in 1..(e - j) |-> j + m], end |-> p]
<1> DEFINE w == Written(frames)
           N == Len(frames)
           l(i) == Len(w[i])
           at(i) == l(i) - l(j)
           Ends(i, e) == /\ at(e) \in 0..Len(b) /\ ~Returns(b, at(e))
                         /\ Loop(b)[at(i)] = [out |-> [m \in 1..(e - i) |-> i + m], end |-> at(e)]
           S == {k \in Nat : k <= N - j =>
                               (at(N - k) \in 0..Len(b) => \E e \in (N - k)..N : Ends(N - k, e))}
<1>1. N \in Nat /\ \A i \in 1..N : frames[i].size \in Nat
  BY WrittenGrows
<1>2. \A n \in 0..N : l(n) \in Nat
  BY WrittenGrows
<1>3. \A i \in 0..N : i < N => /\ l(i) + 1 + frames[i + 1].size = l(i + 1)
                               /\ w[N][l(i) + 1].at = i + 1
  <2>1. N \in 0..N
    BY <1>1
  <2> QED
    BY <2>1, FramesInStream
<1>4. \A o \in 0..Len(b) :
          Loop(b)[o] = IF Returns(b, o)
             THEN [out |-> <<b[o + 1].at>> \o Loop(b)[Advance(b, o)].out, end |-> Loop(b)[Advance(b, o)].end]
                       ELSE [out |-> <<>>, end |-> o]
  BY LoopIs
<1>5. \A m \in 1..Len(b) : b[m] = w[N][l(j) + m]
  BY DEF InStream
<1>6. Len(b) \in Nat /\ l(j) + Len(b) <= l(N) /\ j \in 0..N
  OBVIOUS
<1> HIDE DEF w, N, l
<1>7. ASSUME NEW i \in j..N, at(i) \in 0..Len(b), ~Returns(b, at(i))
      PROVE  Ends(i, i)
  <2>1. [m \in 1..(i - i) |-> i + m] = <<>>
    BY <1>1
  <2> HIDE DEF at
  <2>2. Loop(b)[at(i)] = [out |-> <<>>, end |-> at(i)]
    BY <1>4, <1>7
  <2> QED
    BY <1>7, <2>1, <2>2
<1>8. 0 \in S
  <2>1. N \in j..N /\ N \in 0..N /\ N - 0 = N
    BY <1>1, <1>6
  <2> HIDE DEF Ends
  <2> SUFFICES ASSUME at(N) \in 0..Len(b) PROVE Ends(N, N)
    BY <2>1
  <2>2. at(N) = Len(b)
    BY <1>2, <1>6, <2>1
  <2> HIDE DEF at
  <2>3. ~Returns(b, at(N))
    BY <1>6, <2>2 DEF Returns
  <2> QED
    BY <1>7, <2>1, <2>3
<1>9. ASSUME NEW k \in Nat, k \in S
      PROVE  k + 1 \in S
  <2> DEFINE i == N - (k + 1)
  <2> HIDE DEF Ends
  <2> SUFFICES ASSUME k + 1 <= N - j, at(i) \in 0..Len(b)
               PROVE  \E e \in i..N : Ends(i, e)
    OBVIOUS
  <2>1. i \in j..N /\ i \in 0..N /\ i < N /\ i + 1 = N - k /\ i + 1 \in 1..N /\ i \in Nat /\ k <= N - j
    BY <1>1
  <2>2. N - (k + 1) = i
    OBVIOUS
  <2> HIDE DEF i
  <2>3. CASE ~Returns(b, at(i))
    <3>1. Ends(i, i)
      BY <1>7, <2>1, <2>3
    <3> QED
      BY <2>1, <3>1
  <2>4. CASE Returns(b, at(i))
    <3>1. at(i) < Len(b) /\ at(i) + 1 + FrameAt(b, at(i)).size <= Len(b)
      BY <2>4 DEF Returns, Complete
    <3>2. /\ l(i) + 1 + frames[i + 1].size = l(i + 1)
          /\ w[N][l(i) + 1].at = i + 1
          /\ l(i) \in Nat /\ l(i + 1) \in Nat /\ l(j) \in Nat
          /\ frames[i + 1].size \in Nat
      BY <1>1, <1>2, <1>3, <1>6, <2>1
    <3>3. \A x, y, z \in Nat : x - y \in 0..z /\ x - y < z => (x - y) + 1 \in 1..z /\ y + ((x - y) + 1) = x + 1
      OBVIOUS
    <3>4. at(i) + 1 \in 1..Len(b) /\ l(j) + (at(i) + 1) = l(i) + 1
      BY <1>6, <3>1, <3>2, <3>3
    <3>5. b[at(i) + 1].at = i + 1
      BY <1>5, <3>2, <3>4
    <3>6. FrameAt(b, at(i)) = frames[i + 1]
      BY <3>5 DEF FrameAt
    <3>7. at(i) + 1 + frames[i + 1].size <= Len(b)
      <4> HIDE DEF at
      <4> QED
        BY <3>1, <3>6
    <3>8. at(i + 1) = at(i) + 1 + frames[i + 1].size
      <4> DEFINE x == l(i)  y == l(j)  z == l(i + 1)  s == frames[i + 1].size
      <4>1. x \in Nat /\ y \in Nat /\ z \in Nat /\ s \in Nat /\ x + 1 + s = z
        BY <3>2
      <4> HIDE DEF x, y, z, s
      <4>2. z - y = (x - y) + 1 + s
        BY <4>1
      <4> QED
        BY <4>2 DEF x, y, z, s
    <3>9. at(i + 1) = at(i) + 1 + frames[i + 1].size /\ at(i + 1) \in 0..Len(b)
      <4> DEFINE x == at(i)  y == at(i + 1)  s == frames[i + 1].size
      <4>1. x \in 0..Len(b) /\ s \in Nat /\ y = x + 1 + s /\ x + 1 + s <= Len(b) /\ Len(b) \in Nat
        BY <1>6, <3>2, <3>7, <3>8
      <4> HIDE DEF x, y, s
      <4>2. y = x + 1 + s /\ y \in 0..Len(b)
        BY <4>1
      <4> QED
        BY <4>2 DEF x, y, s
    <3>10. Advance(b, at(i)) = at(i + 1)
      BY <3>6, <3>9 DEF Advance
    <3>11. PICK e \in (N - k)..N : Ends(N - k, e)
      BY <1>9, <2>1, <3>9
    <3> HIDE DEF at
    <3>12. Loop(b)[at(i)] = [out |-> <<i + 1>> \o Loop(b)[at(i + 1)].out, end |-> Loop(b)[at(i + 1)].end]
      BY <1>4, <2>4, <3>5, <3>10
    <3>13. Loop(b)[at(i + 1)] = [out |-> [m \in 1..(e - (i + 1)) |-> (i + 1) + m], end |-> at(e)]
      BY <2>1, <3>11 DEF Ends
    <3>14. e \in i..N /\ i < e /\ e \in Nat
      BY <1>1, <2>1
    <3>15. Loop(b)[at(i)] = [out |-> <<i + 1>> \o [m \in 1..(e - (i + 1)) |-> (i + 1) + m], end |-> at(e)]
      <4> DEFINE rest == [m \in 1..(e - (i + 1)) |-> (i + 1) + m]
      <4> HIDE DEF rest
      <4>1. Loop(b)[at(i + 1)] = [out |-> rest, end |-> at(e)]
        BY <3>13 DEF rest
      <4>2. Loop(b)[at(i)] = [out |-> <<i + 1>> \o rest, end |-> at(e)]
        BY <3>12, <4>1
      <4> QED
        BY <4>2 DEF rest
    <3>16. <<i + 1>> \o [m \in 1..(e - (i + 1)) |-> (i + 1) + m] = [m \in 1..(e - i) |-> i + m]
      BY <2>1, <3>14, OneMore
    <3>17. Ends(i, e)
      BY <3>11, <3>15, <3>16 DEF Ends
    <3> QED
      BY <3>14, <3>17
  <2> QED
    BY <2>3, <2>4
<1> HIDE DEF S, Ends
<1>10. \A k \in Nat : k \in S
  BY <1>8, <1>9, SetInduction
<1>11. N - j \in Nat /\ N - (N - j) = j
  BY <1>1, <1>6
<1>12. at(j) = 0 /\ 0 \in 0..Len(b)
  BY <1>1, <1>2, <1>6
<1>13. PICK e \in j..N : Ends(j, e)
  BY <1>10, <1>11, <1>12 DEF S
<1> QED
  BY <1>12, <1>13 DEF Ends, w, N, l

\* A data event, when every frame is good: the decoder returns the frames up to some frame e, and
\* buffer and pipe then hold the stream from where e ends.
LEMMA DataKeepsSynced ==
  ASSUME WireTypeOK, Good, Synced, client # "connecting", NEW k \in 1..Len(pipe), Data(k)
  PROVE  Synced'
<1> DEFINE w == Written(frames)
           N == Len(frames)
           T == Cell
           j == Len(taken)
           l(i) == Len(w[i])
           c == SubSeq(pipe, 1, k)
           b == buf \o c
<1>1. /\ buf \in Seq(T) /\ pipe \in Seq(T) /\ frames \in Frames /\ j \in 0..N
      /\ taken = [i \in 1..j |-> i]
      /\ l(j) + Len(buf) + Len(pipe) = l(N)
      /\ \A m \in 1..Len(buf) : buf[m] = w[N][l(j) + m]
      /\ \A m \in 1..Len(pipe) : pipe[m] = w[N][l(j) + Len(buf) + m]
  BY DEF WireTypeOK, Synced, InStream
<1>2. N \in Nat /\ \A i \in 0..N : l(i) \in Nat
  BY <1>1, WrittenGrows
<1>3. /\ c \in Seq(T) /\ Len(c) = k /\ \A m \in 1..k : c[m] = pipe[m]
      /\ SubSeq(pipe, k + 1, Len(pipe)) \in Seq(T)
      /\ Len(SubSeq(pipe, k + 1, Len(pipe))) = Len(pipe) - k
      /\ \A m \in 1..(Len(pipe) - k) : SubSeq(pipe, k + 1, Len(pipe))[m] = pipe[k + m]
  <2>1. pipe \in Seq(T) /\ k \in 0..Len(pipe)
    BY <1>1
  <2> HIDE DEF T
  <2> QED
    BY <2>1, CutOf
<1> HIDE DEF c, T
<1>4. /\ b \in Seq(T) /\ Len(b) = Len(buf) + Len(c)
      /\ \A m \in 1..Len(buf) : b[m] = buf[m]
      /\ \A m \in 1..Len(c) : b[Len(buf) + m] = c[m]
  <2>1. buf \in Seq(T) /\ c \in Seq(T)
    BY <1>1, <1>3
  <2> QED
    BY <2>1, Concatenated
<1>5. Len(buf) \in Nat /\ Len(pipe) \in Nat /\ Len(b) \in Nat /\ Len(b) = Len(buf) + k /\ k <= Len(pipe)
  BY <1>1, <1>3, <1>4
<1> HIDE DEF b, w, l, N, j
<1>6. \A m \in 1..Len(b) : b[m] = w[N][l(j) + m]
  <2> SUFFICES ASSUME NEW m \in 1..Len(b) PROVE b[m] = w[N][l(j) + m]
    OBVIOUS
  <2>1. CASE m <= Len(buf)
    BY <1>1, <1>4, <1>5, <2>1
  <2>2. CASE m > Len(buf)
    <3> DEFINE n == m - Len(buf)
    <3>1. n \in 1..k /\ n \in 1..Len(pipe) /\ m = Len(buf) + n
      BY <1>5, <2>2
    <3> HIDE DEF n
    <3>2. b[m] = pipe[n]
      BY <1>3, <1>4, <3>1
    <3>3. pipe[n] = w[N][l(j) + Len(buf) + n] /\ l(j) + Len(buf) + n = l(j) + m
      BY <1>1, <1>2, <1>5, <3>1
    <3> QED
      BY <3>2, <3>3
  <2> QED
    BY <1>5, <2>1, <2>2
<1>7. l(j) + Len(b) <= l(N)
  BY <1>1, <1>2, <1>5
<1>8. PICK e \in j..N : LET p == l(e) - l(j) IN
                          /\ p \in 0..Len(b) /\ ~Returns(b, p)
                          /\ Loop(b)[0] = [out |-> [m \in 1..(e - j) |-> j + m], end |-> p]
  <2>1. b \in Seq(Cell) /\ InStream(b, Len(Written(frames)[j]))
    BY <1>4, <1>6 DEF T, w, N, l, InStream
  <2>2. Len(Written(frames)[j]) + Len(b) <= Len(Written(frames)[Len(frames)]) /\ j \in 0..Len(frames)
    BY <1>1, <1>7 DEF w, N, l
  <2> QED
    BY <1>1, <2>1, <2>2, LoopReturns DEF w, N, l
<1> DEFINE p == l(e) - l(j)
           rest == SubSeq(b, p + 1, Len(b))
<1>9. p \in 0..Len(b) /\ e \in 0..N /\ e \in Nat /\ j \in Nat /\ j <= e /\ l(e) \in Nat /\ l(j) \in Nat /\ l(e) = l(j) + p
  BY <1>1, <1>2, <1>8
<1>10. ~Returns(b, p) /\ Loop(b)[0] = [out |-> [m \in 1..(e - j) |-> j + m], end |-> p]
  BY <1>8
<1> HIDE DEF p
<1>11. Decode(b) = [out |-> [m \in 1..(e - j) |-> j + m], rest |-> rest, threw |-> Throws(b, p)]
  BY <1>10 DEF Decode
<1>12. ~Throws(b, p)
  <2> SUFFICES ASSUME p < Len(b) PROVE FrameAt(b, p).kind \in {"plain", "streaming"}
    BY DEF Throws
  <2>1. b[p + 1] \in Cell
    BY <1>4, <1>5, <1>9 DEF T
  <2>2. b[p + 1].at \in 1..Len(frames)
    BY <2>1 DEF Cell
  <2>3. DOMAIN frames = 1..Len(frames)
    BY <1>1 DEF Frames
  <2> QED
    BY <2>2, <2>3 DEF Good, FrameAt
<1>13. /\ pipe' = SubSeq(pipe, k + 1, Len(pipe)) /\ buf' = rest
       /\ taken' = taken \o [m \in 1..(e - j) |-> j + m] /\ frames' = frames /\ client' = client
  <2> DEFINE more == [m \in 1..(e - j) |-> j + m]
  <2> HIDE DEF more, rest
  <2>1. Decode(b) = [out |-> more, rest |-> rest, threw |-> Throws(b, p)]
    BY <1>11 DEF more
  <2>2. Decode(b).out = more /\ Decode(b).rest = rest
    BY <2>1
  <2>3. ~Decode(b).threw
    <3>1. Decode(b).threw = Throws(b, p)
      BY <2>1
    <3> QED
      BY <1>12, <3>1, Zenon
  <2>4. buf \o SubSeq(pipe, 1, k) = b
    BY DEF b, c
  <2> QED
    BY <2>2, <2>4, <2>3 DEF Data, more
<1>14. /\ rest \in Seq(T) /\ Len(rest) = Len(b) - p
       /\ \A m \in 1..(Len(b) - p) : rest[m] = b[p + m]
  BY <1>4, <1>9, CutOf
<1> HIDE DEF rest
<1>15. taken' = [i \in 1..e |-> i]
  BY <1>1, <1>9, <1>13, Joined
<1>16. Len(taken') = e
  BY <1>9, <1>15
<1>17. l(e) + Len(rest) + (Len(pipe) - k) = l(N)
  BY <1>1, <1>2, <1>5, <1>9, <1>14
<1>18. \A m \in 1..Len(rest) : rest[m] = w[N][l(e) + m]
  <2> SUFFICES ASSUME NEW m \in 1..(Len(b) - p) PROVE rest[m] = w[N][l(e) + m]
    BY <1>14
  <2>1. p + m \in 1..Len(b) /\ l(j) + (p + m) = l(e) + m
    BY <1>5, <1>9
  <2> QED
    BY <1>6, <1>14, <2>1
<1>19. \A m \in 1..(Len(pipe) - k) : SubSeq(pipe, k + 1, Len(pipe))[m] = w[N][(l(e) + Len(rest)) + m]
  <2> SUFFICES ASSUME NEW m \in 1..(Len(pipe) - k)
               PROVE  SubSeq(pipe, k + 1, Len(pipe))[m] = w[N][(l(e) + Len(rest)) + m]
    OBVIOUS
  <2>1. k + m \in 1..Len(pipe) /\ l(j) + Len(buf) + (k + m) = (l(e) + Len(rest)) + m
    BY <1>1, <1>2, <1>5, <1>9, <1>14
  <2> QED
    BY <1>1, <1>3, <2>1
<1>20. ~Returns(rest, 0)
  <2> SUFFICES ASSUME Returns(rest, 0) PROVE Returns(b, p)
    BY <1>10
  <2>1. 0 < Len(rest) /\ 0 + 1 + FrameAt(rest, 0).size <= Len(rest) /\ FrameAt(rest, 0).kind \in {"plain", "streaming"}
    BY DEF Returns, Complete
  <2>2. 1 \in 1..(Len(b) - p) /\ 0 + 1 = 1
    BY <1>5, <1>9, <1>14, <2>1
  <2>3. rest[1] = b[p + 1]
    BY <1>14, <2>2
  <2>4. FrameAt(rest, 0) = FrameAt(b, p)
    BY <2>2, <2>3 DEF FrameAt
  <2>5. b[p + 1] \in Cell
    BY <1>4, <1>5, <1>9, <2>2 DEF T
  <2>6. FrameAt(b, p).size \in Nat
    BY <1>1, <2>5, WrittenGrows DEF FrameAt, Cell
  <2>7. p < Len(b) /\ p + 1 + FrameAt(b, p).size <= Len(b)
    BY <1>5, <1>9, <1>14, <2>1, <2>4, <2>6
  <2> QED
    BY <2>1, <2>4, <2>7 DEF Returns, Complete
<1> QED
  BY <1>1, <1>3, <1>9, <1>13, <1>14, <1>15, <1>16, <1>17, <1>18, <1>19, <1>20
  DEF Synced, InStream, w, N, l, T, Returns, Complete, FrameAt, Cell

\* StreamInv is inductive.
LEMMA StreamInvInit == WireInit => StreamInv
<1> SUFFICES ASSUME WireInit PROVE StreamInv
  OBVIOUS
<1>1. Len(frames) \in Nat
  BY FrameAssumption DEF WireInit, Frames
<1>2. <<>> \in Seq(Cell) /\ [i \in 1..0 |-> i] = <<>>
  OBVIOUS
<1> QED
  BY <1>1, <1>2 DEF WireInit, StreamInv, WireTypeOK, Synced, Returns

LEMMA StreamInvStep == StreamInv /\ [WireNext]_wire => StreamInv'
<1> SUFFICES ASSUME StreamInv, [WireNext]_wire PROVE StreamInv'
  OBVIOUS
<1>1. ASSUME UNCHANGED <<frames, pipe, buf, taken>>, (client' = "connecting") = (client = "connecting")
      PROVE  StreamInv'
  BY <1>1 DEF StreamInv, WireTypeOK, Cell, Good, Synced, InStream, Returns, Complete, FrameAt
<1>2. ASSUME NEW k \in 1..Len(pipe), Data(k)
      PROVE  StreamInv'
  <2>1. client # "connecting"
    BY <1>2 DEF StreamInv
  <2>2. WireTypeOK'
    <3>1. pipe \in Seq(Cell) /\ k \in 0..Len(pipe)
      BY <1>2 DEF StreamInv, WireTypeOK
    <3>2. SubSeq(pipe, k + 1, Len(pipe)) \in Seq(Cell)
      BY <3>1, CutOf
    <3> QED
      BY <1>2, <3>2 DEF Data, StreamInv, WireTypeOK, Cell
  <2>3. Good' => Synced'
    BY <1>2, <2>1, DataKeepsSynced DEF StreamInv, Good, Data
  <2> QED
    BY <1>2, <2>1, <2>2, <2>3 DEF StreamInv, Data
<1>3. CASE Call
  <2> DEFINE w == Written(frames)
  <2>1. /\ frames \in Frames /\ frames' = frames /\ buf' = <<>> /\ taken' = <<>> /\ Len(frames) \in Nat
        /\ pipe' = w[Len(frames)] /\ client' = "waiting"
    BY <1>3, WrittenGrows DEF Call, StreamInv, WireTypeOK
  <2>2. w[Len(frames)] \in Seq(Cell) /\ w[0] = <<>>
    <3>1. Len(frames) \in 0..Len(frames)
      BY <2>1
    <3> QED
      BY <2>1, <3>1, WrittenGrows DEF Cell
  <2> HIDE DEF w
  <2>3. WireTypeOK'
    BY <2>1, <2>2 DEF WireTypeOK, Cell
  <2>4. Len(w[0]) = 0 /\ Len(w[Len(frames)]) \in Nat /\ <<>> \in Seq(Cell) /\ [i \in 1..0 |-> i] = <<>>
    BY <2>2
  <2>5. Len(buf') = 0 /\ Len(taken') = 0 /\ pipe' = w[Len(frames)]
    BY <2>1
  <2>6. Synced'
    <3>1. buf' \in Seq(Cell') /\ Len(taken') \in 0..Len(frames') /\ taken' = [i \in 1..Len(taken') |-> i]
      BY <2>1, <2>4, <2>5 DEF Cell
    <3>2. ~Returns(buf, 0)'
      BY <2>5 DEF Returns
    <3>3. w[Len(taken')] = w[0] /\ Written(frames') = w
      BY <2>1, <2>5 DEF w
    <3>4. InStream(pipe, 0)' /\ InStream(buf, 0)'
      BY <2>1, <2>4, <2>5, <3>3 DEF InStream
    <3>5. Len(w[Len(taken')]) + Len(buf') = 0 /\ Len(w[Len(taken')]) = 0
      BY <2>4, <2>5, <3>3
    <3>6. Len(w[Len(taken')]) + Len(buf') + Len(pipe') = Len(w[Len(frames')])
      <4>1. \A x \in Nat : 0 + 0 + x = x
        OBVIOUS
      <4>2. Len(w[Len(taken')]) = 0 /\ Len(buf') = 0 /\ Len(pipe') = Len(w[Len(frames')])
        BY <2>1, <2>4, <2>5, <3>3
      <4>3. Len(w[Len(frames')]) \in Nat
        BY <2>1, <2>4
      <4> QED
        BY <4>1, <4>2, <4>3
    <3> QED
      BY <3>1, <3>2, <3>3, <3>4, <3>5, <3>6 DEF Synced
  <2> QED
    BY <2>1, <2>3, <2>6 DEF StreamInv
<1>4. ASSUME NEW l \in DOMAIN loops, PartialAnswer(l) \/ Answer(l)
      PROVE  StreamInv'
  BY <1>1, <1>4 DEF PartialAnswer, Answer
<1>5. CASE End \/ Drop
  BY <1>1, <1>5 DEF End, Drop
<1>6. CASE Receive \/ ServerEnd \/ Timeout
  BY <1>1, <1>6 DEF Receive, ServerEnd, Timeout
<1>7. CASE UNCHANGED wire
  BY <1>1, <1>7 DEF wire
<1> QED
  BY <1>2, <1>3, <1>4, <1>5, <1>6, <1>7 DEF WireNext, ServerStep, ClientStep

\* What StreamInv says of a stream that was read as a whole: the next frame, if there were one, would
\* be complete in the buffer.
LEMMA StreamIsDecoded == StreamInv => DecodesEveryCut
<1> SUFFICES ASSUME StreamInv, Good PROVE
                 /\ taken = [i \in 1..Len(taken) |-> i]
                 /\ client # "connecting" /\ pipe = <<>> => Len(taken) = Len(frames)
  BY DEF DecodesEveryCut
<1> DEFINE w == Written(frames)
           N == Len(frames)
           j == Len(taken)
           l(i) == Len(w[i])
<1>1. /\ frames \in Frames /\ buf \in Seq(Cell) /\ j \in 0..N /\ taken = [i \in 1..j |-> i] /\ ~Returns(buf, 0)
  BY DEF StreamInv, WireTypeOK, Synced
<1>2. SUFFICES ASSUME client # "connecting", pipe = <<>>, j < N PROVE FALSE
  BY <1>1
<1>3. l(j) + Len(buf) = l(N) /\ Len(buf) \in Nat
  <2>1. l(j) + Len(buf) + Len(pipe) = l(N)
    BY <1>2 DEF StreamInv, Synced
  <2>2. \A i \in 0..N : l(i) \in Nat
    BY <1>1, WrittenGrows
  <2>3. j \in 0..N /\ Len(buf) \in Nat /\ Len(pipe) = 0
    BY <1>1, <1>2
  <2> HIDE DEF l
  <2> QED
    BY <2>1, <2>2, <2>3
<1>4. \A m \in 1..Len(buf) : buf[m] = w[N][l(j) + m]
  BY <1>2 DEF StreamInv, Synced, InStream
<1>5. /\ l(j) + 1 + frames[j + 1].size = l(j + 1) /\ l(j + 1) <= l(N)
      /\ w[N][l(j) + 1].at = j + 1
  <2>1. j \in 0..N /\ N \in 0..N
    BY <1>1
  <2> QED
    BY <1>1, <1>2, <2>1, FramesInStream
<1>6. N \in Nat /\ l(j) \in Nat /\ l(N) \in Nat /\ j + 1 \in 1..N /\ frames[j + 1].size \in Nat
  <2>1. N \in Nat /\ \A i \in 1..N : frames[i].size \in Nat
    BY <1>1, WrittenGrows
  <2>2. j + 1 \in 1..N /\ j \in 0..N /\ N \in 0..N
    BY <1>1, <1>2, <2>1
  <2>3. \A i \in 0..N : l(i) \in Nat
    BY <1>1, WrittenGrows
  <2> QED
    BY <2>1, <2>2, <2>3
<1> HIDE DEF l, w
<1>7. 0 < Len(buf) /\ 1 + frames[j + 1].size <= Len(buf)
  <2> DEFINE x == l(j)  y == l(j + 1)  z == l(N)  s == frames[j + 1].size
  <2>1. x \in Nat /\ z \in Nat /\ s \in Nat /\ x + 1 + s = y /\ y <= z /\ x + Len(buf) = z /\ Len(buf) \in Nat
    BY <1>3, <1>5, <1>6
  <2> HIDE DEF x, y, z, s
  <2>2. 0 < Len(buf) /\ 1 + s <= Len(buf)
    BY <2>1
  <2> QED
    BY <2>2 DEF s
<1>8. buf[1].at = j + 1
  <2>1. 1 \in 1..Len(buf)
    BY <1>3, <1>7
  <2> QED
    BY <1>4, <1>5, <2>1
<1>9. FrameAt(buf, 0) = frames[j + 1]
  BY <1>8 DEF FrameAt
<1>10. frames[j + 1].kind \in {"plain", "streaming"}
  <2>1. DOMAIN frames = 1..N
    BY <1>1 DEF Frames
  <2> QED
    BY <1>6, <2>1 DEF Good
<1> HIDE DEF N, j
<1> QED
  BY <1>1, <1>7, <1>9, <1>10 DEF Returns, Complete

\* However the transport cuts the stream, the server's decoder returns the frames in their order, and
\* all of them when every byte has come (protocol.ts FrameDecoder.push).
THEOREM CutsAreDecoded == WireSpec => []DecodesEveryCut
<1>1. WireInit => StreamInv
  BY StreamInvInit
<1>2. StreamInv /\ [WireNext]_wire => StreamInv'
  BY StreamInvStep
<1>3. StreamInv => DecodesEveryCut
  BY StreamIsDecoded
<1> QED
  BY <1>1, <1>2, <1>3, PTL DEF WireSpec
===============================================================================
