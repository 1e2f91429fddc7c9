------------------------------- MODULE MCLive --------------------------------
(* The components whose progress is checked, none of which meets another in   *)
(* what it writes: a behaviour is one of DaemonLife, Wire, McpBridge,         *)
(* Curation, SymbolWorker or PeriodicLoop, and the others stay where they     *)
(* begin.                                                                     *)
EXTENDS DaemonLife, Wire, McpBridge, Curation, SymbolWorker, PeriodicLoop

VARIABLE part

\* The handshake first, then a call of some kind, beside the periodic drain.
AskedAll == <<[tool : {"initialize"}, bare : {FALSE}],
              {[tool |-> "mem_search", bare |-> FALSE], [tool |-> "mem_graph_path", bare |-> TRUE]}>>

live == <<life, wire, bridgeVars, curation, symbolVars, loopVars, part>>

\* A step of one part.
Lives(A) == part = "daemon" /\ A
            /\ UNCHANGED <<wire, bridgeVars, curation, symbolVars, loopVars, part>>
Talks(A) == part = "wire" /\ A
            /\ UNCHANGED <<life, bridgeVars, curation, symbolVars, loopVars, part>>
Bridges(A) == part = "bridge" /\ A
              /\ UNCHANGED <<life, wire, curation, symbolVars, loopVars, part>>
Curates(A) == part = "curation" /\ A
              /\ UNCHANGED <<life, wire, bridgeVars, symbolVars, loopVars, part>>
Annotates(A) == part = "symbols" /\ A
                /\ UNCHANGED <<life, wire, bridgeVars, curation, loopVars, part>>
Loops(A) == part = "loop" /\ A
            /\ UNCHANGED <<life, wire, bridgeVars, curation, symbolVars, part>>

LiveInit ==
    /\ part \in {"daemon", "wire", "bridge", "curation", "symbols", "loop"}
    /\ DaemonInit /\ BridgeInit /\ CurationInit /\ SymbolInit /\ LoopInit
    /\ WireInit
    /\ part # "wire" => style = "rpc" /\ frames = CHOOSE f \in Frames : TRUE

LiveNext ==
    \/ Lives(DaemonNext) \/ Talks(WireNext) \/ Bridges(BridgeNext)
    \/ Curates(CurationNext) \/ Annotates(SymbolNext) \/ Loops(LoopNext)

\* The fairness of each part, as its module states it.
LiveFair ==
    /\ \A d \in Daemon : WF_live(Lives(DaemonStep(d)))
    /\ \A s \in Session : WF_live(Lives(HookStep(s)))
    /\ \A c \in Start \cup Check : WF_live(Lives(CommandStep(c)))
    /\ WF_live(Talks(ServerStep)) /\ WF_live(Talks(ClientStep))
    /\ WF_live(Bridges(Serve))
    /\ WF_live(Curates(Consolidate))
    /\ WF_live(Annotates(Annotate))
    /\ WF_live(Loops(Turn))

LiveSpec == LiveInit /\ [][LiveNext]_live /\ LiveFair
=============================================================================
