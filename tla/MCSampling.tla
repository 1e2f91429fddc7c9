----------------------------- MODULE MCSampling ------------------------------
(* A small instance of SamplingDrain: one drain inside the daemon and two     *)
(* drains of MCP servers, on the same two events.                             *)
EXTENDS SamplingDrain, TLC

CONSTANTS d1, m1, m2

OneDrain == {d1}
OnlyProc == {{d1}}

\* The hosts are alike; no liveness property is checked with this set.
SameHost == Permutations(Host)
=============================================================================
