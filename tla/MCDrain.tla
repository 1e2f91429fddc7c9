------------------------------ MODULE MCDrain -------------------------------
(* Small instances of DrainWorkers: the daemon runs two drains (the periodic *)
(* loop and a `drain' request), the command line's local drain is a process  *)
(* of its own on the same file.                                              *)
EXTENDS DrainWorkers

CONSTANTS d1, d2, d3

OneProcess  == {{d1, d2}}
TwoProcess  == {{d1}, {d3}}
Mixed       == {{d1, d2}, {d3}}
BothDrains  == {d1, d2}
DaemonOnly  == {d1}
=============================================================================
