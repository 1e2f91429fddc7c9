------------------------------ MODULE MCCapture ------------------------------
(***************************************************************************)
(* The capture path in small: two requests at a time, an ordinary payload  *)
(* and one with a ttl.                                                     *)
(***************************************************************************)
EXTENDS CaptureLog

CONSTANTS h1, h2, note, fact

TwoHandlers == {h1, h2}
TwoPayloads == {note, fact}
OnlyFact == {fact}
=============================================================================
