---------------------------- MODULE PeriodicLoop ------------------------------
(* The timer loop that drains every so often, in the daemon                   *)
(* (runPeriodicDaemonDrain) and in the MCP server (runPeriodicDrain): look    *)
(* whether there are raw events, drain, back off when nothing was done, arm   *)
(* the next timer. The two differ in how they look. What a drain does to the  *)
(* events is the subject of DrainWorkers and SamplingDrain; here it takes     *)
(* some of them away, none, or throws.                                        *)
EXTENDS Naturals

CONSTANTS
    MaxRaw,       \* bound: raw events
    MaxBackoff,   \* opts.maxBackoffSteps
    MaxErrors     \* bound: looks that fail, drains that do nothing or throw

ASSUME LoopAssumption == MaxRaw \in Nat /\ MaxBackoff \in Nat /\ MaxErrors \in Nat

\* A fact of arithmetic that the provers do not know.
ASSUME PowersAssumption == \A n \in 0..MaxBackoff : 2 ^ n \in Nat \ {0}

VARIABLES
    raw,          \* raw events in the table
    running,      \* where the tick is: "no", "look", "drain", "finally"
    stopped,
    backoffSteps,
    timer,        \* intervals until it fires; 0 for no timer
    errors        \* bound counter

loopVars == <<raw, running, stopped, backoffSteps, timer, errors>>

LoopInit ==
    /\ raw = 0 /\ running = "no" /\ stopped = FALSE
    /\ backoffSteps = 0 /\ timer = 1 /\ errors = 0

Least(a, b) == IF a < b THEN a ELSE b
MoreBackoff == backoffSteps' = Least(backoffSteps + 1, MaxBackoff)
LoopError == errors < MaxErrors /\ errors' = errors + 1

Arrive ==
    /\ raw < MaxRaw /\ raw' = raw + 1
    /\ UNCHANGED <<running, stopped, backoffSteps, timer, errors>>

Elapse ==
    /\ timer > 1 /\ timer' = timer - 1
    /\ UNCHANGED <<raw, running, stopped, backoffSteps, errors>>

\* The timer fires: tick() returns at once when the loop was stopped.
Fire ==
    /\ timer = 1 /\ timer' = 0
    /\ running' = IF stopped \/ running # "no" THEN running ELSE "look"
    /\ UNCHANGED <<raw, stopped, backoffSteps, errors>>

\* storage.counts(), or the status request of the MCP server: raw events, none, an error.
Look ==
    /\ running = "look"
    /\ \/ raw > 0 /\ running' = "drain" /\ UNCHANGED <<backoffSteps, errors>>
       \/ raw = 0 /\ running' = "finally" /\ MoreBackoff /\ UNCHANGED errors
       \/ running' = "finally" /\ LoopError /\ UNCHANGED backoffSteps
    /\ UNCHANGED <<raw, stopped, timer>>

\* Mutant: an error of the drain leaves the tick before the finally is armed.
DrainThrowsOut ==
    /\ running = "drain"
    /\ \/ \E n \in 0..raw - 1 : raw' = n /\ backoffSteps' = 0 /\ running' = "finally" /\ UNCHANGED errors
       \/ LoopError /\ running' = "no" /\ UNCHANGED <<raw, backoffSteps>>
    /\ UNCHANGED <<stopped, timer>>

\* The drain processed some events, none, or threw.
Drain ==
    /\ running = "drain"
    /\ \/ \E n \in 0..raw - 1 : raw' = n /\ backoffSteps' = 0 /\ UNCHANGED errors
       \/ LoopError /\ (MoreBackoff \/ UNCHANGED backoffSteps) /\ UNCHANGED raw
    /\ running' = "finally"
    /\ UNCHANGED <<stopped, timer>>

\* Mutant: the timer is armed whether the loop was stopped or not.
FinallyAlways ==
    /\ running = "finally" /\ running' = "no"
    /\ timer' = 2 ^ backoffSteps
    /\ UNCHANGED <<raw, stopped, backoffSteps, errors>>

\* The finally of tick.
Finally ==
    /\ running = "finally" /\ running' = "no"
    /\ timer' = IF stopped THEN 0 ELSE 2 ^ backoffSteps
    /\ UNCHANGED <<raw, stopped, backoffSteps, errors>>

\* stop(): a tick under way goes on to its end.
StopLoop ==
    /\ ~stopped /\ stopped' = TRUE /\ timer' = 0
    /\ UNCHANGED <<raw, running, backoffSteps, errors>>

Turn == Elapse \/ Fire \/ Look \/ Drain \/ Finally
LoopNext == Arrive \/ Turn \/ StopLoop

\* Time passes and the drain returns: the model clients time out.
LoopSpec == LoopInit /\ [][LoopNext]_loopVars /\ WF_loopVars(Turn)

-----------------------------------------------------------------------------

\* The loop is a single chain: exactly one of a running tick and a timer, and after a stop
\* at most the tick that was under way. A second chain would double the drains, a missing
\* one would end them.
OneChain ==
    IF stopped THEN timer = 0 ELSE (timer > 0) # (running # "no")

\* The inductive strengthening of OneChain.
LoopTypeOK ==
    /\ raw \in 0..MaxRaw /\ errors \in 0..MaxErrors /\ backoffSteps \in 0..MaxBackoff
    /\ running \in {"no", "look", "drain", "finally"}
    /\ stopped \in BOOLEAN /\ timer \in Nat

LoopInv == LoopTypeOK /\ OneChain

\* Raw events get a drain, however far the loop had backed off and whatever the drains
\* before did, until it is stopped.
RawGetsDrained == []<>(running = "drain" \/ raw = 0 \/ stopped)
=============================================================================
