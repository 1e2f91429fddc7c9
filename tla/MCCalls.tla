------------------------------- MODULE MCCalls -------------------------------
(* What a caller is told: a behaviour is one of Commands, WebBridge,          *)
(* WebClient, Doctor or ModelCascade, none of which meets another in what it  *)
(* writes, and the others stay where they begin.                              *)
EXTENDS Commands, WebBridge, WebClient, Doctor, ModelCascade, TLC

CONSTANTS v, w

VARIABLE part

\* Two workspaces whose directories hash to the same port.
DerivedSame == [x \in Workspace |-> 0]

\* Of three events, two have the same input.
TwoInputs == [e \in Event |-> IF e = "e3" THEN "other" ELSE "same"]

serving == <<web, histories>>
calls == <<commands, serving, page, health, cascadeVars, part>>

\* A step of one part.
Commanding(A) == part = "command" /\ A
                 /\ UNCHANGED <<serving, page, health, cascadeVars, part>>
Serving(A) == part = "bridge" /\ A
              /\ UNCHANGED <<commands, page, health, cascadeVars, part>>
Browsing(A) == part = "page" /\ A
               /\ UNCHANGED <<commands, serving, health, cascadeVars, part>>
Examining(A) == part = "doctor" /\ A
                /\ UNCHANGED <<commands, serving, page, cascadeVars, part>>
Summarizing(A) == part = "cascade" /\ A
                  /\ UNCHANGED <<commands, serving, page, health, part>>

CallsInit ==
    /\ part \in {"command", "bridge", "page", "doctor", "cascade"}
    /\ CascadeInit /\ (part # "cascade" => client = GlmClient)
    /\ CommandInit /\ (part # "command" => command = "list" /\ daemonUp)
    /\ WebInit /\ (part # "bridge" => owner = [x \in DOMAIN owner |-> Free])
    /\ PageInit /\ (part # "page" => tab = CHOOSE t \in Tab : TRUE)
    /\ DoctorInit /\ (part # "doctor" => fresh = {} /\ vectors = {})

CallsNext ==
    \/ Commanding(CommandNext) \/ Serving(WebNext) \/ Browsing(PageNext)
    \/ Examining(DoctorNext) \/ Summarizing(CascadeNext)

CallsSpec == CallsInit /\ [][CallsNext]_calls

Symmetric == Permutations(Summary) \cup Permutations(Calls)
=============================================================================
