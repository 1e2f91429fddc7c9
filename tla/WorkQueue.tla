----------------------------- MODULE WorkQueue ------------------------------
(***************************************************************************)
(* What the event table promises the drains: a work queue.  An item is     *)
(* taken by one worker at a time, only its holder decides its fate, a done *)
(* item is never worked on again, a retired one only when it is requeued,  *)
(* and an item whose holder is gone stays taken: nobody takes it back.     *)
(***************************************************************************)
EXTENDS Naturals

CONSTANTS
    Item,
    Worker,
    Nobody    (* no worker *)

VARIABLES
    stage,   \* how far each item is
    holder   \* who works on it

Stage == {"new", "pending", "taken", "done", "retired", "gone"}

QueueTypeOK ==
    /\ stage \in [Item -> Stage]
    /\ holder \in [Item -> Worker \cup {Nobody}]

QueueInit ==
    /\ stage = [i \in Item |-> "new"]
    /\ holder = [i \in Item |-> Nobody]

Move(S, from, to) ==
    /\ S # {}
    /\ \A i \in S : stage[i] \in from
    /\ stage' = [i \in Item |-> IF i \in S THEN to ELSE stage[i]]

Hold(S, w) == holder' = [i \in Item |-> IF i \in S THEN w ELSE holder[i]]

Submit(i)  == Move({i}, {"new"}, "pending") /\ UNCHANGED holder
Take(w, S) == Move(S, {"pending"}, "taken") /\ Hold(S, w)

\* A worker gives up the item it holds: done, retired, or back in the queue.
Decide(w, i, to) ==
    /\ holder[i] = w
    /\ Move({i}, {"taken"}, to)
    /\ Hold({i}, Nobody)

Requeue(S) == Move(S, {"retired"}, "pending") /\ UNCHANGED holder
Remove(S)  == Move(S, Stage \ {"new", "gone"}, "gone") /\ Hold(S, Nobody)

\* The workers W are gone; what they held stays taken.
Die(W) ==
    /\ Hold({i \in Item : holder[i] \in W}, Nobody)
    /\ UNCHANGED stage

QueueNext ==
    \/ \E i \in Item : Submit(i)
    \/ \E w \in Worker, S \in SUBSET Item : Take(w, S)
    \/ \E w \in Worker, i \in Item, to \in {"pending", "done", "retired"} : Decide(w, i, to)
    \/ \E S \in SUBSET Item : Requeue(S) \/ Remove(S)
    \/ \E W \in SUBSET Worker : Die(W)

QueueSpec == QueueInit /\ [][QueueNext]_<<stage, holder>>
=============================================================================
