------------------------------ MODULE SlotLine ------------------------------
(***************************************************************************)
(* What the task queue promises, with no word about futures, wake-ups or   *)
(* cancellation: at most Limit tasks hold a run slot, and nobody who waits *)
(* is passed by a task that arrived later.  TaskQueue.tla implements this. *)
(***************************************************************************)
EXTENDS Naturals, FiniteSets

CONSTANTS Tasks,    \* the task ids that may ask for a slot
          Limit     \* MAX_CONCURRENT_TASKS

VARIABLES ahead,    \* ahead[t]: the tasks before the waiting task t, which is at position |ahead[t]| + 1
          holders   \* the tasks a slot is set aside for

vars == <<ahead, holders>>

Waiting == DOMAIN ahead

Init ==
    /\ ahead = [t \in {} |-> {}]
    /\ holders = {}

(* A task joins the line behind everybody. *)
Arrive(t) ==
    /\ t \notin Waiting \cup holders
    /\ ahead' = [u \in Waiting \cup {t} |-> IF u = t THEN Waiting ELSE ahead[u]]
    /\ UNCHANGED holders

(* A task leaves the line unserved; everybody behind it moves up. *)
GiveUp(t) ==
    /\ t \in Waiting
    /\ ahead' = [u \in Waiting \ {t} |-> ahead[u] \ {t}]
    /\ UNCHANGED holders

(* At most one slot comes back, and the first in line are served, none before those ahead of it. *)
Serve(back, first) ==
    /\ back \subseteq holders
    /\ Cardinality(back) <= 1
    /\ first \subseteq Waiting
    /\ \A t \in first : ahead[t] \subseteq first
    /\ holders' = (holders \ back) \cup first
    /\ Cardinality(holders') <= Limit
    /\ ahead' = [u \in Waiting \ first |-> ahead[u] \ first]

Next ==
    \/ \E t \in Tasks : Arrive(t) \/ GiveUp(t)
    \/ \E back \in SUBSET holders : \E first \in SUBSET Waiting : Serve(back, first)

Spec == Init /\ [][Next]_vars
=============================================================================
