------------------------------ MODULE TaskWait ------------------------------
(***************************************************************************)
(* Long polling: app/waiting.py (satisfied, wait_for_task) and             *)
(* resolver.peek, on top of the task of TaskRun.tla and the events of      *)
(* app/signals.py.  A waiter takes the task's current event, reads the     *)
(* state in two queries, and if that is not what it waits for sleeps until *)
(* its event is set, one second at most.  Not every change of the state    *)
(* sets the event, and an event may be replaced under a waiter.            *)
(***************************************************************************)
EXTENDS TaskRun

CONSTANTS Modes    \* the `wait` modes clients use

ASSUME ModesAssumption == Modes \subseteq {"first", "first_starred", "change", "found", "all"}

VARIABLES poll     \* poll[w]: the call of wait_for_task of the request w

waitVars == <<vars, poll>>

Unread == [status |-> "absent", version |-> 0, starred |-> 0, expired |-> FALSE]

Away == [pc |-> "away", mode |-> "all", after |-> 0, ev |-> FALSE, st |-> Unread]

WInit == Init /\ poll = [w \in Waiters |-> Away]

-----------------------------------------------------------------------------
Ok == {s \in Sources : runs[s] = "ok"}

(* The state a waiter would read now. *)
Current == [status |-> row.status, version |-> row.version, starred |-> row.starred, expired |-> ~row.fresh]

Terminal == {"done", "failed", "expired"}

(* Faults: the fallback for clients that prefer starred sources, and the expiry, are forgotten. *)
Satisfied_StarsOnly(st, mode, after) ==
    \/ st.status \in Terminal
    \/ st.expired
    \/ mode = "first" /\ Ok # {}
    \/ mode = "first_starred" /\ Ok \cap Starred # {}
    \/ mode = "change" /\ st.version > after
    \/ mode = "found" /\ Cardinality(Ok) > after

Satisfied_NotTerminal(st, mode, after) ==
    \/ mode = "first" /\ Ok # {}
    \/ mode = "first_starred" /\ Ok \cap Starred # {}
    \/ mode = "change" /\ st.version > after
    \/ mode = "found" /\ Cardinality(Ok) > after

(* satisfied(st, mode, after); the counts in st are those of the moment it is called. *)
Satisfied(st, mode, after) ==
    \/ st.status \in Terminal
    \/ st.expired
    \/ mode = "first" /\ Ok # {}
    \/ /\ mode = "first_starred"
       /\ \/ Ok \cap Starred # {}
          \/ Ok # {} /\ Cardinality(Tried \cap Starred) >= st.starred
    \/ mode = "change" /\ st.version > after
    \/ mode = "found" /\ Cardinality(Ok) > after

-----------------------------------------------------------------------------
(* A request comes in; `after` is what its client knows already. *)
Ask(w, mode) ==
    /\ poll[w].pc = "away"
    /\ Exists
    /\ poll' = [poll EXCEPT ![w] = [Away EXCEPT !.pc = "top", !.mode = mode,
                    !.after = CASE mode = "change" -> row.version
                                [] mode = "found"  -> Cardinality(Ok)
                                [] OTHER           -> 0]]
    /\ UNCHANGED vars

(* signals.get, before the state is read. *)
TakeEvent(w) ==
    /\ poll[w].pc = "top"
    /\ poll' = [poll EXCEPT ![w].pc = "row", ![w].ev = event]
    /\ armed' = IF event THEN armed \cup {w} ELSE armed
    /\ UNCHANGED <<rowVars, enabled, job, known, event, fired, req, cleanup, boundVars>>

(* peek: the row ... *)
PeekRow(w) ==
    /\ poll[w].pc = "row"
    /\ poll' = [poll EXCEPT ![w] =
         IF row.status = "gone" THEN [@ EXCEPT !.pc = "back"]
         ELSE [@ EXCEPT !.pc = "counts", !.st = Current]]
    /\ UNCHANGED vars

(* Fault: the event is taken only now. *)
PeekCounts_ThenEvent(w) ==
    /\ poll[w].pc = "counts"
    /\ poll' = [poll EXCEPT ![w].st = Unread, ![w].ev = event,
         ![w].pc = IF Satisfied(poll[w].st, poll[w].mode, poll[w].after) THEN "back" ELSE "sleep"]
    /\ armed' = IF event THEN armed \cup {w} ELSE armed
    /\ UNCHANGED <<rowVars, enabled, job, known, event, fired, req, cleanup, boundVars>>

(* ... and the counts, and what wait_for_task makes of them. *)
PeekCounts(w) ==
    /\ poll[w].pc = "counts"
    /\ poll' = [poll EXCEPT ![w].st = Unread,
         ![w].pc = IF Satisfied(poll[w].st, poll[w].mode, poll[w].after) THEN "back" ELSE "sleep"]
    /\ UNCHANGED vars

(* The event the waiter holds was set, or its second is over, or there was no event to hold. *)
WakeUp(w) ==
    /\ poll[w].pc = "sleep"
    /\ poll' = [poll EXCEPT ![w].pc = "top", ![w].ev = FALSE]
    /\ armed' = armed \ {w}
    /\ fired' = fired \ {w}
    /\ UNCHANGED <<rowVars, enabled, job, known, event, req, cleanup, boundVars>>

(* wait_s is over: the client gets the state as it is. *)
Deadline(w) ==
    /\ poll[w].pc = "sleep"
    /\ poll' = [poll EXCEPT ![w].pc = "back"]
    /\ UNCHANGED vars

(* The answer goes out. *)
Leave(w) ==
    /\ poll[w].pc = "back"
    /\ poll' = [poll EXCEPT ![w] = Away]
    /\ armed' = armed \ {w}
    /\ fired' = fired \ {w}
    /\ UNCHANGED <<rowVars, enabled, job, known, event, req, cleanup, boundVars>>

WaiterStep(w) ==
    \/ TakeEvent(w)
    \/ PeekRow(w)
    \/ PeekCounts(w)
    \/ WakeUp(w)
    \/ Leave(w)

(* A step of the task; a restart cuts every connection. *)
TaskStep ==
    /\ Next
    /\ poll' = IF restarts' = restarts THEN poll ELSE [w \in Waiters |-> Away]

WNext ==
    \/ TaskStep
    \/ \E w \in Waiters : WaiterStep(w) \/ Deadline(w) \/ \E m \in Modes : Ask(w, m)

WSpec == WInit /\ [][WNext]_waitVars

(* Besides the fairness of the task: a waiter runs on, and its one-second timer goes off. *)
WFairSpec ==
    /\ WSpec
    /\ \A j \in Jobs : WF_waitVars(JobStep(j) /\ UNCHANGED poll)
    /\ \A j \in Jobs, s \in Sources : WF_waitVars((\E o \in Outcomes : Answer(j, s, o)) /\ UNCHANGED poll)
    /\ WF_waitVars(Endpoint /\ UNCHANGED poll)
    /\ WF_waitVars(CleanupStep /\ UNCHANGED poll)
    /\ \A w \in Waiters : WF_waitVars(WaiterStep(w))

-----------------------------------------------------------------------------
(* A search that committed its totals and has saved nothing since, or crashed. *)
Unheard == \E j \in Jobs : job[j].pc \in {"fan", "save", "final", "crash"} /\ In(j, {"saved"}) = {}

(* "Fetched BEFORE reading the state, so a change in between is never lost": nobody sleeps on    *)
(* the current event while the state is what he waits for, unless the search is about to         *)
(* unregister or the results expired (no event tells that; the one-second cap does). Nor does an *)
(* event tell of the totals that _run commits with "running": a search of fewer starred sources  *)
(* lowers starred_total, and who prefers those learns it from its first result, or the cap.      *)
NoLostWakeup ==
    \A w \in Waiters :
        (poll[w].pc = "sleep" /\ w \in armed /\ row.fresh /\ row.status \notin {"expired", "gone"})
            => \/ ~Satisfied(Current, poll[w].mode, poll[w].after)
               \/ \E j \in Jobs : job[j].pc = "close"
               \/ poll[w].mode = "first_starred" /\ Unheard

(* An event somebody sleeps on is still in the table or was set: nobody holds a dead one. *)
NoOrphan ==
    \A w \in Waiters : (poll[w].pc = "sleep" /\ poll[w].ev) => w \in armed \cup fired

(* A client that prefers starred sources is not left waiting once they can no longer answer:     *)
(* from a search's first result on nobody sleeps through a check although streams are there and  *)
(* no starred source is running or still to be asked.                                            *)
StarFallback ==
    \A w \in Waiters, j \in Jobs :
        (/\ job[j].pc = "fan"
         /\ In(j, {"candidate", "asked", "answered", "batch"}) \cap Starred = {}
         /\ In(j, {"saved"}) # {}
         /\ row.fresh /\ row.status # "gone"
         /\ Ok # {})
            => ~(poll[w].pc = "sleep" /\ poll[w].mode = "first_starred" /\ w \in armed)

(* Every long poll is answered before its deadline, since every search comes to an end. *)
Answered == \A w \in Waiters : poll[w].pc = "top" ~> poll[w].pc \in {"back", "away"}
=============================================================================
