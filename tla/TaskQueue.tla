----------------------------- MODULE TaskQueue ------------------------------
(***************************************************************************)
(* app/scheduler.py, TaskQueue: the line in front of the run slots         *)
(* (MAX_CONCURRENT_TASKS), together with the two ways a request reaches it *)
(* (app/routers/resolve.py): POST /v1/resolve, which answers 429 when the  *)
(* line is full, and POST .../sources or .../refresh, which do not ask.    *)
(*                                                                         *)
(* slot() keeps its own list of waiting ids and a count of everybody       *)
(* inside it, but the slots themselves belong to an asyncio.Semaphore      *)
(* whose acquire() runs as a task of its own (ensure_future).  Semaphore   *)
(* and slot() therefore move in separate steps of the event loop and a     *)
(* cancellation can arrive between any two of them.                        *)
(***************************************************************************)
EXTENDS Naturals, Sequences, FiniteSets

CONSTANTS Tasks,       \* task ids
          Finished,    \* those of them that are finished tasks a client may start again
          Limit,       \* settings.max_concurrent_tasks, 0 = unlimited
          MaxQueued    \* settings.max_queued_tasks

ASSUME LimitAssumption == Limit \in Nat
ASSUME TasksAssumption == IsFiniteSet(Tasks) /\ Finished \subseteq Tasks
ASSUME MaxQueuedAssumption == MaxQueued \in Nat

VARIABLES
    pc,        \* pc[t]: where the call slot(t) is
    acq,       \* acq[t]: the state of the acquire() task that call created
    ready,     \* acquire() tasks that have not run yet, in creation order
    deque,     \* the semaphore's waiters, served from the front
    value,     \* the semaphore's counter
    waiting,   \* TaskQueue._waiting
    active,    \* TaskQueue.active
    inflight   \* TaskQueue._inflight

vars == <<pc, acq, ready, deque, value, waiting, active, inflight>>

PCs == {"out",        \* not in the queue
        "creating",   \* resolve holds _create_lock: past full(), awaiting TMDB and the insert
        "marking",    \* inside slot(), awaiting on_queued()
        "waiting",    \* inside slot(), awaiting acquire()
        "active"}     \* inside the async-with block

AcqStates == {"none", "new", "queued",
              "granted",     \* its future has a result, acquire() has not resumed
              "done",
              "unborn",      \* cancelled before it ran at all
              "dropping",    \* its future was cancelled, acquire() has not resumed
              "returning",   \* granted, then cancelled: will put the slot back
              "cancelled"}

(* Positions of t in the sequence s. *)
Places(s, t) == {i \in 1..Len(s) : s[i] = t}

(* list.remove(t), or s itself when t is not in it *)
Without(s, t) ==
    IF Places(s, t) = {} THEN s
    ELSE LET k == CHOOSE i \in Places(s, t) : \A j \in Places(s, t) : i <= j
         IN  SubSeq(s, 1, k - 1) \o SubSeq(s, k + 1, Len(s))

Init ==
    /\ pc = [t \in Tasks |-> "out"]
    /\ acq = [t \in Tasks |-> "none"]
    /\ ready = <<>>
    /\ deque = <<>>
    /\ value = Limit
    /\ waiting = <<>>
    /\ active = {}
    /\ inflight = 0

-----------------------------------------------------------------------------
(* asyncio.Semaphore (Python 3.12) *)

Min2(a, b) == IF a <= b THEN a ELSE b

(* Fault: the newest waiters are woken first. *)
FirstQueued_Newest(n, a, d) ==
    LET q == {i \in 1..Len(d) : a[d[i]] = "queued"}
    IN  {d[i] : i \in {i \in q : Cardinality({j \in q : j > i}) < n}}

(* The first n waiters of the deque d whose future is not done yet. *)
FirstQueued(n, a, d) ==
    LET q == {i \in 1..Len(d) : a[d[i]] = "queued"}
    IN  {d[i] : i \in {i \in q : Cardinality({j \in q : j < i}) < n}}

(* locked(): a waiter that was granted but has not resumed still counts, so that nobody overtakes it. *)
Locked == value = 0 \/ \E t \in Tasks : acq[t] \in {"queued", "granted", "returning"}

(* _wake_up_next(), n times at most, with v permits available and the acquire states a. *)
WakeUp(n, v, a) ==
    LET woken == FirstQueued(Min2(n, v), a, deque')
    IN  /\ acq' = [t \in Tasks |-> IF t \in woken THEN "granted" ELSE a[t]]
        /\ value' = v - Cardinality(woken)

(* Fault: the permit is put back and nobody is woken. *)
Release_Silent(a) ==
    /\ deque' = deque
    /\ acq' = a
    /\ value' = value + 1

(* release(): one permit more, at most one waiter woken. *)
Release(a) ==
    /\ deque' = deque
    /\ WakeUp(1, value + 1, a)

(* The end of acquire(): it leaves the deque and passes on what is left (`while self._value > 0`). *)
LeaveDeque(t, v, a) ==
    /\ deque' = Without(deque, t)
    /\ WakeUp(v, v, a)

-----------------------------------------------------------------------------
(* acquire() as a task of its own *)

(* Its first step: take a permit, or join the waiters. Tasks run in the order they were created. *)
AcquireBegins ==
    /\ ready # <<>>
    /\ ready' = Tail(ready)
    /\ IF Locked
       THEN /\ acq' = [acq EXCEPT ![Head(ready)] = "queued"]
            /\ deque' = Append(deque, Head(ready))
            /\ UNCHANGED value
       ELSE /\ acq' = [acq EXCEPT ![Head(ready)] = "done"]
            /\ value' = value - 1
            /\ UNCHANGED deque
    /\ UNCHANGED <<pc, waiting, active, inflight>>

AcquireResumes(t) ==
    /\ acq[t] = "granted"
    /\ LeaveDeque(t, value, [acq EXCEPT ![t] = "done"])
    /\ UNCHANGED <<pc, ready, waiting, active, inflight>>

(* The CancelledError reaches acquire(): a permit it was granted goes back first. *)
AcquireCancelled(t) ==
    /\ acq[t] \in {"unborn", "dropping", "returning"}
    /\ LET over == IF pc[t] = "waiting" THEN "cancelled" ELSE "none"
       IN  IF acq[t] = "unborn"
           THEN /\ acq' = [acq EXCEPT ![t] = over]
                /\ UNCHANGED <<deque, value>>
           ELSE LeaveDeque(t, IF acq[t] = "returning" THEN value + 1 ELSE value,
                           [acq EXCEPT ![t] = over])
    /\ UNCHANGED <<pc, ready, waiting, active, inflight>>

(* Task.cancel() on an acquire() that has not finished. *)
CancelAcquire(t) ==
    /\ acq' = [acq EXCEPT ![t] = CASE @ = "new"     -> "unborn"
                                   [] @ = "queued"  -> "dropping"
                                   [] @ = "granted" -> "returning"
                                   [] OTHER         -> @]
    /\ ready' = Without(ready, t)
    /\ UNCHANGED <<deque, value>>

-----------------------------------------------------------------------------
(* slot() *)

Full == Limit > 0 /\ Len(waiting) >= MaxQueued

LockFree == \A t \in Tasks : pc[t] # "creating"

(* start_task(t) and the first step of _scheduled: slot() runs up to its first await.            *)
(* With no limit the task is simply active; the second conjunct only says the id is not reused  *)
(* within the few event-loop steps its cancelled acquire() still needs.                          *)
EnterSlot(t) ==
    /\ acq[t] = "none"
    /\ IF Limit = 0
       THEN /\ pc' = [pc EXCEPT ![t] = "active"]
            /\ active' = active \cup {t}
            /\ UNCHANGED <<acq, ready, waiting, inflight>>
       ELSE /\ LET mustWait == inflight >= Limit
               IN  /\ pc' = [pc EXCEPT ![t] = IF mustWait THEN "marking" ELSE "waiting"]
                   /\ waiting' = IF mustWait THEN Append(waiting, t) ELSE waiting
            /\ inflight' = inflight + 1
            /\ acq' = [acq EXCEPT ![t] = "new"]
            /\ ready' = Append(ready, t)
            /\ UNCHANGED active
    /\ UNCHANGED <<deque, value>>

(* POST /v1/resolve under _create_lock: no identical task is running, and the line is not full. *)
ResolveAdmitted(t) ==
    /\ pc[t] = "out"
    /\ LockFree
    /\ ~Full
    /\ pc' = [pc EXCEPT ![t] = "creating"]
    /\ UNCHANGED <<acq, ready, deque, value, waiting, active, inflight>>

(* build_meta and the commit are over: the task exists and starts. *)
ResolveCreates(t) ==
    /\ pc[t] = "creating"
    /\ EnterSlot(t)

(* TMDB does not know the title, or does not answer: 404 or 502, no task. *)
ResolveFails(t) ==
    /\ pc[t] = "creating"
    /\ pc' = [pc EXCEPT ![t] = "out"]
    /\ UNCHANGED <<acq, ready, deque, value, waiting, active, inflight>>

(* POST .../sources and .../refresh of a finished task, under the same lock but without full(). *)
RestartFinished(t) ==
    /\ t \in Finished
    /\ pc[t] = "out"
    /\ LockFree
    /\ EnterSlot(t)

(* on_queued() returned (mark_queued swallows its own errors). *)
MarkedQueued(t) ==
    /\ pc[t] = "marking"
    /\ pc' = [pc EXCEPT ![t] = "waiting"]
    /\ UNCHANGED <<acq, ready, deque, value, waiting, active, inflight>>

(* `await acq` returned: the block starts. *)
Activate(t) ==
    /\ pc[t] = "waiting"
    /\ acq[t] = "done"
    /\ pc' = [pc EXCEPT ![t] = "active"]
    /\ waiting' = Without(waiting, t)
    /\ active' = active \cup {t}
    /\ UNCHANGED <<acq, ready, deque, value, inflight>>

(* The block ends, normally or by any exception. *)
LeaveBlock(t) ==
    /\ pc[t] = "active"
    /\ pc' = [pc EXCEPT ![t] = "out"]
    /\ active' = active \ {t}
    /\ IF Limit = 0
       THEN UNCHANGED <<acq, deque, value, inflight>>
       ELSE /\ Release([acq EXCEPT ![t] = "none"])
            /\ inflight' = inflight - 1
    /\ UNCHANGED <<ready, waiting>>

(* The call leaves the line without its block having run. *)
QuitLine(t) ==
    /\ pc' = [pc EXCEPT ![t] = "out"]
    /\ waiting' = Without(waiting, t)
    /\ inflight' = inflight - 1
    /\ UNCHANGED active

(* Fault: the slot is kept (acq.cancel() does nothing to an acquire() that is done). *)
CancelHoldingSlot_Kept(t) ==
    /\ pc[t] \in {"marking", "waiting"}
    /\ acq[t] = "done"
    /\ acq' = [acq EXCEPT ![t] = "none"]
    /\ QuitLine(t)
    /\ UNCHANGED <<ready, deque, value>>

(* Cancelled when acquire() was through: the except branch gives the slot back. *)
CancelHoldingSlot(t) ==
    /\ pc[t] \in {"marking", "waiting"}
    /\ acq[t] = "done"
    /\ Release([acq EXCEPT ![t] = "none"])
    /\ QuitLine(t)
    /\ UNCHANGED ready

(* Cancelled inside on_queued() with acquire() under way: the call is over, acquire() still has to notice. *)
CancelWhileMarking(t) ==
    /\ pc[t] = "marking"
    /\ acq[t] \in {"new", "queued", "granted"}
    /\ CancelAcquire(t)
    /\ QuitLine(t)

(* Cancelled in `await acq`: the cancellation goes to acquire() first ... *)
CancelWhileWaiting(t) ==
    /\ pc[t] = "waiting"
    /\ acq[t] \in {"new", "queued", "granted"}
    /\ CancelAcquire(t)
    /\ UNCHANGED <<pc, waiting, active, inflight>>

(* ... and comes back to slot() when acquire() has ended with it. *)
Unwind(t) ==
    /\ pc[t] = "waiting"
    /\ acq[t] = "cancelled"
    /\ acq' = [acq EXCEPT ![t] = "none"]
    /\ QuitLine(t)
    /\ UNCHANGED <<ready, deque, value>>

-----------------------------------------------------------------------------
EventLoop(t) ==
    \/ AcquireResumes(t)
    \/ AcquireCancelled(t)
    \/ MarkedQueued(t)
    \/ Activate(t)
    \/ Unwind(t)

Cancel(t) ==
    \/ CancelHoldingSlot(t)
    \/ CancelWhileMarking(t)
    \/ CancelWhileWaiting(t)

Request(t) ==
    \/ ResolveAdmitted(t)
    \/ ResolveCreates(t)
    \/ ResolveFails(t)
    \/ RestartFinished(t)

Next ==
    \/ AcquireBegins
    \/ \E t \in Tasks : EventLoop(t) \/ LeaveBlock(t) \/ Cancel(t) \/ Request(t)

Spec == Init /\ [][Next]_vars

(* The event loop runs every callback that is ready, and a running task ends: every source     *)
(* script has a timeout.  Clients and cancellations owe nothing.                                *)
QueueFairness ==
    /\ WF_vars(AcquireBegins)
    /\ \A t \in Tasks : WF_vars(EventLoop(t)) /\ WF_vars(LeaveBlock(t))

FairSpec == Spec /\ QueueFairness

-----------------------------------------------------------------------------
TypeOK ==
    /\ pc \in [Tasks -> PCs]
    /\ acq \in [Tasks -> AcqStates]
    /\ ready \in Seq(Tasks)
    /\ deque \in Seq(Tasks)
    /\ value \in Nat
    /\ waiting \in Seq(Tasks)
    /\ active \in SUBSET Tasks
    /\ inflight \in Nat

(* The permits that are not in the semaphore: their acquire() was granted one or has it. *)
Holding == {t \in Tasks : acq[t] \in {"granted", "done", "returning"}}

Inside == {t \in Tasks : pc[t] \in {"marking", "waiting", "active"}}

(* "At most MAX_CONCURRENT_TASKS run at once." *)
Capacity == Limit > 0 => Cardinality(active) <= Limit

(* No slot is ever lost or invented, whatever is cancelled between the semaphore and slot(). *)
PermitsConserved == value + Cardinality(Holding) = Limit

(* _inflight, which decides who must wait, counts exactly the calls inside slot(). *)
InflightExact == Limit > 0 => inflight = Cardinality(Inside)

(* A free permit and a waiter never just coexist: some acquire() is still to resume and will    *)
(* hand the permit on.                                                                          *)
NoStrandedPermit ==
    (value > 0 /\ \E t \in Tasks : acq[t] = "queued")
        => \E t \in Tasks : acq[t] \in {"granted", "returning"}

(* queue_position ("1 = next in line"): nobody behind a waiting task has its slot before it.    *)
PositionsInOrder ==
    \A i, j \in 1..Len(waiting) :
        (i < j /\ acq[waiting[i]] \in {"new", "queued"}) => acq[waiting[j]] \notin {"granted", "done"}

(* A call that was told not to wait waits for no task to finish: the slots that others hold     *)
(* leave it one.                                                                                *)
UnqueuedHasRoom ==
    \A t \in Tasks :
        (pc[t] = "waiting" /\ Places(waiting, t) = {} /\ acq[t] \in {"new", "queued"})
            => Cardinality({u \in Tasks : acq[u] \in {"granted", "done"}}) < Limit

(* "Beyond MAX_QUEUED_TASKS the API answers 429": the line is never longer than that. *)
LineCapped == Limit > 0 => Len(waiting) <= MaxQueued

(* Nobody is left in line: a call inside slot() gets its slot or is cancelled. *)
Served == \A t \in Tasks : pc[t] \in {"marking", "waiting"} ~> pc[t] \in {"active", "out"}

-----------------------------------------------------------------------------
(* The line of SlotLine is the semaphore's: waiters whose future is open, in the order of the  *)
(* deque, and behind them the acquire() tasks that have not begun, in the order of creation.    *)
InLine == {t \in Tasks : acq[t] \in {"new", "queued"}}

Comes(s, u, t) == \E i, j \in 1..Len(s) : i < j /\ s[i] = u /\ s[j] = t

Before(u, t) ==
    \/ Comes(deque, u, t)
    \/ Comes(ready, u, t)
    \/ acq[u] = "queued" /\ acq[t] = "new"

Ahead == [t \in InLine |-> {u \in InLine : Before(u, t)}]

SL == INSTANCE SlotLine WITH ahead <- Ahead, holders <- Holding

ImplementsSlotLine == SL!Spec
=============================================================================
