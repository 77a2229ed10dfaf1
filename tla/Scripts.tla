------------------------------ MODULE Scripts ------------------------------
(***************************************************************************)
(* Running a source's script: runner.run_script, with the slots its        *)
(* callers hold: scheduler.BrowserSlots for the whole server, a semaphore  *)
(* for the sources of one task.  Its callers are resolver.one and the      *)
(* admin's test runs (_run_test in routers/admin.py).  A script is a       *)
(* process group: itself and the children it started, a browser say.       *)
(***************************************************************************)
EXTENDS Naturals, FiniteSets, Sequences

CONSTANTS TaskRuns,     \* the source runs of one task
          Tests,        \* the admin's test runs
          Heavy,        \* the runs of browser sources
          Forking,      \* the runs whose script may start children
          MaxBrowsers,  \* settings.max_browser_scripts
          MaxParallel   \* settings.max_parallel_sources

ASSUME ScriptsAssumption ==
    /\ IsFiniteSet(TaskRuns) /\ IsFiniteSet(Tests) /\ TaskRuns \cap Tests = {}
    /\ Heavy \cup Forking \subseteq TaskRuns \cup Tests
    /\ MaxBrowsers \in Nat \ {0} /\ MaxParallel \in Nat \ {0}

Runs == TaskRuns \cup Tests

VARIABLES at,        \* where the coroutine of a run is
          script,    \* the script's process: none, alive, exited, killed
          kids,      \* it left children that are alive
          sandbox,   \* its temporary directory is there
          hasSlot,   \* runs inside BrowserSlots.slot
          hasTurn,   \* runs inside their task's semaphore
          slots,     \* BrowserSlots: waiting and running
          hung       \* bookkeeping: runs that ended by their time limit

scriptVars == <<at, script, kids, sandbox, hasSlot, hasTurn, slots, hung>>

procVars == <<script, kids, sandbox, hung>>
slotVars == <<hasSlot, hasTurn, slots>>

ScriptsInit ==
    /\ at = [r \in Runs |-> "none"]
    /\ script = [r \in Runs |-> "none"]
    /\ kids = {} /\ sandbox = {} /\ hung = {}
    /\ hasSlot = {} /\ hasTurn = {}
    /\ slots = [waiting |-> 0, running |-> 0]

Move(r, where) == at' = [at EXCEPT ![r] = where]

-----------------------------------------------------------------------------
(* POST test/start: the coroutine asks TMDB for the metadata first. *)
StartTest(t) ==
    /\ at[t] = "none"
    /\ Move(t, "meta")
    /\ UNCHANGED procVars /\ UNCHANGED slotVars

(* What a run waits for: a light one needs no browser slot. *)
Waypoints(r) == IF r \in Heavy THEN <<"browser", "turn", "launch">> ELSE <<"turn", "launch">>

(* It begins to wait for the first, or has waited for the k-th and begins with the next; the     *)
(* line of BrowserSlots is counted.                                                              *)
Enter(r, k, slotsNow) ==
    /\ Move(r, Waypoints(r)[k])
    /\ slots' = [slotsNow EXCEPT !.waiting = @ + (IF Waypoints(r)[k] = "browser" THEN 1 ELSE 0)]

After(r, where) == 1 + CHOOSE k \in DOMAIN Waypoints(r) : Waypoints(r)[k] = where

MetaArrives(t) ==
    /\ at[t] = "meta"
    /\ Enter(t, 1, slots)
    /\ UNCHANGED <<hasSlot, hasTurn>> /\ UNCHANGED procVars

(* resolver's one(): a source run of the task begins. *)
BeginRun(r) ==
    /\ r \in TaskRuns
    /\ at[r] = "none"
    /\ Enter(r, 1, slots)
    /\ UNCHANGED <<hasSlot, hasTurn>> /\ UNCHANGED procVars

(* BrowserSlots.slot: its acquire returns. *)
GetSlot(r) ==
    /\ at[r] = "browser"
    /\ Cardinality(hasSlot) < MaxBrowsers
    /\ hasSlot' = hasSlot \cup {r}
    /\ Enter(r, After(r, "browser"), [waiting |-> slots.waiting - 1, running |-> slots.running + 1])
    /\ UNCHANGED hasTurn /\ UNCHANGED procVars

(* async with sem: tests have no such limit. *)
GetTurn(r) ==
    /\ at[r] = "turn"
    /\ \/ /\ r \in Tests
          /\ UNCHANGED hasTurn
       \/ /\ r \in TaskRuns
          /\ Cardinality(hasTurn) < MaxParallel
          /\ hasTurn' = hasTurn \cup {r}
    /\ Enter(r, After(r, "turn"), slots)
    /\ UNCHANGED hasSlot /\ UNCHANGED procVars

-----------------------------------------------------------------------------
(* run_script: the sandbox, then the process, unless starting it fails. *)
Launch(r) ==
    /\ at[r] = "launch"
    /\ sandbox' = sandbox \cup {r}
    /\ \/ script' = [script EXCEPT ![r] = "alive"] /\ Move(r, "run")
       \/ UNCHANGED script /\ Move(r, "clean")
    /\ UNCHANGED <<kids, hung>> /\ UNCHANGED slotVars

ScriptForks(r) ==
    /\ r \in Forking
    /\ script[r] = "alive"
    /\ kids' = kids \cup {r}
    /\ UNCHANGED <<at, script, sandbox, hung>> /\ UNCHANGED slotVars

ScriptExits(r) ==
    /\ script[r] = "alive"
    /\ script' = [script EXCEPT ![r] = "exited"]
    /\ \/ kids' = kids \ {r}
       \/ UNCHANGED kids
    /\ UNCHANGED <<at, sandbox, hung>> /\ UNCHANGED slotVars

(* Fault: only a script that ran out of time is killed. *)
Cleanup_AfterTimeout(r) ==
    /\ Move(r, "clean")
    /\ script' = [script EXCEPT ![r] = IF r \in hung' THEN "killed" ELSE @]
    /\ kids' = kids

(* finally: a script that has no return code is killed, with its process group. *)
Cleanup(r) ==
    /\ Move(r, "clean")
    /\ script' = [script EXCEPT ![r] = IF @ = "alive" THEN "killed" ELSE @]
    /\ kids' = IF script[r] = "alive" THEN kids \ {r} ELSE kids

(* collect(): the script has ended and nobody holds its pipes any more, or its output is too large. *)
Collected(r) ==
    /\ at[r] = "run"
    /\ UNCHANGED hung
    /\ Cleanup(r)
    /\ UNCHANGED sandbox /\ UNCHANGED slotVars

(* Fault: a script that has exited is not timed any more. *)
TimedOut_AliveOnly(r) ==
    /\ at[r] = "run" /\ script[r] = "alive"
    /\ hung' = hung \cup {r}
    /\ Cleanup(r)
    /\ UNCHANGED sandbox /\ UNCHANGED slotVars

TimedOut(r) ==
    /\ at[r] = "run"
    /\ hung' = hung \cup {r}
    /\ Cleanup(r)
    /\ UNCHANGED sandbox /\ UNCHANGED slotVars

(* Leaving BrowserSlots.slot and the semaphore. *)
LeaveSlots(r) ==
    /\ hasTurn' = hasTurn \ {r}
    /\ hasSlot' = hasSlot \ {r}
    /\ slots' = [slots EXCEPT !.running = @ - (IF r \in hasSlot THEN 1 ELSE 0)]

(* rmtree, and the run is over, well or not. *)
RunEnds(r) ==
    /\ at[r] = "clean"
    /\ sandbox' = sandbox \ {r}
    /\ LeaveSlots(r)
    /\ Move(r, "done")
    /\ UNCHANGED <<script, kids, hung>>

MetaFails(t) ==
    /\ at[t] = "meta"
    /\ Move(t, "done")
    /\ UNCHANGED procVars /\ UNCHANGED slotVars

-----------------------------------------------------------------------------
Waits == {"meta", "browser", "turn"}

(* Fault: a run that is cancelled in the line is still counted there. *)
CancelWaiting_Counted(t) ==
    /\ at[t] \in Waits
    /\ LeaveSlots(t)
    /\ Move(t, "done")
    /\ UNCHANGED procVars

(* POST tests/{id}/cancel, or the shutdown of a task: a run that waits is over. *)
CancelWaiting(t) ==
    /\ at[t] \in Waits
    /\ hasTurn' = hasTurn \ {t}
    /\ hasSlot' = hasSlot \ {t}
    /\ slots' = [waiting |-> slots.waiting - (IF at[t] = "browser" THEN 1 ELSE 0),
                 running |-> slots.running - (IF t \in hasSlot THEN 1 ELSE 0)]
    /\ Move(t, "done")
    /\ UNCHANGED procVars

(* A run whose script runs: the finally of run_script. *)
CancelRunning(t) ==
    /\ at[t] = "run"
    /\ UNCHANGED hung
    /\ Cleanup(t)
    /\ UNCHANGED sandbox /\ UNCHANGED slotVars

(* Cancelled again while it waits up to 5 s for the killed script: the sandbox stays behind. *)
CancelCleaning(t) ==
    /\ at[t] = "clean"
    /\ script[t] = "killed"
    /\ LeaveSlots(t)
    /\ Move(t, "done")
    /\ UNCHANGED procVars

CancelRun(r) == CancelWaiting(r) \/ CancelRunning(r) \/ CancelCleaning(r)

RunStep(r) ==
    \/ BeginRun(r) \/ MetaArrives(r) \/ MetaFails(r) \/ GetSlot(r) \/ GetTurn(r) \/ Launch(r)
    \/ Collected(r) \/ TimedOut(r) \/ RunEnds(r)

ScriptsNext ==
    \/ \E t \in Tests : StartTest(t)
    \/ \E r \in Runs : RunStep(r) \/ ScriptForks(r) \/ ScriptExits(r) \/ CancelRun(r)

ScriptsSpec == ScriptsInit /\ [][ScriptsNext]_scriptVars

(* The semaphores are fair, TMDB answers or times out, a process starts or does not, wait_for    *)
(* times out, the finally ends.  What a script does is up to it.                                 *)
ScriptsFairness ==
    \A r \in Runs :
        /\ WF_scriptVars(MetaArrives(r) \/ MetaFails(r))
        /\ WF_scriptVars(GetSlot(r))
        /\ WF_scriptVars(GetTurn(r))
        /\ WF_scriptVars(Launch(r))
        /\ WF_scriptVars(TimedOut(r))
        /\ WF_scriptVars(RunEnds(r))

ScriptsFairSpec == ScriptsSpec /\ ScriptsFairness

-----------------------------------------------------------------------------
RunPlaces == {"none", "meta", "browser", "turn", "launch", "run", "clean", "done"}

ScriptsTypeOK ==
    /\ at \in [Runs -> RunPlaces]
    /\ script \in [Runs -> {"none", "alive", "exited", "killed"}]
    /\ {kids, sandbox, hasSlot, hasTurn, hung} \subseteq SUBSET Runs
    /\ slots \in [waiting : Nat, running : Nat]

(* BrowserSlots' figures are exact and within the limit, whoever is cancelled where: the admin   *)
(* panel shows them, and a permit that is lost would be missing for good.                        *)
SlotsExact ==
    /\ slots.waiting = Cardinality({r \in Runs : at[r] = "browser"})
    /\ slots.running = Cardinality(hasSlot)
    /\ hasSlot = {r \in Heavy : at[r] \in {"turn", "launch", "run", "clean"}}
    /\ slots.running <= MaxBrowsers

(* "a queued browser source never blocks the light sources of its own task" (resolver.py): while *)
(* a light source waits for its turn, those whose turn it is are running a script.               *)
LightNotBlocked ==
    (\E r \in TaskRuns \ Heavy : at[r] = "turn") => \A q \in hasTurn : at[q] \in {"launch", "run", "clean"}

(* No script outlives its run, and outside a run no sandbox is left, except by a second          *)
(* cancellation: whatever ends the run, time, output, a cancellation, a failed start.            *)
ScriptsDie == \A r \in Runs : at[r] = "done" => script[r] # "alive" /\ (r \in sandbox => script[r] = "killed")

(* "never leave a test stuck on \"running\"" (_run_test), and the same for a source run: it ends,   *)
(* also when the script is gone and a child of it holds its pipes.                               *)
RunsEnd == \A r \in Runs : (at[r] # "none") ~> (at[r] = "done")

(* README.md: "hard timeout + process-group kill".  A run that hit its time limit leaves no      *)
(* process behind.                                                                               *)
TimeoutKillsGroup == \A r \in hung : at[r] = "done" => r \notin kids

=============================================================================
