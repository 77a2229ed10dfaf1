----------------------------- MODULE DiskClean -----------------------------
(***************************************************************************)
(* The disk clean: diskjob.run with diskclean.scan and delete, the         *)
(* schedule of autoclean.py, and the clean of the host, which the          *)
(* application asks for with a file (hostclean.py) and an agent on the     *)
(* host carries out (scripts/host_cleanup.sh --agent-tick).  The library   *)
(* goes on meanwhile: items are requested, download into their folder and  *)
(* are deleted.  One tick is diskclean's ORPHAN_MIN_AGE_S; a scan begins   *)
(* within a tick of the query for the live items.                          *)
(***************************************************************************)
EXTENDS Naturals, FiniteSets

CONSTANTS LibItems,     \* library items
          EveryTicks,   \* cfg["every_hours"]
          GapTicks,     \* EMERGENCY_GAP_S
          MaxAsked,     \* bound: requests to the host agent
          MaxScanFaults \* bound: cleans that fail

ASSUME DiskCleanAssumption ==
    /\ GapTicks \in Nat /\ EveryTicks \in Nat /\ GapTicks <= EveryTicks
    /\ MaxAsked \in Nat /\ MaxScanFaults \in Nat

VARIABLES item,      \* its row: none, active (queued, downloading, ready), ended, forgotten
          dir,       \* its folder: none, fresh (written within a tick), old
          clean,     \* the clean under way: pc, the live items it read, its candidates
          lastRun,   \* ticks since cfg["last_run"], EveryTicks when there is none
          hostReq,   \* request.json: 0, or the number of a request
          agent,     \* the agent on the host: pc and the request in hand
          asked,     \* requests written
          hostRuns,  \* bookkeeping: [request -> the runs it got]
          spoiled,   \* bookkeeping: live items that lost their folder to a clean
          scanFaults

cleanVars == <<item, dir, clean, lastRun, hostReq, agent, asked, hostRuns, spoiled, scanFaults>>

libraryVars == <<item, dir>>
hostVars == <<hostReq, agent, asked, hostRuns>>

NoClean == [pc |-> "idle", live |-> {}, cands |-> {}]

CleanInit ==
    /\ item = [i \in LibItems |-> "none"]
    /\ dir = [i \in LibItems |-> "none"]
    /\ clean = NoClean
    /\ lastRun = EveryTicks
    /\ hostReq = 0
    /\ agent = [pc |-> "idle", req |-> 0]
    /\ asked = 0
    /\ hostRuns = [r \in 1..MaxAsked |-> 0]
    /\ spoiled = {} /\ scanFaults = 0

-----------------------------------------------------------------------------
(* The library around it (Library.tla has the details): a row is there before its folder, a      *)
(* folder before the end of the download, and an rmtree may leave a folder behind.               *)
ItemRequested(i) ==
    /\ item[i] = "none"
    /\ item' = [item EXCEPT ![i] = "active"]
    /\ UNCHANGED <<dir, clean, lastRun, spoiled, scanFaults>> /\ UNCHANGED hostVars

ItemWrites(i) ==
    /\ item[i] = "active"
    /\ dir' = [dir EXCEPT ![i] = "fresh"]
    /\ UNCHANGED <<item, clean, lastRun, spoiled, scanFaults>> /\ UNCHANGED hostVars

ItemEnds(i) ==
    /\ item[i] = "active"
    /\ item' = [item EXCEPT ![i] = "ended"]
    /\ \/ dir' = [dir EXCEPT ![i] = "none"]
       \/ UNCHANGED dir
    /\ UNCHANGED <<clean, lastRun, spoiled, scanFaults>> /\ UNCHANGED hostVars

AtMost(a, b) == IF a < b THEN a ELSE b

CleanTick ==
    /\ clean.pc # "select"
    /\ dir' = [i \in LibItems |-> IF dir[i] = "fresh" THEN "old" ELSE dir[i]]
    /\ lastRun' = AtMost(lastRun + 1, EveryTicks)
    /\ UNCHANGED <<item, clean, spoiled, scanFaults>> /\ UNCHANGED hostVars

-----------------------------------------------------------------------------
(* AutoClean.due, with the disk nearly full or not. *)
Due(low) == lastRun >= EveryTicks \/ (low /\ lastRun >= GapTicks)

(* diskjob.run: Busy unless no clean is under way; _lock is taken without an await after the look. *)
CleanBegins ==
    /\ clean.pc = "idle"
    /\ clean' = [NoClean EXCEPT !.pc = "tidy"]
    /\ UNCHANGED <<lastRun, spoiled, scanFaults>>
    /\ UNCHANGED libraryVars /\ UNCHANGED hostVars

ManualClean == CleanBegins

(* A round of run_loop: diskjob.automatic. *)
AutomaticClean(low) ==
    /\ Due(low)
    /\ CleanBegins

(* database: finished rows are forgotten. *)
Tidy ==
    /\ clean.pc = "tidy"
    /\ clean' = [clean EXCEPT !.pc = "look"]
    /\ \/ UNCHANGED item
       \/ item' = [i \in LibItems |-> IF item[i] = "ended" THEN "forgotten" ELSE item[i]]
    /\ UNCHANGED <<dir, lastRun, spoiled, scanFaults>> /\ UNCHANGED hostVars

(* Fault: every item that has a row counts as live. *)
Live_AnyRow == {i \in LibItems : item[i] \in {"active", "ended"}}

Live == {i \in LibItems : item[i] = "active"}

(* candidates: the ids of the live items, read before the folders are looked at. *)
SelectLive ==
    /\ clean.pc = "look"
    /\ clean' = [clean EXCEPT !.pc = "select", !.live = Live]
    /\ UNCHANGED <<lastRun, spoiled, scanFaults>>
    /\ UNCHANGED libraryVars /\ UNCHANGED hostVars

(* Fault: a folder of any age. *)
Orphans_AnyAge(live) == {i \in LibItems \ live : dir[i] # "none"}

(* scan: folders no live item points at, and not written lately. *)
Orphans(live) == {i \in LibItems \ live : dir[i] = "old"}

Scan ==
    /\ clean.pc = "select"
    /\ clean' = [clean EXCEPT !.pc = "delete", !.cands = Orphans(clean.live)]
    /\ UNCHANGED <<lastRun, spoiled, scanFaults>>
    /\ UNCHANGED libraryVars /\ UNCHANGED hostVars

(* delete, in its thread: one candidate after the other. *)
DeleteOne(i) ==
    /\ clean.pc = "delete"
    /\ i \in clean.cands
    /\ clean' = [clean EXCEPT !.cands = @ \ {i}]
    /\ dir' = [dir EXCEPT ![i] = "none"]
    /\ spoiled' = IF item[i] = "active" THEN spoiled \cup {i} ELSE spoiled
    /\ UNCHANGED <<item, lastRun, scanFaults>> /\ UNCHANGED hostVars

(* Fault: the agent may be reading the file that is written over. *)
Ask_Overwrites ==
    \/ /\ asked < MaxAsked
       /\ asked' = asked + 1
       /\ hostReq' = asked + 1
    \/ UNCHANGED <<hostReq, asked>>

(* hostclean.request: a pending request is not replaced; not configured, no agent or a failed    *)
(* write leave everything as it is.                                                              *)
Ask ==
    \/ /\ asked < MaxAsked
       /\ hostReq = 0
       /\ asked' = asked + 1
       /\ hostReq' = asked + 1
    \/ UNCHANGED <<hostReq, asked>>

(* The report is made, the host asked if wanted, and state.record notes the time. *)
CleanEnds ==
    /\ clean.pc = "delete"
    /\ clean.cands = {}
    /\ clean' = NoClean
    /\ lastRun' = 0
    /\ Ask
    /\ UNCHANGED <<spoiled, scanFaults, agent, hostRuns>> /\ UNCHANGED libraryVars

(* A database or disk error anywhere: the lock is free again, nothing is recorded. *)
CleanFails ==
    /\ clean.pc \in {"tidy", "look", "select"}
    /\ scanFaults < MaxScanFaults
    /\ scanFaults' = scanFaults + 1
    /\ clean' = NoClean
    /\ UNCHANGED <<lastRun, spoiled>> /\ UNCHANGED libraryVars /\ UNCHANGED hostVars

(* POST /admin/disk/scan and /admin/hostclean/run. *)
PanelAsks ==
    /\ Ask
    /\ UNCHANGED <<clean, lastRun, spoiled, scanFaults, agent, hostRuns>>
    /\ UNCHANGED libraryVars

(* The agent's minute: it takes the file away and cleans, one clean at a time (flock). *)
AgentTakes ==
    /\ agent.pc = "idle"
    /\ hostReq # 0
    /\ agent' = [pc |-> "cleaning", req |-> hostReq]
    /\ hostReq' = 0
    /\ UNCHANGED <<clean, lastRun, spoiled, scanFaults, asked, hostRuns>>
    /\ UNCHANGED libraryVars

AgentDone ==
    /\ agent.pc = "cleaning"
    /\ agent' = [pc |-> "idle", req |-> 0]
    /\ hostRuns' = [hostRuns EXCEPT ![agent.req] = @ + 1]
    /\ UNCHANGED <<clean, lastRun, spoiled, scanFaults, hostReq, asked>>
    /\ UNCHANGED libraryVars

LibraryStep == \E i \in LibItems : ItemRequested(i) \/ ItemWrites(i) \/ ItemEnds(i)

CleanSteps ==
    \/ Tidy \/ SelectLive \/ Scan \/ CleanEnds
    \/ \E i \in LibItems : DeleteOne(i)

CleanNext ==
    \/ LibraryStep \/ CleanTick
    \/ ManualClean \/ (\E low \in BOOLEAN : AutomaticClean(low)) \/ CleanSteps \/ CleanFails
    \/ PanelAsks
    \/ AgentTakes \/ AgentDone

CleanSpec == CleanInit /\ [][CleanNext]_cleanVars

(* Time passes, run_loop looks every minute while the schedule is on, a clean gets on, and the   *)
(* agent's cron job runs.                                                                        *)
AgentFairness ==
    /\ WF_cleanVars(CleanSteps)
    /\ WF_cleanVars(AgentTakes)
    /\ WF_cleanVars(AgentDone)

CleanFairness ==
    /\ SF_cleanVars(CleanTick)
    /\ WF_cleanVars(AutomaticClean(FALSE))
    /\ AgentFairness

CleanFairSpec == CleanSpec /\ CleanFairness

-----------------------------------------------------------------------------
CleanTypeOK ==
    /\ item \in [LibItems -> {"none", "active", "ended", "forgotten"}]
    /\ dir \in [LibItems -> {"none", "fresh", "old"}]
    /\ clean \in [pc : {"idle", "tidy", "look", "select", "delete"},
                  live : SUBSET LibItems, cands : SUBSET LibItems]
    /\ lastRun \in 0..EveryTicks
    /\ hostReq \in 0..MaxAsked
    /\ agent \in [pc : {"idle", "cleaning"}, req : 0..MaxAsked]
    /\ asked \in 0..MaxAsked /\ hostRuns \in [1..MaxAsked -> Nat]
    /\ spoiled \subseteq LibItems /\ scanFaults \in 0..MaxScanFaults

(* "Running downloads and fresh files are never touched" (POST /admin/disk/clean): no clean      *)
(* removes the folder of a live item, although items appear, and get their folders, after the    *)
(* clean has read which items are live, and folders are deleted long after both.                 *)
CleanSparesLive == spoiled = {}

(* What an item that is gone left behind goes with one of the next cleans, whether or not the    *)
(* clean tidies the database and although one may fail.                                          *)
LeftoversGo == \A i \in LibItems : (item[i] \in {"ended", "forgotten"}) ~> (dir[i] = "none")

(* A request the application has written reaches the agent and is carried out, although others   *)
(* ask meanwhile (hostclean.request: "a second request while one is pending is not stacked").    *)
HostServes == \A r \in 1..MaxAsked : (asked >= r) ~> (hostRuns[r] = 1)
=============================================================================
