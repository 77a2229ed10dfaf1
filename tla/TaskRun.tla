------------------------------ MODULE TaskRun -------------------------------
(***************************************************************************)
(* The life of one task: app/resolver.py (start_task, _scheduled, _run,    *)
(* expire_task_results, purge_old_tasks, fail_stuck_tasks), app/ranked.py  *)
(* and the three endpoints of app/routers/resolve.py that start a search:  *)
(* resolve, more_sources and refresh_sources.                              *)
(*                                                                         *)
(* Everything runs in one event loop, so a step lasts from one await to    *)
(* the next.  What makes it hard is what is carried across an await: a     *)
(* search keeps its ORM copy of the row (expire_on_commit is off) and      *)
(* counts versions from it, an endpoint commits what it decided on the row *)
(* it fetched, and the cleanup job commits what it decided on the rows it  *)
(* selected.  A run of the coroutine _scheduled is a "job"; several may    *)
(* exist for the same task.                                                *)
(***************************************************************************)
EXTENDS Naturals, FiniteSets

CONSTANTS
    Sources,      \* the sources that have an active script
    Before,       \* Before[s]: the sources ranked before s (order_rows)
    Starred,      \* the sources with a star
    Wants,        \* the values of max_sources a client sends, 0 = none given
    Jobs,         \* identities for the runs of _scheduled
    Waiters,      \* the requests that long-poll the task (TaskWait.tla)
    Requests,     \* subset of {"more", "refresh"}: what clients do with a finished task
    PromptTail,   \* TRUE: a search that has made its last commit is out of the way before a
                  \* request that read this commit has made a commit of its own
    MaxVersion,   \* bound: no request once the version is this large
    MaxFaults,    \* bound: database commits that fail
    MaxToggles,   \* bound: times an admin enables or disables a source
    MaxRestarts   \* bound: crashes of the server

ASSUME SourcesAssumption ==
    /\ IsFiniteSet(Sources)
    /\ Starred \subseteq Sources
    /\ Before \in [Sources -> SUBSET Sources]
(* order_rows sorts. *)
ASSUME RankingAssumption ==
    \A s, t \in Sources : /\ s \notin Before[s]
                          /\ s \in Before[t] => Before[s] \subseteq Before[t]
                          /\ s = t \/ s \in Before[t] \/ t \in Before[s]
ASSUME WantsAssumption == Wants \subseteq Nat
ASSUME BoundsAssumption ==
    /\ {MaxVersion, MaxFaults, MaxToggles, MaxRestarts} \subseteq Nat
    /\ PromptTail \in BOOLEAN
    /\ Requests \subseteq {"more", "refresh"}

VARIABLES
    row,       \* the tasks row
    runs,      \* source_runs: runs[s] is the outcome saved for s, "none" when there is no row
    links,     \* the sources whose run still has its streams
    enabled,   \* the enabled sources
    job,       \* job[j]: the coroutine _scheduled, with the locals of _run and run_ranked
    known,     \* resolver.running: the job registered under the task id, NoJob when none is
    event,     \* signals._events has an event for the task
    armed,     \* the waiters that hold this very event
    fired,     \* the waiters whose event was set
    req,       \* more_sources / refresh_sources between the fetch and the commit, holding _create_lock
    cleanup,   \* expire_task_results between the select and the commit
    faults, toggles, restarts

rowVars == <<row, runs, links>>
signalVars == <<event, armed, fired>>
boundVars == <<faults, toggles, restarts>>
vars == <<row, runs, links, enabled, job, known, event, armed, fired, req, cleanup,
          faults, toggles, restarts>>

InFlight == {"pending", "queued", "running"}
Outcomes == {"ok", "empty", "error"}
NoJob == "nojob"

Statuses == InFlight \cup {"absent", "done", "failed", "expired", "gone"}
Exists == row.status \notin {"absent", "gone"}

(* effective_status: a finished task past its expiry is expired before the cleanup says so. *)
EffectiveStatus ==
    IF row.status \in {"done", "failed"} /\ ~row.fresh THEN "expired" ELSE row.status

Idle == [pc |-> "idle", refresh |-> FALSE, only |-> {}, wanted |-> 0, found |-> 0, anyOk |-> FALSE,
         version |-> 0, phase |-> [s \in Sources |-> "no"], out |-> [s \in Sources |-> "none"],
         saving |-> {}]

NoRequest == [op |-> "none", version |-> 0, wanted |-> 0, chosen |-> {}]
NoCleanup == [on |-> FALSE, version |-> 0, seen |-> {}, stale |-> FALSE]

Init ==
    /\ row = [status |-> "absent", version |-> 0, wanted |-> 0, fresh |-> TRUE, total |-> 0, starred |-> 0]
    /\ runs = [s \in Sources |-> "none"]
    /\ links = {}
    /\ enabled = Sources
    /\ job = [j \in Jobs |-> Idle]
    /\ known = NoJob
    /\ event = FALSE
    /\ armed = {}
    /\ fired = {}
    /\ req = NoRequest
    /\ cleanup = NoCleanup
    /\ faults = 0 /\ toggles = 0 /\ restarts = 0

-----------------------------------------------------------------------------
(* app/signals.py *)

(* A new event replaces the old one, which is not set: whoever holds that waits for its 1 s cap. *)
Register ==
    /\ event' = TRUE
    /\ armed' = {}
    /\ UNCHANGED fired

Notify ==
    /\ IF event THEN fired' = fired \cup armed /\ armed' = {} ELSE UNCHANGED <<armed, fired>>
    /\ UNCHANGED event

Unregister ==
    /\ IF event THEN fired' = fired \cup armed /\ armed' = {} ELSE UNCHANGED <<armed, fired>>
    /\ event' = FALSE

-----------------------------------------------------------------------------
Tried == {s \in Sources : runs[s] # "none"}

In(j, phases) == {s \in Sources : job[j].phase[s] \in phases}

(* The jobs that may still write to the task, and those past their last commit. *)
Flying == {j \in Jobs : job[j].pc \notin {"idle", "close", "ended"}}
Ending == {j \in Jobs : job[j].pc \in {"close", "ended"}}

(* start_task: register the event and the coroutine under the task id. *)
StartTask(refresh, only) ==
    /\ \E j \in Jobs :
        /\ job[j].pc = "idle"
        /\ job' = [job EXCEPT ![j] = [Idle EXCEPT !.pc = "start", !.refresh = refresh, !.only = only]]
        /\ known' = j
    /\ Register

(* POST /v1/resolve commits a new task and starts it. (The dup lookup is about other tasks' rows:  *)
(* it finds this one exactly while its status is in flight and its id is in `running`.)             *)
Resolve(wanted) ==
    /\ row.status = "absent"
    /\ req.op = "none"
    /\ row' = [row EXCEPT !.status = "pending", !.wanted = wanted]
    /\ StartTask(FALSE, Sources)
    /\ UNCHANGED <<runs, links, enabled, req, cleanup, boundVars>>

(* Fault: no 409 for a task that is still running. *)
Restartable_NoConflict ==
    /\ req.op = "none"
    /\ Exists
    /\ EffectiveStatus # "expired"
    /\ row.version < MaxVersion

(* A finished task with live results: what more_sources and refresh_sources ask for (else 404, 409, 410). *)
Restartable ==
    /\ req.op = "none"
    /\ Exists
    /\ EffectiveStatus \in {"done", "failed"}
    /\ row.version < MaxVersion

(* more_sources, up to the commit: `count` sources more than were found, if any is left to ask. *)
MoreFetch(count) ==
    /\ "more" \in Requests
    /\ Restartable
    /\ enabled \ Tried # {}
    /\ req' = [op |-> "more", version |-> row.version, chosen |-> {},
               wanted |-> Cardinality({s \in Sources : runs[s] = "ok"}) + count]
    /\ UNCHANGED <<rowVars, enabled, job, known, signalVars, cleanup, boundVars>>

(* refresh_sources, up to the commit: the client names sources of the task, all still runnable. *)
RefreshFetch(chosen) ==
    /\ "refresh" \in Requests
    /\ Restartable
    /\ chosen # {}
    /\ chosen \subseteq Tried \cap enabled
    /\ req' = [op |-> "refresh", version |-> row.version, chosen |-> chosen, wanted |-> row.wanted]
    /\ UNCHANGED <<rowVars, enabled, job, known, signalVars, cleanup, boundVars>>

(* The commit of either, and start_task. Only the attributes it assigned are written. *)
RequestCommit ==
    /\ req.op # "none"
    /\ Exists
    /\ PromptTail => Ending = {}
    /\ row' = [row EXCEPT !.status = "pending", !.version = req.version + 1, !.wanted = req.wanted,
                          !.fresh = row.fresh \/ req.op = "refresh"]
    /\ runs' = [s \in Sources |-> IF s \in req.chosen THEN "none" ELSE runs[s]]
    /\ links' = links \ req.chosen
    /\ cleanup' = [cleanup EXCEPT !.seen = @ \ req.chosen,
                                  !.stale = @ \/ req.chosen \cap cleanup.seen # {}]
    /\ StartTask(req.op = "refresh", IF req.op = "refresh" THEN req.chosen ELSE Sources)
    /\ req' = NoRequest
    /\ UNCHANGED <<enabled, boundVars>>

(* The commit fails, or the row was purged meanwhile: the client gets a 500, nothing is started. *)
RequestFails ==
    /\ req.op # "none"
    /\ \/ row.status = "gone" /\ UNCHANGED faults
       \/ faults < MaxFaults /\ faults' = faults + 1
    /\ req' = NoRequest
    /\ UNCHANGED <<rowVars, enabled, job, known, signalVars, cleanup, toggles, restarts>>

-----------------------------------------------------------------------------
(* A commit of job j goes through only while the row exists (a purged row fails the flush), and    *)
(* the database may refuse it.                                                                      *)
CommitFails ==
    \/ row.status = "gone" /\ UNCHANGED faults
    \/ Exists /\ faults < MaxFaults /\ faults' = faults + 1

(* mark_queued: no slot is free. It reads the row ... *)
QueueRead(j) ==
    /\ job[j].pc = "start"
    /\ job' = [job EXCEPT ![j].pc = IF row.status = "pending" THEN "queueing" ELSE "queued",
                          ![j].version = row.version]
    /\ IF row.status = "pending" THEN UNCHANGED signalVars ELSE Notify
    /\ UNCHANGED <<rowVars, enabled, known, req, cleanup, boundVars>>

(* ... and shows the task as queued. *)
QueueCommit(j) ==
    /\ job[j].pc = "queueing"
    /\ Exists
    /\ row' = [row EXCEPT !.status = "queued", !.version = job[j].version + 1]
    /\ job' = [job EXCEPT ![j].pc = "queued"]
    /\ Notify
    /\ UNCHANGED <<runs, links, enabled, known, req, cleanup, boundVars>>

(* Best effort: the task still runs when its turn comes. *)
QueueFails(j) ==
    /\ job[j].pc = "queueing"
    /\ CommitFails
    /\ job' = [job EXCEPT ![j].pc = "queued"]
    /\ UNCHANGED <<rowVars, enabled, known, signalVars, req, cleanup, toggles, restarts>>

LoadWith(j, found, anyOk, version, tried) ==
    /\ job[j].pc \in {"start", "queued"}
    /\ IF row.status = "gone"
       THEN job' = [job EXCEPT ![j].pc = "close"]
       ELSE job' = [job EXCEPT ![j] =
               [@ EXCEPT !.pc = "announce",
                         !.version = version,
                         !.wanted = IF job[j].refresh THEN 0 ELSE row.wanted,
                         !.found = found,
                         !.anyOk = anyOk,
                         !.phase = [s \in Sources |-> IF s \in (enabled \cap job[j].only) \ tried
                                                      THEN "candidate" ELSE "no"]]]
    /\ UNCHANGED <<rowVars, enabled, known, signalVars, req, cleanup, boundVars>>

PriorFound == Cardinality({s \in Sources : runs[s] = "ok"})
PriorOk == \E s \in Tried : runs[s] # "error"

(* Faults: the sources already asked, those that already answered, or the version as mark_queued *)
(* left it are not looked up.                                                                     *)
Load_Repeats(j) == LoadWith(j, PriorFound, PriorOk, row.version, {})
Load_NoPriorOk(j) == LoadWith(j, PriorFound, FALSE, row.version, Tried)
Load_OldVersion(j) == LoadWith(j, PriorFound, PriorOk, job[j].version, Tried)

(* _run: the row, what was asked before, and the sources to ask now. *)
Load(j) == LoadWith(j, PriorFound, PriorOk, row.version, Tried)

(* Fault: pop() where pop(0) is meant. *)
StartMore_LastFirst(b) ==
    LET waiting == {s \in Sources : b.phase[s] = "candidate"}
        running == {s \in Sources : b.phase[s] \in {"asked", "answered"}}
        starts  == {s \in waiting : \/ b.wanted = 0
                                    \/ b.found + Cardinality(running)
                                         + Cardinality({u \in waiting : s \in Before[u]}) < b.wanted}
        phase   == [s \in Sources |-> IF s \in starts THEN "asked" ELSE b.phase[s]]
    IN  [b EXCEPT !.phase = phase, !.pc = IF running \cup starts = {} THEN "final" ELSE "fan"]

(* run_ranked starts candidates, best rank first, while found + running < wanted. *)
StartMore(b) ==
    LET waiting == {s \in Sources : b.phase[s] = "candidate"}
        running == {s \in Sources : b.phase[s] \in {"asked", "answered"}}
        starts  == {s \in waiting : \/ b.wanted = 0
                                    \/ b.found + Cardinality(running)
                                         + Cardinality(waiting \cap Before[s]) < b.wanted}
        phase   == [s \in Sources |-> IF s \in starts THEN "asked" ELSE b.phase[s]]
    IN  [b EXCEPT !.phase = phase, !.pc = IF running \cup starts = {} THEN "final" ELSE "fan"]

(* The first commit: "running", or "done" at once when no source is left. *)
Announce(j) ==
    /\ job[j].pc = "announce"
    /\ Exists
    /\ LET candidates == In(j, {"candidate"})
           told == [row EXCEPT !.total = Cardinality(Tried) + Cardinality(candidates),
                               !.starred = Cardinality(Starred \cap (Tried \cup candidates))]
       IN  IF candidates = {}
           THEN /\ row' = [told EXCEPT !.status = "done", !.version = job[j].version + 1]
                /\ job' = [job EXCEPT ![j].pc = "close"]
           ELSE /\ row' = [told EXCEPT !.status = "running"]
                /\ job' = [job EXCEPT ![j] = StartMore(@)]
    /\ UNCHANGED <<runs, links, enabled, known, signalVars, req, cleanup, boundVars>>

(* run_script (app/runner.py) ends for s, at the latest by its timeout. *)
Answer(j, s, outcome) ==
    /\ job[j].phase[s] = "asked"
    /\ job' = [job EXCEPT ![j].phase[s] = "answered", ![j].out[s] = outcome]
    /\ UNCHANGED <<rowVars, enabled, known, signalVars, req, cleanup, boundVars>>

(* asyncio.wait returns everything that is done by then. *)
Wake(j) ==
    /\ job[j].pc = "fan"
    /\ In(j, {"batch"}) = {}
    /\ In(j, {"answered"}) # {}
    /\ job' = [job EXCEPT ![j].phase = [s \in Sources |-> IF @[s] = "answered" THEN "batch" ELSE @[s]]]
    /\ UNCHANGED <<rowVars, enabled, known, signalVars, req, cleanup, boundVars>>

(* The next result of the batch: counted now, saved after the await. *)
TakeResult(j, s) ==
    /\ job[j].pc = "fan"
    /\ job[j].phase[s] = "batch"
    /\ LET b == job[j]
       IN  job' = [job EXCEPT ![j] =
               [b EXCEPT !.pc = "save", !.saving = {s}, !.phase[s] = "saving",
                         !.found = IF b.out[s] = "ok" THEN b.found + 1 ELSE b.found,
                         !.anyOk = b.anyOk \/ b.out[s] # "error"]]
    /\ UNCHANGED <<rowVars, enabled, known, signalVars, req, cleanup, boundVars>>

(* on_result commits; when the batch is through, run_ranked goes on up to its next await. *)
SaveResult(j) ==
    /\ job[j].pc = "save"
    /\ Exists
    /\ \E s \in job[j].saving :
        /\ runs' = [runs EXCEPT ![s] = job[j].out[s]]
        /\ links' = IF job[j].out[s] = "ok" THEN links \cup {s} ELSE links \ {s}
        /\ row' = [row EXCEPT !.version = job[j].version + 1]
        /\ LET b == [job[j] EXCEPT !.pc = "fan", !.saving = {}, !.version = @ + 1, !.phase[s] = "saved"]
           IN  job' = [job EXCEPT ![j] = IF \E u \in Sources : b.phase[u] = "batch" THEN b ELSE StartMore(b)]
    /\ Notify
    /\ UNCHANGED <<enabled, known, req, cleanup, boundVars>>

(* The last commit. *)
Finish(j) ==
    /\ job[j].pc = "final"
    /\ Exists
    /\ row' = [row EXCEPT !.status = IF job[j].anyOk THEN "done" ELSE "failed",
                          !.version = job[j].version + 1]
    /\ job' = [job EXCEPT ![j].pc = "close"]
    /\ Notify
    /\ UNCHANGED <<runs, links, enabled, known, req, cleanup, boundVars>>

(* Any commit of _run raises: run_ranked cancels the scripts still running. *)
Crash(j) ==
    /\ job[j].pc \in {"announce", "save", "final"}
    /\ CommitFails
    /\ job' = [job EXCEPT ![j] = [Idle EXCEPT !.pc = "crash"]]
    /\ UNCHANGED <<rowVars, enabled, known, signalVars, req, cleanup, toggles, restarts>>

(* Fault: the crash is only printed. *)
RecordCrash_Printed(j) ==
    /\ job[j].pc = "crash"
    /\ job' = [job EXCEPT ![j].pc = "close"]
    /\ Notify
    /\ UNCHANGED <<rowVars, enabled, known, req, cleanup, boundVars>>

(* The except branch, in a session of its own (read and commit in one step here). *)
RecordCrash(j) ==
    /\ job[j].pc = "crash"
    /\ row' = IF Exists /\ row.status \notin {"done", "failed"}
              THEN [row EXCEPT !.status = "failed", !.version = @ + 1] ELSE row
    /\ job' = [job EXCEPT ![j].pc = "close"]
    /\ Notify
    /\ UNCHANGED <<runs, links, enabled, known, req, cleanup, boundVars>>

RecordCrashFails(j) ==
    /\ job[j].pc = "crash"
    /\ Exists
    /\ CommitFails
    /\ job' = [job EXCEPT ![j].pc = "close"]
    /\ Notify
    /\ UNCHANGED <<rowVars, enabled, known, req, cleanup, toggles, restarts>>

(* The finally branch; the slot is given back. *)
Close(j) ==
    /\ job[j].pc = "close"
    /\ job' = [job EXCEPT ![j].pc = "ended"]
    /\ Unregister
    /\ UNCHANGED <<rowVars, enabled, known, req, cleanup, boundVars>>

(* The done callback takes whatever is registered under the task id out of `running`. *)
DoneCallback(j) ==
    /\ job[j].pc = "ended"
    /\ job' = [job EXCEPT ![j] = Idle]
    /\ known' = NoJob
    /\ UNCHANGED <<rowVars, enabled, signalVars, req, cleanup, boundVars>>

-----------------------------------------------------------------------------
(* The cleanup loop (app/main.py) and what happens around the task *)

(* expires_at passes. *)
TimePasses ==
    /\ Exists
    /\ row.fresh
    /\ row' = [row EXCEPT !.fresh = FALSE]
    /\ UNCHANGED <<runs, links, enabled, job, known, signalVars, req, cleanup, boundVars>>

(* expire_task_results selects the task, whatever it is doing ... *)
ExpireSelect ==
    /\ ~cleanup.on
    /\ Exists
    /\ row.status # "expired"
    /\ ~row.fresh
    /\ cleanup' = [on |-> TRUE, version |-> row.version, seen |-> Tried, stale |-> FALSE]
    /\ UNCHANGED <<rowVars, enabled, job, known, signalVars, req, boundVars>>

(* ... and commits: the links of the runs it saw are gone. *)
ExpireCommit ==
    /\ cleanup.on
    /\ Exists
    /\ row' = [row EXCEPT !.status = "expired", !.version = cleanup.version + 1]
    /\ links' = links \ cleanup.seen
    /\ cleanup' = NoCleanup
    /\ UNCHANGED <<runs, enabled, job, known, signalVars, req, boundVars>>

(* The commit fails: the database, a purged task, or a run it saw was deleted by a refresh.      *)
ExpireFails ==
    /\ cleanup.on
    /\ \/ CommitFails
       \/ cleanup.stale /\ UNCHANGED faults
    /\ cleanup' = NoCleanup
    /\ UNCHANGED <<rowVars, enabled, job, known, signalVars, req, toggles, restarts>>

(* purge_old_tasks: the record is older than task_retention_days, in flight or not. *)
Purge ==
    /\ Exists
    /\ row' = [row EXCEPT !.status = "gone"]
    /\ runs' = [s \in Sources |-> "none"]
    /\ links' = {}
    /\ UNCHANGED <<enabled, job, known, signalVars, req, cleanup, boundVars>>

(* An admin enables or disables a source. *)
Toggle(s) ==
    /\ toggles < MaxToggles
    /\ toggles' = toggles + 1
    /\ enabled' = IF s \in enabled THEN enabled \ {s} ELSE enabled \cup {s}
    /\ UNCHANGED <<rowVars, job, known, signalVars, req, cleanup, faults, restarts>>

(* Fault: tasks that were mid-run are left as they are. *)
Restart_Forgetful ==
    /\ restarts < MaxRestarts
    /\ restarts' = restarts + 1
    /\ job' = [j \in Jobs |-> Idle]
    /\ known' = NoJob
    /\ event' = FALSE /\ armed' = {} /\ fired' = {}
    /\ req' = NoRequest
    /\ cleanup' = NoCleanup
    /\ UNCHANGED <<rowVars, enabled, faults, toggles>>

(* The server dies; on the next start fail_stuck_tasks runs before the first request. *)
Restart ==
    /\ restarts < MaxRestarts
    /\ restarts' = restarts + 1
    /\ row' = IF row.status \in InFlight THEN [row EXCEPT !.status = "failed"] ELSE row
    /\ job' = [j \in Jobs |-> Idle]
    /\ known' = NoJob
    /\ event' = FALSE /\ armed' = {} /\ fired' = {}
    /\ req' = NoRequest
    /\ cleanup' = NoCleanup
    /\ UNCHANGED <<runs, links, enabled, faults, toggles>>

-----------------------------------------------------------------------------
JobStep(j) ==
    \/ QueueRead(j)
    \/ QueueCommit(j)
    \/ QueueFails(j)
    \/ Load(j)
    \/ Announce(j)
    \/ Wake(j)
    \/ \E s \in Sources : TakeResult(j, s)
    \/ SaveResult(j)
    \/ Finish(j)
    \/ Crash(j)
    \/ RecordCrash(j)
    \/ RecordCrashFails(j)
    \/ Close(j)
    \/ DoneCallback(j)

SomeAnswer(j) == \E s \in Sources : \E o \in Outcomes : Answer(j, s, o)

Client ==
    \/ \E w \in Wants : Resolve(w)
    \/ \E count \in 1..Cardinality(Sources) : MoreFetch(count)
    \/ \E chosen \in SUBSET Sources : RefreshFetch(chosen)

Endpoint == RequestCommit \/ RequestFails

CleanupStep == ExpireSelect \/ ExpireCommit \/ ExpireFails

Environment ==
    \/ TimePasses
    \/ Purge
    \/ \E s \in Sources : Toggle(s)
    \/ Restart

Next ==
    \/ Client
    \/ Endpoint
    \/ \E j \in Jobs : JobStep(j) \/ SomeAnswer(j)
    \/ CleanupStep
    \/ Environment

Spec == Init /\ [][Next]_vars

(* The loop runs what is ready, scripts have timeouts, and the cleanup loop comes round again.   *)
FairSpec ==
    /\ Spec
    /\ \A j \in Jobs : WF_vars(JobStep(j))
    /\ \A j \in Jobs, s \in Sources : WF_vars(\E o \in Outcomes : Answer(j, s, o))
    /\ WF_vars(Endpoint)
    /\ WF_vars(CleanupStep)

-----------------------------------------------------------------------------
JobType ==
    [pc : {"idle", "start", "queueing", "queued", "announce", "fan", "save", "final", "crash",
           "close", "ended"},
     refresh : BOOLEAN, only : SUBSET Sources, wanted : Nat, found : Nat, anyOk : BOOLEAN,
     version : Nat,
     phase : [Sources -> {"no", "candidate", "asked", "answered", "batch", "saving", "saved"}],
     out : [Sources -> Outcomes \cup {"none"}],
     saving : SUBSET Sources]

TypeOK ==
    /\ row \in [status : Statuses, version : Nat, wanted : Nat, fresh : BOOLEAN,
            total : Nat, starred : Nat]
    /\ runs \in [Sources -> Outcomes \cup {"none"}]
    /\ links \in SUBSET Sources
    /\ enabled \in SUBSET Sources
    /\ job \in [Jobs -> JobType]
    /\ known \in Jobs \cup {NoJob}
    /\ event \in BOOLEAN
    /\ armed \in SUBSET Waiters
    /\ fired \in SUBSET Waiters
    /\ req \in [op : {"none", "more", "refresh"}, version : Nat, wanted : Nat, chosen : SUBSET Sources]
    /\ cleanup \in [on : BOOLEAN, version : Nat, seen : SUBSET Sources, stale : BOOLEAN]
    /\ {faults, toggles, restarts} \subseteq Nat

(* "Two quick calls must not start two searches": one job at most may still write to the task. *)
SingleFlight == \A i, j \in Flying : i = j

(* While its status says it is in flight somebody is working on the task, and resolve (`dup.id   *)
(* in running`) and the long-pollers (signals.get) can find that job. Only a crash whose record  *)
(* could not be committed either, the second failed commit, leaves the row behind.               *)
InFlightOwned ==
    (row.status \in InFlight /\ faults < 2) => /\ \E j \in Flying : known = j
                                              /\ event

(* A source is asked once: a saved result is replaced only after a refresh deleted it. *)
AskedOnce ==
    [][\A s \in Sources : runs[s] # "none" => runs'[s] \in {runs[s], "none"}]_vars

(* "keep (found + running) <= N": a search never runs a source it cannot need. *)
WithinWanted ==
    \A j \in Jobs :
        (job[j].pc \in {"fan", "save"} /\ job[j].wanted > 0)
            => (\/ job[j].found + Cardinality(In(j, {"asked", "answered"})) <= job[j].wanted
                \/ In(j, {"asked", "answered"}) = {})

(* Nobody is asked while somebody better ranked is passed over. *)
BestRankFirst ==
    \A j \in Jobs : \A s \in In(j, {"candidate"}) :
        {u \in In(j, {"asked", "answered", "batch", "saving", "saved"}) : s \in Before[u]} = {}

(* A search asks in the order of the ranking, and no more than it needs. *)
AsksAsNeeded == WithinWanted /\ BestRankFirst

(* has_more compares the two: the results saved never outnumber the announced total. *)
TotalCoversRuns ==
    (\E j \in Jobs : job[j].pc \in {"fan", "save", "final"}) \/ row.status \in {"done", "failed"}
        => row.total >= Cardinality(Tried)

(* As long as nothing failed the final status tells what happened: "failed" when every source    *)
(* failed, "done" when one answered, if only with nothing.                                       *)
StatusIsHonest ==
    (faults + restarts + toggles = 0 /\ Sources # {}) =>
        /\ row.status = "failed" => Tried # {} /\ \A s \in Tried : runs[s] = "error"
        /\ row.status = "done" => \E s \in Tried : runs[s] # "error"

(* What a task's row tells its clients of the search is what the search did. *)
RowIsHonest == StatusIsHonest /\ TotalCoversRuns

(* A renewed task is not expired: "Its expiry is renewed" (refresh_sources). *)
RenewedNotExpired == row.status = "expired" => ~row.fresh

(* As long as its results are live a task's version never goes back, and it moves whenever a     *)
(* result is saved or taken away: a client that waits for a version after the one it saw misses  *)
(* nothing.                                                                                      *)
VersionGrows ==
    [][(row.fresh /\ row'.fresh /\ row'.status \notin {"gone", "expired"})
         => /\ row'.version >= row.version
            /\ runs' # runs => row'.version > row.version]_vars

(* A search that was accepted comes to an end. *)
Settles == row.status \in InFlight ~> row.status \in {"done", "failed", "expired", "gone"}

=============================================================================
