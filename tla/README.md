# candyresolver: TLA+ models, checks and proofs

candyresolver is one Python process (FastAPI on asyncio), one SQL database and one folder of downloaded videos.
Clients post a title; the server runs the source scripts on it, collects the streams they find, and on request downloads
a stream into its library or relays it live. This directory holds TLA+ models of the parts where several coroutines,
threads and processes work on the same state, TLC runs on small instances, and TLAPS proofs for every instance.

Coroutines are cooperative: one runs alone until an `await`. An action of a model is therefore the code between two
awaits at which something the others can see may change; two awaits with nothing of that kind between them are one step.
Threads (the writes of subtitle files, the disk clean), child processes (ffmpeg, ffprobe, the source scripts) and the
agent on the host take steps of their own.

## 1. Inventory

Sources are under `src/app/`.

| Component | State | Operations | Interacts with | Hard part | Modules |
|---|---|---|---|---|---|
| **Task queue** `scheduler.py` TaskQueue | semaphore, `waiting`, `active`, `_inflight` | `slot`, `full`, `position` | every task runs inside `slot()`; `resolve` asks `full()` | cancellation at each await, semaphore wake-ups, order | `TaskQueue`, `SlotLine` |
| **Task resolution** `resolver.py`, `ranked.py`, `routers/resolve.py`, `taskstate.py` | `tasks` and `source_runs` rows, `running`, `_create_lock` | resolve, more sources, refresh, the job, expiry, purge, restart | queue, runner, signals, cleanup loop | check-then-act across awaits, done callback against commit, the budget of `max_sources`, stale cleanup | `TaskRun` |
| **Waiting** `waiting.py`, `signals.py`, `resolver.peek` | event table, per-request state | `wait_for_task`, `notify`, `unregister` | reads the rows a job writes | lost wake-ups, replaced events | `TaskWait` |
| **Library** `routers/library.py`, `downloader.py`, `library.py`, maintenance of `routers/admin_panel.py` | `library_items` rows, folders, `downloads` | request, download, delete, expire, sweep, forget, clear, cancel, restart | task's streams, subtitles, cleanup loop | row and folder change apart, no locks, stale row copies | `Library`, `Delivery` |
| **Subtitles** `subs_job.py`, `subengine.py`, packs in `routers/library.py` | tracks in the row, `subs/`, `jobs`, `_pack_lock` | start, fetch, write, save, cancel, finish pack | same row and folder as the download | snapshots saved out of order, threads nobody can cancel, saves after a delete | `Subtitles`, `Delivery` |
| **Progressive packaging** `progressive.py`, `hls.py` | ffmpeg, its folder | probe, start, monitor, check completeness | downloader | a process that writes while the row is committed, a video cut short | `Delivery`, `Rules` |
| **Live relay** `liverelay.py`, `routers/live.py` | registry of sessions, link table, `Stream.dead` | start, serve, stop, gc | task's streams | capacity of sessions that come back from idle, a late 403 | `LiveRelay`, `Rules` |
| **Browser slots, script runner** `scheduler.py`, `runner.py`, test runs of `routers/admin.py` | two semaphores, process groups, pipes, sandbox folders | `slot`, `run_script`, cancel | every source run and test | a slot held while waiting for another, children that outlive the script, double cancellation | `Scripts` |
| **Notifier** `notify.py` | queue, sent times, drop note, worker | emit, deliver, retry, stop | emitted from every thread | drop-oldest under `join()`, rate cap, retries | `Notifier` |
| **Alerts** `notify.py` watch_disk, `streaks.py`, `reportjob.py` | dedupe table, flags, streaks, `last_sent` in memory and in a file | rounds, record, report, configure, restart | notifier | hysteresis against dedupe, a write that fails, midnight | `Alerts` |
| **Disk cleaning** `diskjob.py`, `diskclean.py`, `autoclean.py`, `hostclean.py`, `scripts/host_cleanup.sh` | lock, schedule, request and status files | scan, delete, due, ask, agent tick | library folders, host agent | candidates that grow old, a handshake by files | `DiskClean` |
| **Audio** `audio.py`, `get_library_audio` | one semaphore, ffprobe, ffmpeg | extract | library files | one permit, many ways out | `Audio` |
| **Admin of sources** `routers/admin.py`, `sourcexfer.py`, `browserflag.py` | `sources`, `scripts` rows | create, set, delete, upload, activate, import, backfill | resolver reads the active scripts | writes from stale objects, one flag derived from another row | `Sources` |
| **Pure rules** `rangeutil.py`, `hls.py`, `ranking.py`, `subengine.py`, `auth.py`, `taskstate.py`, `testlog.py` | none | | | boundaries, order | `Rules` |
| Serving of files, admin panel, statistics, start-up, text work | | | | little | (section 6) |

What makes the central ones correct:

- queue: the slot limit, no lost slot, first come first served, everybody served;
- resolution: one search per task, each source asked once and the best ranked first, no more runs than can still be wanted,
  an honest final status, an end to every search, renewed tasks not expired;
- waiting: no lost wake-up, an answer to every request;
- library: a ready item has its file, a dead one has none, a deleted one stays deleted, an unfinished one is being
  downloaded, extensions count; what the row offers of subtitles is what the folder holds, and no half video is left;
- services: permits and counters are exact on every way out, what waits is served, what is cleaned is not in use,
  what must be told is told once.

`PROJECT.json` lists every hazard of the code at its line with the properties aimed at it.

## 2. Modules

| Module | Models |
|---|---|
| `TaskQueue` | `TaskQueue.slot` together with the `asyncio.Semaphore` it stands on (Python 3.12's, external) |
| `SlotLine` | what the queue promises: a first-come-first-served line for `Limit` slots; `TaskQueue` implements it |
| `TaskRun` | the whole life of one task: endpoints, jobs, cleanup, purge, restart |
| `TaskWait` | EXTENDS `TaskRun`: the long-polling requests |
| `Library` | several items of one download, and everything that ends them |
| `Subtitles` | the subtitle job of one item |
| `Delivery` | EXTENDS `Subtitles`: the inside of one item's download next to it, deletion, expiry, restart; subtitle packs |
| `LiveRelay` | the relay's registry of sessions and the requests of the players |
| `Notifier` | a message from `emit` to Telegram, and the shutdown |
| `Alerts` | when a message is due: the disk, a failing source, the daily report |
| `DiskClean` | the clean and its schedule next to the library, and the agent on the host |
| `Scripts` | source runs and test runs with their slots and their process groups |
| `Audio` | one permit on every way through the audio endpoint |
| `Sources` | concurrent edits of sources and their script versions |
| `Rules` | functions that only compute, each next to what its answer has to be |
| `TaskQueueProofs`, `TaskRunProofs`, `LibraryProofs`, `DeliveryProofs`, `LiveRelayProofs`, `ScriptsProofs`, `SourcesRulesProofs`, `NotifierProofs` | the theorems |
| `MCTaskRun`, `MCTaskWait`, `MCDelivery` | instances for TLC (symmetry, the rank order, the subtitles of a plan) |
| `MCServices` | `TaskQueue`, `Notifier`, `DiskClean`, `Scripts`, `Audio` in one run |
| `MCSafety` | `LiveRelay`, `Alerts`, `Sources`, `Rules` in one run |

`MCServices` and `MCSafety` put components that share no state into one run: `part` chooses one of them in the initial
state, and the others stand still. Every property is about one component and is checked as if that one ran alone.

Operators whose name ends in `_Something` under a "Fault:" comment are broken variants of the operation after which they
are named. No specification uses them; each marks a bug that the properties would find.

### TaskQueue

`pc[t]` is where task `t` is in `slot()`; `acq[t]` is its `acquire()`, which runs as an asyncio task of its own
("ready": created and not run yet, then queued on a future, granted, returning after cancellation, done). `deque` and
`value` are the semaphore's, `waiting`, `active`, `inflight` are those of `TaskQueue.__init__`. A cancellation can strike
at each await: while the database write of `mark_queued` is under way (`CancelWhileMarking`), while waiting
(`CancelWhileWaiting`), and when the permit has already arrived (`CancelHoldingSlot`).
A new task comes from POST /v1/resolve (`ResolveAdmitted` under `_create_lock` asks `full()`; `ResolveCreates` commits and
starts it), or is started again by the more/refresh endpoints (`RestartFinished`), which do not ask.
`SlotLine` is refined by `ahead[t]` = whose acquire comes before that of the waiting call `t` (open futures in deque order, and behind
them the acquires that have not begun), and `holders` = whose permit is set aside. `Waiting` of `SlotLine` is therefore
wider than `_waiting`, which names the calls that were told to wait; `PositionsInOrder` relates the two.

### TaskRun

`row`, `runs`, `links` are the database; `job[j]` is a coroutine `_scheduled` with the locals of `_run` and
`run_ranked` (`phase[s]` follows source `s` from candidate to saved); `known` is `running[task_id]`; `req` is a
more/refresh request under `_create_lock` between its read and its commit; `cleanup` is `expire_task_results` between its
select and its commit. `fresh` says that `expires_at` is in the future. Two jobs exist because a new one can be started
while the old one's done callback has not run.

Abstractions: times, titles, stream contents and statistics are left out; the answer of a script is "ok" (streams),
"none" or "error". Reading and committing in `RecordCrash` is one step. With `PromptTail` a job that has made its last
commit (a few event-loop turns of clean-up remain) ends before a request that saw this commit commits its own, which
takes more database round trips. The done callback of `start_task` pops whatever is registered under the id; without
that assumption it could remove the entry of a new job.

### TaskWait

`poll[w]` is a call of `wait_for_task`: take the event ("top"), `peek`'s two queries ("row", "counts"), and a sleep of at
most one second or until the event is set. `armed` are the requests that hold the event now in the table, `fired` those
whose event was set. `WakeUp` and `Deadline` are the two timers.

### Library

`row[i]`, `folder[i]` and `dl[i]` are the row, the folder and the coroutine of item `i`. All requests ask for the same
download, the only case in which they meet. `dl[i].pc` names the await it stands at: the semaphore ("wait"), the load of
the row, the commit of "downloading" ("begin"), the transfer ("fetch"), the commit of "ready" ("store"), the commit of
"failed" ("failing"). `dl[i].ttl` is the `ttl_hours` it loaded. A cancelled coroutine (`cancel`) gets its
`CancelledError` in a later step (`Cancelled`); a commit that it was waiting for may have reached the database before.
`left` counts the hours to `delete_at`, and `Tick` lets one pass. `row[i].status` is "none" before the insert and
"forgotten" after the row was deleted.

Abstractions: reading the row and deciding on it is one step; a download does not make its folder while a sweep that
does not know it is in the middle of removing folders (the sweep runs over the folders without an await); a commit on a
row that another job deleted fails, as SQLAlchemy's does. What happens inside the transfer, and the subtitles, are in
`Delivery`.

### Subtitles and Delivery

One item, its row, its folder (`listed` and `ended` of the playlist, `video` of a single file, `vtt` the subtitle files),
and everybody who works on them. `cand[c]` follows one candidate of the plan through `run_subtitles`: the semaphore, the
fetch and conversion, the two halves of `write_atomic` in a worker thread ("check" that the folder is there, "write"),
and `_save` with the snapshot of the list taken by `emit`. A cancellation reaches the coroutines and not the threads. `seen`
is claimed before the write, as in the code.
`dl` is the download coroutine, its attempt and its monitor (`mon`: between two looks, in `on_update`'s commit, in the last
commit), `proc` the ffmpeg process. `TryAgain` is the second attempt of `_fetch_progressive` with other headers, which
begins with the folder that `run_progressive` has cleared. `GiveUp` is the except branch of `_download`.
`del` and `exp` are DELETE and the cleanup between their load and their commit, each with the subtitle list it has loaded.
A pack (`mode` "subs") has a subtitle job and no download; requests for it (`req`) go through `_pack_lock`.

Abstractions: what a file contains is a class of equal conversions; time is `late` (past `delete_at`); the removal of a
folder is one step but for a file that a thread is creating in it; the speed, the progress and the limits of a download
are a `GiveUp` that may come at any look.

### LiveRelay

`sess`, `live` and `byStream` are the `LiveSession` objects, the keys of `registry.sessions` and `registry._by_stream`;
`marked` is the flag `dead` of the streams' rows. `req[r]` is a request at an await: in the start endpoint after the row
was read ("start"), in the proxy during the fetch ("fetch"), in `_mark_dead` ("mark"). Everything between is one step, so
`_gc`, the reuse, the capacity and the eviction of `registry.start` are the four ways `StartLive` can end. A request that
fetches keeps its session object after the registry dropped it, as in Python: `Alive` clears an object when
neither the registry nor a request refers to it, and its id is used again (`Ids` bounds the objects that exist at once,
one more than the registry holds).

Abstractions: time is in minutes, `left` until the session ends, `idle` since it was last used, no further than
`active_window` (which of several sessions idle for longer is the least recently used is left open), `life` until the
source's link ends. `Ttl` is the endpoint's computation with its margin of one minute. The validity of the signed links
and the retries inside one fetch are left out; a refusal by the source may come at any time. The table of numbered links
of a session is `RegisterUrl` in `Rules`.

### Notifier

`posted` are the callbacks of `call_soon_threadsafe`, `queue` and `unfinished` the `asyncio.Queue`, `worker` the coroutine
that takes one message at a time, `sentAt` the list of sent times as ages, `note` is `_dropped_note`, `life` the notifier itself
("flush" is `stop()` in its `join()`). `Enqueue` is `_enqueue` with the message it throws out; `OverCap`, `NoChat` and
`Deliver` are the ways through `_deliver` up to its first await, `TryAgain` and `SendReturns` the loop of `send_text`.
`emitted`, `told` and `unsent` are bookkeeping, there to say where a message went.

### Alerts

`seen` is `emit`'s memory of the two keys that matter, `flagged` the local variable of `watch_disk`, whose rounds are `DiskLow`,
`DiskRecovered`, `DiskBetween` and `DiskQuiet`; `streak` is one source in `StreakTracker`; `report` is the day whose report
`reportjob.loop` is sending, `lastSent` the day it remembers, in memory and in the file. `warned`, `silent`, `alarmed` and
`accepted` are bookkeeping.

### DiskClean

`clean` is the coroutine inside `diskjob._lock`: forgetting finished rows ("tidy"), the query for live items ("look"), the
scan ("select"), the deletions one at a time in their thread ("delete"), while the library of `item` and `dir` goes on. A folder is
"fresh" for one tick (ORPHAN_MIN_AGE_S) after it was written. `Due` is `AutoClean.due`. `hostReq` is the request file,
`agent` the cron job on the host that takes it away and cleans.

Abstractions: of what is cleaned, the library folders (caches, temporary folders and logs have no owner that could still want
them); a scan begins within a tick of the query it rests on (`CleanTick` waits for "select"): no await of more than a
query lies between.

### Scripts

`at[r]` is where a run is: asking TMDB (tests only), in the line of `BrowserSlots`, in the line of its task's semaphore,
starting the process, collecting its output, in the `finally` of `run_script`. `Waypoints` gives the order of the two lines: the
browser slot first, then the turn. `script[r]` is the process and `kids` says that it has living children in its group, which
may hold its pipes after it exited. `sandbox` are the temporary folders.

### Audio

`stage[r]` is where a request is between the permit, ffprobe, ffmpeg, its first bytes, the response, its body and the
background task; `GiveBack` is the closure `release()` with its flag `released`, called by whatever ends the request, more
than once for some.

### Sources

A request is a step that reads the source and computes what its session will write (`Diff`: SQLAlchemy writes the
attributes that changed), and a commit that applies it to whatever the row has become (`Written`), unless a unique
constraint refuses it (`Accepted`). `Import` and `NewScripts` are `sourcexfer`'s, `Detected` is `browserflag`'s.

### Rules

A behaviour is one question to one of eight functions. Three get all they need with it (`AskOnce`): `ParseRange` (byte ranges),
`OrderKey` (which source goes first), `ResultsView` (what is left of a task's results). The others have a loop, and a step gives
them one entry more, `given` being those so far and `made` what the loop's body has made of them: `GiveLine` a line of a growing
playlist (`RewriteLine`, `RewritePlaylist`), `GiveSubtitle` a subtitle a source has (`PickSubtitle`, `PlanSubtitles`), `GiveUrl` an
address of a relayed playlist (`RegisterUrl`), `GiveRequest` a request of a key and the pause before it (`CheckRate`),
`GiveOutput` a piece of a script's output, the end of a line or a look of the panel (`Feed`, `TestLog`). `RulesAgree` says of each
that its answer is the one a definition written from its purpose gives, for the loops after every entry, so that all lists up
to the bound are asked about.

## 3. Runs

Bounds are in the `.cfg` files, every one a named constant. Deadlock is checked where the system must not stop
(`services`: the queue), and not where the bounds on requests, faults or ids let it stop.

| Run | Instance | Shows |
|---|---|---|
| `services`, queue | 3 tasks, 2 of them finished ones that may come back, 1 slot, cap 1, fair | `PermitsConserved`; `ImplementsSlotLine` (first come first served); `Served` |
| `services`, notifier | 5 messages, a queue of 2, 2 messages in 2 ticks, 2 attempts, fair | `Accounted` (join counts exactly, one fate per message, every drop told); `QueueDrains` |
| `services`, clean | 2 items, every 2 ticks, an emergency after 1, 2 requests to the host, 1 failing clean, fair | `CleanSparesLive`; `LeftoversGo`; `HostServes` |
| `services`, scripts | 2 runs of a task, 1 test, 2 of the 3 with a browser, 1 whose script forks; 1 browser, 1 turn, fair | `SlotsExact`; `ScriptsDie`; `RunsEnd` |
| `services`, audio | 3 requests, 2 permits, fair | `AudioPermits`; `PermitComesBack` |
| `safety`, relay | 3 streams, 2 requests, 2 sessions, both may be active, window and ttl 1 and 2 min, 1 failed commit | `RegistryOK` (one session per stream, memory bounded, no link that outlives its source); `DeadIsMarked`; `EvictsIdle` |
| `safety`, alerts | a repeat after 3 rounds, a streak of 2, 2 days, 1 failing write, 1 restart | `NewIncidentWarned`; `OneReportPerDay` |
| `safety`, sources | 1 request at a time, 2 names, 2 texts, 2 versions, 3 files to import | `FlagFollowsScript`; `ScriptKept` |
| `safety`, rules | lists of up to 4 entries (6 for the log, 3 sources or links), numbers up to 4, limits of 1 to 3 | `RulesAgree` |
| `task` | 2 sources, 2 jobs, versions up to 4, 2 failed commits, 1 toggle, 1 restart | `SingleFlight`; `InFlightOwned`; `RowIsHonest` (final status, total); `AskedOnce`; `VersionGrows` |
| `task_live` | fair, 1 job, 1 failed commit, 1 restart | `Settles` |
| `task_refresh` | more and refresh, no faults | `RenewedNotExpired` is violated |
| `wait` | `TaskRun` with one waiting request, fair | `NoLostWakeup`; `Answered` |
| `wait_three` | 3 sources, the second one starred, all or 2 wanted, one waiting request | `AsksAsNeeded` (no source beyond what is wanted, none before a better one); `StarFallback` |
| `library` | 2 items, sweep, history jobs, `cancel_downloads`, one trouble: a failed commit, a crash or a cancellation | `Servable`; `NoFolderLeft`; `ActiveHasDownload`; `DeletedStays` |
| `library_cancel`, `library_ttl` | | `Settles`, `ExtensionKept` are violated |
| `delivery` | plans of up to 2 of 3 subtitles, two of which convert to the same file, 2 fetched at once, 2 segments, 1 fault, 1 restart, 2 requests for a pack, fair | `TracksAreFiles`; `NoHalfVideo`; `OnePack`; `SubtitlesSettle`; `TimeIsUp` |
| `delivery_lost` | the same without faults | `TracksSurviveRetry` is violated |

Why the bounds are enough:

- queue: an arrival next to a granted waiter, next to a cancelled one and next to a full line. With one slot and three tasks, two
  of which can come back past the cap, these meet all at once.
- notifier: five messages fill a queue of two behind one in hand and leave two to throw out; a cap of two is reached with the
  third. Attempts are 2 so that one is the last.
- clean: one item that is cleaned away and one that is requested meanwhile. Three actors ask the host (the panel, a clean, the
  schedule), so two requests suffice for one that meets a pending one and one that meets a busy agent.
- scripts: two runs that want the same turn, one of them holding a browser slot that a test waits for, and a script that leaves a
  child behind.
- audio: two permits with three requests: one is refused, and a permit that is given back twice shows in the sum.
- relay: room for two sessions lets one be evicted while the other is watched, the third stream asks for room, and two requests
  are what it takes for a refusal to arrive while another one is being marked, or after the registry has dropped the session.
- alerts: the window is longer than the shortest incident, so a second incident can begin within it; a write that fails, midnight
  and a restart meet within two days.
- sources: versions that are old, new, the same text twice; two names for an import that creates one and one that updates.
  With two requests at a time the properties of this run do not hold, see below.
- task: a source is better or worse ranked, starred or not, wanted or beyond what is wanted: two sources with `Wants` 0 (all) and 1
  make each of these meet; that the budget counts successes and running scripts together needs a third (two wanted, one found,
  one running, one more waiting), and so does a starred source that failed between two others. Two jobs are the most that
  can exist for one task.
- library: two items are enough for a batch of the cleanup, a slot that is waited for and a request that follows a failed or expired
  item; two hours so that an extension can come when one has passed.
- delivery: two subtitles are enough for saves in the wrong order, the equal two for the claim that is made before the
  write, two segments for a playlist that is playable before it is complete.
- rules: the lengths at which a list is too long, a file is too short or a minute is full are within the bounds.

### What the failing runs show

Each of these runs checks one property that the repository's words promise, and TLC finds a behaviour of the code
against it; `PROJECT.json` quotes the lines.

- `task_refresh`: a refresh between the select and the commit of `expire_task_results` is undone by it.
- `library_cancel`: cancelled items stay "queued" or "downloading".
- `library_ttl`: the download overwrites an extension with the ttl it had loaded.
- `delivery_lost`: when the first attempt to read an HLS source fails, `run_progressive` has removed the item's folder
  (`progressive.py:202`) with the subtitles already in it, and the second attempt (`downloader.py:331`) goes on without
  them. The row lists them for as long as the item is offered.

Properties that the repository's words suggest, stated in the modules and violated there when checked; no run states them,
because the words leave room:

- `TimeoutKillsGroup` (`Scripts`; README.md:384 "process-group kill"): a script that has exited is not killed, so a child of it that kept
  the pipes open until the time limit lives on (`runner.py:249`).
- `OneActive` (`Sources`; models.py:60): an import puts every version with the active text in force, two of them when an upload had
  repeated a text. Nothing that computes with them can tell (the texts are equal), which `FlagFollowsScript` shows.
- `FailingIsTold` (`Alerts`; README.md:124): a streak that begins within the window of the last message about the same source is
  flagged and not told.
- `ReadyIsWhole` (`Delivery`): a single-file download from an HLS source knows the length and does not compare it.

The models show more of this kind: two identical requests for a download at once insert two items, because nothing is held
between the look for an existing item and the insert; sessions that come back from idle, by a reuse or by a played
segment, are not counted against LIVE_MAX_SESSIONS; next to a dead session, which counts as recently used but not as
active, a stream that is watched may be evicted; a commit of `_mark_dead` that fails is not tried again; tasks that the
more and refresh endpoints start again join the line without asking `full()`; links that a search still running past
the expiry saves between the cleanup's select and commit stay in the expired task until the purge; `expire_library` expires an item
that a request has extended since it was selected; `cancel_downloads` during the commit of "ready" can leave a ready row
whose folder is gone. Two activations of different versions at the same moment each switch the other's off as they
loaded it, and can leave both or none in force; a request for a dry run at the host that is pending swallows a
real one (`hostclean.py:57`); an import of two copies that would get the same name fails as a whole (`sourcexfer.py:114-123`).
And outside the models: the look at an X lock and its removal are apart (`diskclean.py:112-121`); `parse_range` is asked about files
that are not empty only; the weekly cron clean of the host holds the agent's lock (`host_cleanup.sh:137-138`), which
`HostServes` does not know of: a minute of the agent that finds it held ends, and the next one serves.

### Conditions inside properties

- `Servable` (a ready item has its file, a playable one is live) is about behaviours without failed commits and crashes where the file is
  concerned: `delete_library_item` and `expire_library` remove the folder before they commit, so a crash in between
  leaves a ready row without a file (the file endpoint answers 410, the next expiry settles it). The same can follow when
  `expire_library`'s commit fails as a whole because one of its rows was deleted by forget or clear, so it speaks of states in which no row
  was forgotten; and of items whose download `cancel_downloads` did not cancel.
- `ActiveHasDownload` is about behaviours without failed commits: the commits of "downloading" and "failed" have no second
  try. `cancel_downloads` breaks it as `library_cancel` shows. That every download ends without it follows: an unfinished item has
  its coroutine, whose steps all come to an end.
- `TracksAreFiles` is about items that stand: ready, in their time, no removal under way, no restart; and whose first attempt did not
  fail (`delivery_lost`). That nothing is lost is about behaviours without faults: a file whose save fails stays unlisted.
- `SubtitlesSettle`: a failing final save leaves "pending" until the next restart, so it is about behaviours without faults. Of
  items that failed or are gone the API tells no subtitles.
- `NoHalfVideo` leaves out a length that nobody compared: see `ReadyIsWhole`.
- `NoLostWakeup` excepts the moment before the search unregisters its event, and for clients that prefer starred sources the time
  between the commit of "running" and the first result; `StarFallback` begins with that result. No event tells of either; the
  one-second cap on a sleep covers them.
- `InFlightOwned` is about behaviours with at most one failed commit: when the record of a crash cannot be committed
  either, the row stays in flight until the next restart.
- `RowIsHonest`: the status is about behaviours without crashes, failed commits and toggled sources (a source that is disabled
  while a search waits can leave it without any run, which ends as "done").
- `DeadIsMarked` is about behaviours without failed commits and sessions in the registry (a restart during `_mark_dead` loses
  the mark with the session), `EvictsIdle` about steps at which no session is dead.
- `VersionGrows` is about a task whose results are fresh and not purged: expiry and purge start the count anew.
- `Accounted` is about a notifier that is up: `stop()` leaves what did not fit into its time.
- `OneReportPerDay` allows one more report per restart: a restart between Telegram's answer and the file loses the mark.
- `ScriptsDie` allows the sandbox of a run that was cancelled twice to stay behind.
- `FlagFollowsScript` and `ScriptKept` are about one request at a time: two sessions that commit what they loaded can break both.

### Fairness

- `TaskQueue`: the event loop runs every ready callback, and a task inside its slot ends (weak fairness per task;
  scripts have timeouts). Nothing is assumed of clients or cancellations.
- `TaskRun`: each job's steps, an answer of every asked source (timeouts), the endpoint under the lock, and the cleanup loop,
  which comes round every five minutes. `MaxFaults` = 1: the second commit in a row is assumed to work, because `_run`
  records a crash once.
- `TaskWait`: the same, plus the request's own steps, the timer of one second among them, and not the deadline.
- `Library`: each item's download and deletion steps, an hour that passes, the cleanup loop. The download semaphore is
  fair (first come first served), hence strong fairness of `TakeSlot`.
- `Delivery`: the steps of the coroutines and threads of the two jobs, ffmpeg (it writes or exits: the monitor's timeout is a `GiveUp`),
  the commits of removals, and the cleanup loop.
- `Notifier`: the loop runs posted callbacks, the worker goes on, a call to Telegram has a timeout; nothing of `emit` or the clock.
- `DiskClean`: a clean gets on, the schedule looks every minute, the agent's cron job runs, and time passes. Time is strongly
  fair: it stands still while a scan is about to begin, which cannot be for ever.
- `Scripts`: the semaphores, the metadata request and the time limit of `run_script`; nothing is assumed of a script. Requests of `TaskRuns`
  and tests come or do not.
- `Audio`: ffprobe has a time limit; ffmpeg is trusted to write or exit and the client to read or to leave.

In `MCServices` the fairness of a part that stands still asks for nothing: its fair actions are disabled in its initial state, but for
the clock and the schedule of the clean, which name their part.

## 4. Proofs

Every theorem holds for every value of the constants that the named assumptions allow, and rests on nothing else, but for
`SomebodyIsAtWork`, which assumes `PromptTail`, and the theorems about `Sources`, which assume `OneRequest`. The assumptions say that the bounds are numbers, that the sets the code counts
(sources, items, runs, streams, requests) are finite, and that `order_rows` sorts (`RankingAssumption` of `TaskRun`: the ranking is a
linear order), and that of the scripts of a file to import one is its active one (`SourcesAssumption`; `parse_import` sees to it). A theorem is about the specification that TLC checks, without its fairness.

| Module | Theorem | Property |
|---|---|---|
| `TaskQueueProofs` | `TypeCorrect`, `CapacityHolds`, `InflightIsExact` | `TypeOK`, `Capacity`, `InflightExact` |
| | `PermitsAreConserved`, `NoPermitStranded` | `PermitsConserved`, `NoStrandedPermit` |
| | `PositionsAreInOrder`, `UnqueuedAlwaysHasRoom` | `PositionsInOrder`, `UnqueuedHasRoom` |
| | `QueueImplementsSlotLine` (refinement of `SlotLine`) | `ImplementsSlotLine` |
| `TaskRunProofs` | `TaskTypeCorrect` | `TypeOK` |
| | `OneSearchAtATime`, `AskedOnceHolds` | `SingleFlight`, `AskedOnce` |
| | `SomebodyIsAtWork`, `VersionsOnlyGrow` | `InFlightOwned`, `VersionGrows` |
| | `NobodyIsAskedInVain`, `RowsAreHonest` | `AsksAsNeeded`, `RowIsHonest` |
| | `NoWakeupIsLost`, `StarredIsNoTrap` (of `TaskWait`) | `NoLostWakeup`, `StarFallback` |
| `LibraryProofs` | `ItemsAreServable`, `FoldersGo` | `Servable`, `NoFolderLeft` |
| | `ActiveIsAttended`, `DeletedIsFinal` | `ActiveHasDownload`, `DeletedStays` |
| | `CleansAreSafe` (of `DiskClean`) | `CleanSparesLive` |
| `DeliveryProofs` | `NoHalfVideoIsLeft`, `PacksTakeTurns`, `TracksAreOnDisk` | `NoHalfVideo`, `OnePack`, `TracksAreFiles` |
| `LiveRelayProofs` | `RelayTypeCorrect` | `TypeOK` |
| | `RegistryHolds`, `RefusalsAreMarked`, `WatchedStay` | `RegistryOK`, `DeadIsMarked`, `EvictsIdle` |
| `ScriptsProofs` | `BrowserSlotsExact`, `ScriptsDieWithTheirRun`, `LightSourcesRun` | `SlotsExact`, `ScriptsDie`, `LightNotBlocked` |
| | `AudioPermitsHold` (of `Audio`) | `AudioPermits` |
| `NotifierProofs` | `BooksAreRight` | `Accounted` |
| | `LowDiskIsTold`, `WarningsRepeat`, `ReportsAreCounted` (of `Alerts`) | `NewIncidentWarned`, `WarningRepeats`, `OneReportPerDay` |
| `SourcesRulesProofs` | `RowsAreTyped`, `FlagsFollow`, `ScriptsAreKept` | `SourcesTypeOK`, `FlagFollowsScript`, `ScriptKept` |
| | `RulesAreRight` (of `Rules`) | `RulesAgree` |

### The queue

`PermitsConserved` is not inductive alone: an acquire that begins must not hold a permit already, and a woken waiter must
come from the deque. The inductive invariant is
`IInv == TypeOK /\ ReadyFresh /\ Shape /\ PermitsConserved /\ InflightExact`, where `Shape` ties each task's place in
`slot()` to the state of its acquire and `ReadyFresh` says that the acquires to be run are new and listed once. `Capacity`
follows by counting: the active tasks hold permits, and the permits held and free add up to `Limit`. The cardinality
steps are lemmas on adding and removing one element.

Two invariants stand on top of it.

- `QInv == IInv /\ LinesExact /\ NoStrandedPermit`: the deque holds each acquire that is queued, granted or on its way out, once, and
  `ready` each that has not begun. From it follow `NoStrandedPermit`, which is inductive only because a granted acquire is still
  in the deque when it is cancelled, and the refinement. For the refinement every step of the queue is one of five for each
  line (`Arrives`, `Quits`, `Begins`, `Serves`, `StandsStill`), and `StepAdvances` maps these to `Arrive`, `GiveUp`, `Serve` or a stutter of
  `SlotLine`. That nobody is passed rests on `FirstQueuedOrder`: the waiter that is woken is the first of the deque whose future is open.
- `LInv` adds what ties `_waiting` to that line: who waits or has a permit is inside `slot()` (`InsideKnown`, `WaitersKnown`), the two
  lists agree on who is first (`SameOrder`), nobody has a permit before those in front of it (`NobodyPassed`), and a call
  that is not listed has fewer than `Limit` calls that can be served before it (`RoomLeft`, for `UnqueuedHasRoom`: the calls with a slot
  alone may grow, but only by those ahead of it).

### One task

A section of lemmas (`QueueReadFacts` to `DoneFacts`) says once, field by field, what each step of a job does; the proofs below cite
them instead of expanding the steps. Each theorem adds one invariant to those before it:

- `SInv == SingleFlight /\ SettledHasNoJob /\ RequestHasNoJob /\ TodoIsNew /\ SavingIsTaken`. One search at a time depends on where
  the status stands when an endpoint looks: a settled status means that no job is in flight, a request between read and commit
  under the lock keeps it that way, and a job has only sources to do that have no saved run.
- `Owner` (for `InFlightOwned`): with `PromptTail` one coroutine exists at a time, it is the registered one and has its event; a new task
  has none; and a crash in progress means that one failed commit is already counted, so that the second one is the last
  the property speaks of.
- `Versions` (for `VersionGrows`): four parties count from copies of the row. A search whose next commit writes a version is not behind
  the row while its results are live; the cleanup's copy is strictly behind a row that was renewed since; a request's copy is the row's
  version, unless the cleanup wrote meanwhile, and never behind the cleanup's. Only together do they say that no commit takes the
  version back.
- `Searches` (for `AsksAsNeeded`): of the locals of each search, where its phases can be at each await, that an answer is known
  from the moment it came, that nobody was started while a better ranked one waits, and the budget: found and open answers do not exceed
  what is wanted unless nothing is open. That `start_more` keeps the last two is `StartMoreAsks`; it needs that a set of candidates has
  a best and a last ranked one (`FirstRanked`, `LastRanked`, by well-founded induction on the number of those before).
- `Totals` and `Honest` (for `RowIsHonest`): what is saved and what the one search has still to save fit in the announced total; and, while
  nothing has failed, `found` and `any_ok` of a search are what its answers and the saved runs say, a search that ends has asked
  somebody, and a refresh or a search for more has somebody left to ask.
- `Wakes` and `StarTotal` (for `NoLostWakeup` and `StarFallback`): `Read` says that a call which has the current event and has read the row
  has read what the row still says, or less; `Slept` that it then sleeps only while there is nothing to wake up for. A step
  of the task either empties `armed` (it sets or replaces the event) or is `Silent`: it changes nothing a call could be waiting
  for, unless the search is about to unregister or has just announced itself. `VersionGrows`' invariant is needed for the one silent
  commit of another party, the cleanup's. `StarTotal` says that `starred_total` is what the running search can still reach.

The proof corrected two properties. TLC's instance has two sources, or no second search, and there the commit of "running" never
matters to anybody. With three sources a refresh of one without a star can lower `starred_total` (`resolver.py:145`) to what is
done already, and no event tells of this commit: a client that prefers starred sources sleeps on until the search's first result,
or the one-second cap. `NoLostWakeup` and `StarFallback` now say so (`Unheard`).

### The library and its deliveries

- `LibraryProofs`: `LInv == TypeOK /\ \A i \in Items : Good(i)`. An item is good when its row and its coroutine are in step (`Phase`), when its
  folder is there for whoever is about to call it ready and gone where a removal is being recorded (`Folder`), and when somebody
  answers for what looks wrong: a missing file of a ready item (`Honest`), an unfinished item without a coroutine (`Attended`).
  `Servable` and `NoFolderLeft` alone are not inductive because row and folder change in different steps, with other
  requests between. Items do not disturb each other but through the sweep, so most lemmas are about one item.
- The clean (`CInv`): what becomes live after the clean has read the live items has a folder younger than the ones it goes for, and what
  it goes for cannot come to life again.
- `DeliveryProofs`: `VInv == Typed /\ Video /\ Turns` for the video and the packs (which coroutine, removal and process can be under way at
  once, and what is on the disk then), and on top of it `IInv == VInv /\ Own /\ RowLists /\ KeptOK` for the subtitles: a content is claimed
  by one candidate, every snapshot and the row's list are parts of the job's list, and of an item that nobody has taken
  anything away from (`Kept`) the files are those listed or about to be.

### The services

- `LiveRelayProofs`: `IInv == TypeOK /\ RegistryOK /\ RequestsOK`. `RequestsOK` says that a request past its first read knows a
  stream or a session of a stream: without it `_mark_dead` could mark anything and `start` could create a session for nothing.
  That the eviction makes room rests on the sets of ids, that a renewed session stays within its source on its being the session of
  that stream. `DeadIsMarked` is inductive beside it, and `EvictsIdle` holds of every step from it.
- `ScriptsProofs`: `ScrInv == ScriptsTypeOK /\ LineOK /\ FiguresOK /\ ProcessOK`. The figures of `BrowserSlots` are counts of places
  (`LineOK` says who stands where, which makes one more and one less count), and `ProcessOK` gives each run's process and
  sandbox at each place.
- `NotifierProofs`: `NInv == Typed /\ Handling /\ Accounted`; `Handling` says that only a message in hand reports drops and that the worker
  is cancelled exactly when the notifier is down, without which a drop could be counted as told twice. For the disk `DInv`: the key of
  a warning is remembered only of an incident that was told, and the silence never runs ahead of its age. For the report `RInv`:
  a report on its way is of a later day than the last one remembered, and a day not yet remembered was taken only as often as
  the process restarted.
- Sources: `SrcInv`. A request under way holds the difference between the source as it is and a source as it will be (`Holds`), and
  writing that difference to the row it was computed from gives exactly the source the request meant (`RoundTrip`). Every handler is
  then about one source only (`Reaches`): it has no two active versions of different text, its flag is the detected one unless set by
  hand, and it has a script in force if the old one had. For an import this rests on `NewScriptsFacts`: with the versions `plan` adds the source
  has every text of the file, which needs that numbering the new ones in order misses none (`Ranks`, by the pigeonhole).
  All three theorems assume `OneRequest` (no two requests overlap), under which the run checks the properties too; without it the
  difference is written to another row than it was computed from, and both properties fail.
- Audio (`AInv`, in `ScriptsProofs`): the sum alone says nothing of which ways out give back: the invariant adds that who is between the permit and the end has
  taken it and not given it back.

- Rules (`RulesInv`): what a loop computes for every list would need an induction over the list. Given one entry at a time the same
  fact is an invariant of steps, and `RulesInv` says for each loop what holds after any number of entries:
  - the playlist (`PlaylistInv`): until a segment is missing, what is out has all the segments of the lines and an end exactly if they have
    one; after that, the segments before the first that is not there;
  - the plan (`PickedInv`): the picked subtitles are those wanted, none twice. That numbers and labels tell them apart is a
    count of the earlier ones of each language (`Counted`);
  - the numbers (`Numbered`): an address has one number, the numbers given lead to the addresses asked for, and a full table means that
    an address was asked for that it does not have;
  - the rate limit (`RateInv`): the deque is the end of the list of accepted requests, those before it are older than a minute, and
    times do not go back; so what `_check_rate` counts is exactly the minute that ends now (`RecentAre`). That every minute that
    ends with an accepted request has no more than the limit is kept because a later request is outside it, or at the same moment;
  - the log (`LogInv`): the lines are the printed ones up to the cap, the panel has them up to its `next`, and what is held
    back are the pieces since the last end of a line.

  The order of sources (`OrderIsRight`) is what `RankingAssumption` asks of `Before` in `TaskRun`.

### Model-checked only

- Liveness (`Served`, `QueueDrains`, `LeftoversGo`, `HostServes`, `RunsEnd`, `PermitComesBack`, `Settles`, `Answered`, `SubtitlesSettle`,
  `TimeIsUp`): out of the proof system's reach.

The modules also state type invariants and some plain properties that no run checks, among them `Capacity`, `InflightExact`,
`LightNotBlocked`, `WarningRepeats`, `NoStrandedPermit`, `PositionsInOrder` and `UnqueuedHasRoom`, which are proved (and hold under the
configurations of their components' runs).

## 5. Plan

Next compositions: `TaskRun` inside `TaskQueue`'s slot, so that a restart, the line and the status of a row meet; several items of
`Delivery` in one `Library`.

## 6. Not modelled

- Text work: playlist rewriting for the relay, subtitle conversion, link expiry, report and message formatting. Its results are inputs.
- Process I/O: command lines of ffmpeg and yt-dlp, progress and speed figures. Where their outcome matters a model chooses among
  the outcomes.
- HTTP to sources, TMDB and the Bot API; signatures and keys: queries, library calls, external services.
- Serving of files: each endpoint checks a signature and a row and streams a file; `parse_range` and the cut of a growing playlist
  are in `Rules`.
- The admin panel's pages, figures and file list with its `files_cleanup`, `sysmon`, logs: display. Its maintenance jobs
  are in `Library`, its clean buttons in `DiskClean`.
- Configuration, database declarations and one-off migrations, deployment, examples, tests. What the start-up does to
  tasks, items and sources is in the restart actions of `TaskRun`, `Library`, `Delivery` and `Sources`.
