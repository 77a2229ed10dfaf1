------------------------------ MODULE Subtitles ------------------------------
(***************************************************************************)
(* The subtitle job of one library item: app/subs_job.py and               *)
(* subengine.run_subtitles.  The candidates of a plan are fetched side by  *)
(* side, a few at a time; a converted file is written by a worker thread,  *)
(* which no cancellation stops; after each file the list so far is saved   *)
(* by a database session of its own, so that the saves may commit in any   *)
(* order.  The item's row and its folder are shared with whoever deletes,  *)
(* expires or (Delivery.tla) downloads the item.                           *)
(***************************************************************************)
EXTENDS Integers, FiniteSets

CONSTANTS Cands,        \* the numbers of a plan's candidates
          Lang,         \* [Cands -> language]
          Content,      \* [Cands -> what the file converts to]
          DefaultLang,  \* the language the client wants as default
          Concurrency,  \* settings.subtitle_concurrency
          MaxFaults     \* bound: commits and file writes that fail

ASSUME SubtitlesAssumption ==
    /\ Concurrency \in Nat \ {0}
    /\ MaxFaults \in Nat
    /\ DefaultLang \in {Lang[c] : c \in Cands} \cup {"none"}

VARIABLES row,      \* the library item
          folder,   \* its folder on the disk
          job,      \* the subtitle job's control state
          cand,     \* cand[c]: where the coroutine (or thread) of c is, and the list it is saving
          tracks,   \* run_subtitles' own list
          seen,     \* the <<language, content>> pairs it has claimed
          faults

subVars == <<row, folder, job, cand, tracks, seen, faults>>

Track == [n : Cands, default : BOOLEAN]

Numbers(ts) == {t.n : t \in ts}

NoFolder == [dir |-> FALSE, listed |-> 0, ended |-> FALSE, video |-> "none", vtt |-> {}]

EmptyFolder == [NoFolder EXCEPT !.dir = TRUE]

InThread == {"check", "write"}     \* the two halves of write_atomic

Idle == [pc |-> "none", snap |-> {}]

-----------------------------------------------------------------------------
(* start_subtitles: every candidate of the plan gets a coroutine. *)
Started(plan) == [c \in Cands |-> [Idle EXCEPT !.pc = IF c \in plan THEN "sem" ELSE "none"]]

(* async with sem *)
TakeSlot(c) ==
    /\ job = "running"
    /\ cand[c].pc = "sem"
    /\ Cardinality({d \in Cands : cand[d].pc = "fetch"}) < Concurrency
    /\ cand' = [cand EXCEPT ![c].pc = "fetch"]
    /\ UNCHANGED <<row, folder, job, tracks, seen, faults>>

(* The download and the conversion: the same content under another URL is skipped, new content   *)
(* is claimed and handed to a thread.                                                            *)
Fetched(c) ==
    /\ job = "running"
    /\ cand[c].pc = "fetch"
    /\ \/ /\ cand' = [cand EXCEPT ![c].pc = "failed"]
          /\ UNCHANGED seen
       \/ /\ <<Lang[c], Content[c]>> \in seen
          /\ cand' = [cand EXCEPT ![c].pc = "dupe"]
          /\ UNCHANGED seen
       \/ /\ <<Lang[c], Content[c]>> \notin seen
          /\ cand' = [cand EXCEPT ![c].pc = "check"]
          /\ seen' = seen \cup {<<Lang[c], Content[c]>>}
    /\ UNCHANGED <<row, folder, job, tracks, faults>>

(* write_atomic in the thread: "it never creates the item folder". *)
ThreadLooks(c) ==
    /\ cand[c].pc = "check"
    /\ cand' = [cand EXCEPT ![c].pc = IF folder.dir THEN "write" ELSE "error"]
    /\ UNCHANGED <<row, folder, job, tracks, seen, faults>>

ThreadWrites(c) ==
    /\ cand[c].pc = "write"
    /\ \/ /\ folder.dir
          /\ folder' = [folder EXCEPT !.vtt = @ \cup {c}]
          /\ cand' = [cand EXCEPT ![c].pc = "wrote"]
          /\ UNCHANGED faults
       \/ /\ ~folder.dir
          /\ cand' = [cand EXCEPT ![c].pc = "error"]
          /\ UNCHANGED <<folder, faults>>
       \/ /\ faults < MaxFaults          \* the disk is full: no file under the final name
          /\ faults' = faults + 1
          /\ cand' = [cand EXCEPT ![c].pc = "error"]
          /\ UNCHANGED folder
    /\ UNCHANGED <<row, job, tracks, seen>>

(* Back in the coroutine: the track is listed and emit() takes its snapshot of the list. *)
TrackReady(c) ==
    /\ job = "running"
    /\ cand[c].pc = "wrote"
    /\ LET default == Lang[c] = DefaultLang /\ ~\E t \in tracks : t.default
       IN tracks' = tracks \cup {[n |-> c, default |-> default]}
    /\ cand' = [cand EXCEPT ![c] = [pc |-> "save", snap |-> tracks']]
    /\ UNCHANGED <<row, folder, job, seen, faults>>

TrackFails(c) ==
    /\ job = "running"
    /\ cand[c].pc = "error"
    /\ cand' = [cand EXCEPT ![c].pc = "failed"]
    /\ UNCHANGED <<row, folder, job, tracks, seen, faults>>

Saved(ts, status) == IF row.status = "gone" THEN row ELSE [row EXCEPT !.tracks = ts, !.subs = status]

(* _save(): the snapshot, however old, goes into the row, whatever the row's status is. A failing *)
(* save is swallowed.                                                                            *)
Save(c) ==
    /\ job \in {"running", "cancelling"}
    /\ cand[c].pc = "save"
    /\ cand' = [cand EXCEPT ![c] = [pc |-> "saved", snap |-> {}]]
    /\ \/ row' = Saved(cand[c].snap, "pending") /\ UNCHANGED faults
       \/ faults < MaxFaults /\ faults' = faults + 1 /\ UNCHANGED row
    /\ UNCHANGED <<folder, job, tracks, seen>>

(* asyncio.gather is through. *)
AllThrough == \A c \in Cands : cand[c].pc \in {"none", "saved", "dupe", "failed"}

FinalStatus ==
    IF tracks = {} THEN "none"
    ELSE IF \E c \in Cands : cand[c].pc = "failed" THEN "partial"
    ELSE "done"

(* Fault: the last save takes only what the row lists already. *)
FinalSave_StatusOnly ==
    /\ job = "running" /\ AllThrough
    /\ job' = IF row.mode = "subs" THEN "pack" ELSE "over"
    /\ row' = Saved(row.tracks, FinalStatus)
    /\ UNCHANGED <<folder, cand, tracks, seen, faults>>

(* Fault: nothing to list, nothing to save. *)
FinalSave_TracksOnly ==
    /\ job = "running" /\ AllThrough
    /\ job' = IF row.mode = "subs" THEN "pack" ELSE "over"
    /\ row' = IF tracks = {} THEN row ELSE Saved(tracks, FinalStatus)
    /\ UNCHANGED <<folder, cand, tracks, seen, faults>>

(* ... and the list is saved once more, with the final status. *)
FinalSave ==
    /\ job = "running" /\ AllThrough
    /\ job' = IF row.mode = "subs" THEN "pack" ELSE "over"
    /\ \/ row' = Saved(tracks, FinalStatus) /\ UNCHANGED faults
       \/ faults < MaxFaults /\ faults' = faults + 1 /\ UNCHANGED row
    /\ UNCHANGED <<folder, cand, tracks, seen>>

(* _finish_pack: a pack is ready, and its time begins, when its subtitles are settled. *)
FinishPack ==
    /\ job = "pack"
    /\ job' = "over"
    /\ \/ /\ row' = IF row.status = "downloading" THEN [row EXCEPT !.status = "ready"] ELSE row
          /\ UNCHANGED faults
       \/ faults < MaxFaults /\ faults' = faults + 1 /\ UNCHANGED row
    /\ UNCHANGED <<folder, cand, tracks, seen>>

(* A requested cancellation reaches the job's coroutines; threads run on. *)
JobCancelled ==
    /\ job = "cancelling"
    /\ job' = "over"
    /\ cand' = [c \in Cands |-> IF cand[c].pc \in InThread THEN cand[c] ELSE Idle]
    /\ UNCHANGED <<row, folder, tracks, seen, faults>>

SubtitleStep ==
    \/ \E c \in Cands : \/ TakeSlot(c) \/ Fetched(c) \/ ThreadLooks(c) \/ ThreadWrites(c)
                        \/ TrackReady(c) \/ TrackFails(c) \/ Save(c)
    \/ FinalSave
    \/ FinishPack
    \/ JobCancelled

-----------------------------------------------------------------------------
(* What others do to a job and its files. *)

(* cancel_subtitles *)
CancelledJob == IF job \in {"running", "pack"} THEN "cancelling" ELSE job

(* remove_item_dir, an rmtree that ignores errors: a file that a thread creates in the middle of *)
(* it keeps the folder.                                                                          *)
RemoveDir ==
    \E late \in SUBSET {c \in Cands : cand[c].pc = "write" /\ folder.dir} :
        folder' = IF late = {} THEN NoFolder ELSE [EmptyFolder EXCEPT !.vtt = late]

(* settle_pending and fail_stuck_library: "pending" can never finish after a restart. *)
Settled(r) == IF r.subs # "pending" THEN r
              ELSE [r EXCEPT !.subs = IF r.tracks # {} THEN "partial" ELSE "none"]
=============================================================================
