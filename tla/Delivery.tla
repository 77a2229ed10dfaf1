------------------------------ MODULE Delivery ------------------------------
(***************************************************************************)
(* One item while it is being delivered: the download of its video, as a   *)
(* growing playlist (downloader._fetch_progressive and run_progressive     *)
(* with the ffmpeg process and its monitor) or as one file (_fetch_direct, *)
(* _fetch_hls), next to its subtitle job (Subtitles.tla), both writing the *)
(* same row and the same folder, which DELETE and the cleanup take away;   *)
(* or a subtitle pack (POST /v1/tasks/{id}/subtitles), which has the       *)
(* subtitle job only.                                                      *)
(***************************************************************************)
EXTENDS Subtitles

CONSTANTS Plans,        \* the sets of candidates a plan may hold
          Clients,      \* concurrent requests for the pack
          Segments,     \* segments of the whole video
          MinSegments,  \* settings.progressive_min_segments
          MaxPacks,     \* bound: packs created
          MaxRestarts   \* bound

ASSUME DeliveryAssumption ==
    /\ Segments \in Nat \ {0} /\ MinSegments \in 1..Segments
    /\ MaxPacks \in Nat /\ MaxRestarts \in Nat

VARIABLES dl,       \* the download coroutine and its source: an HLS one or not, of known length or not
          proc,     \* its ffmpeg process
          del,      \* the DELETE under way and the list it has loaded
          exp,      \* the same of the cleanup
          req, lock, packs,   \* requests for the pack, _pack_lock, packs created
          restarts

dlVars == <<dl, proc>>
removers == <<del, exp>>
packVars == <<req, lock, packs>>
vars == <<subVars, dlVars, removers, packVars, restarts>>

NoRow == [mode |-> "hls", status |-> "gone", playable |-> FALSE, tracks |-> {}, subs |-> "none", late |-> FALSE]

NoDownload == [pc |-> "out", hls |-> FALSE, sized |-> TRUE, attempt |-> 1,
               playable |-> FALSE, mon |-> "sleep", cancel |-> FALSE]

(* The playlist of an HLS source tells its length; a direct download perhaps. *)
Sources == {<<TRUE, TRUE>>, <<FALSE, TRUE>>, <<FALSE, FALSE>>}

Quiet == [pc |-> "idle", tracks |-> {}]

Begun(plan) == IF plan = {} THEN "none" ELSE "pending"

(* A requested item: row and folder are there, and both jobs are started; or no pack yet. *)
Init ==
    /\ \/ \E plan \in Plans, mode \in {"hls", "file"}, source \in Sources :
            /\ row = [NoRow EXCEPT !.mode = mode, !.status = "queued", !.subs = Begun(plan)]
            /\ folder = EmptyFolder
            /\ job = IF plan = {} THEN "over" ELSE "running"
            /\ cand = Started(plan)
            /\ dl = [NoDownload EXCEPT !.pc = "queued", !.hls = source[1], !.sized = source[2]]
       \/ /\ row = [NoRow EXCEPT !.mode = "subs"]
          /\ folder = NoFolder
          /\ job = "over"
          /\ cand = Started({})
          /\ dl = NoDownload
    /\ tracks = {} /\ seen = {} /\ faults = 0
    /\ proc = "none" /\ del = Quiet /\ exp = Quiet
    /\ req = [r \in Clients |-> "idle"] /\ lock = "free" /\ packs = 0
    /\ restarts = 0

-----------------------------------------------------------------------------
(* The download. *)

Begin ==
    /\ dl.pc = "queued" /\ ~dl.cancel
    /\ IF row.status = "queued"
       THEN /\ row' = [row EXCEPT !.status = "downloading"]
            /\ folder' = [folder EXCEPT !.dir = TRUE]
            /\ dl' = [dl EXCEPT !.pc = IF row.mode = "hls" THEN "probe" ELSE "fetch"]
       ELSE dl' = [dl EXCEPT !.pc = "out"] /\ UNCHANGED <<row, folder>>
    /\ UNCHANGED <<job, cand, tracks, seen, faults, proc, removers, packVars, restarts>>

(* The except branch of _download up to its first await. *)
GiveUp ==
    /\ RemoveDir
    /\ job' = CancelledJob
    /\ dl' = [dl EXCEPT !.pc = "failing"]
    /\ proc' = "none"

(* An HLS source is tried without and with the script's headers. *)
Attempts == IF dl.hls THEN 2 ELSE 1

(* run_progressive fails: its folder goes, and a source that could not be read is tried once     *)
(* more with other headers, in a new folder; all that without an await.                          *)
TryAgain ==
    /\ dl.attempt < Attempts
    /\ \E late \in SUBSET {c \in Cands : cand[c].pc = "write"} :
         folder' = [EmptyFolder EXCEPT !.vtt = late]
    /\ dl' = [dl EXCEPT !.pc = "probe", !.attempt = @ + 1]
    /\ proc' = "none"
    /\ UNCHANGED job

Untouched == UNCHANGED <<cand, tracks, seen, removers, packVars, restarts>>

(* ffprobe, and the start of ffmpeg. *)
Probe ==
    /\ dl.pc = "probe" /\ ~dl.cancel
    /\ \/ /\ dl' = [dl EXCEPT !.pc = "run"]
          /\ proc' = "running"
          /\ UNCHANGED <<folder, job>>
       \/ TryAgain                                  \* "could not read the source"
       \/ dl.attempt = Attempts /\ GiveUp           \* ... nor at the last attempt
       \/ dl.attempt < Attempts /\ GiveUp           \* wrong codec, too large, no space
    /\ UNCHANGED <<row, faults>> /\ Untouched

(* ffmpeg adds a finished segment to the playlist, and ends some day. *)
FfmpegWrites ==
    /\ proc = "running" /\ folder.dir
    /\ \/ /\ folder.listed < Segments
          /\ folder' = [folder EXCEPT !.listed = @ + 1]
          /\ UNCHANGED proc
       \/ /\ folder' = [folder EXCEPT !.ended = TRUE]     \* exit code 0, perhaps with less video
          /\ proc' = "exited"
       \/ /\ proc' = "error"
          /\ UNCHANGED folder
    /\ UNCHANGED <<row, job, faults, dl>> /\ Untouched

(* The monitor looks at the folder: enough segments, the process is gone, or a limit is passed. *)
MonitorScans ==
    /\ dl.pc = "run" /\ dl.mon = "sleep" /\ ~dl.cancel
    /\ \/ /\ \/ folder.listed >= MinSegments /\ ~dl.playable
             \/ proc # "running"
          /\ dl' = [dl EXCEPT !.playable = @ \/ folder.listed >= MinSegments,
                              !.mon = IF proc = "running" THEN "commit" ELSE "last"]
          /\ UNCHANGED <<folder, job, proc>>
       \/ GiveUp
    /\ UNCHANGED <<row, faults>> /\ Untouched

(* on_update's commit. *)
MonitorCommits ==
    /\ dl.pc = "run" /\ dl.mon \in {"commit", "last"} /\ ~dl.cancel
    /\ \/ /\ row.status # "gone"
          /\ row' = [row EXCEPT !.playable = @ \/ dl.playable]
          /\ dl' = [dl EXCEPT !.mon = IF @ = "last" THEN "over" ELSE "sleep"]
          /\ UNCHANGED <<folder, job, proc, faults>>
       \/ /\ row.status # "gone" => faults < MaxFaults
          /\ faults' = IF row.status = "gone" THEN faults ELSE faults + 1
          /\ GiveUp
          /\ UNCHANGED row
    /\ Untouched

(* Fault: a clean exit is believed. *)
Complete_ExitCode == proc = "exited"

(* Exit code 0, an ENDLIST, and as much video as expected. *)
Complete == proc = "exited" /\ folder.ended /\ folder.listed = Segments

Check ==
    /\ dl.pc = "run" /\ dl.mon = "over" /\ ~dl.cancel
    /\ IF Complete
       THEN dl' = [dl EXCEPT !.pc = "commit"] /\ UNCHANGED <<folder, job, proc>>
       ELSE GiveUp
    /\ UNCHANGED <<row, faults>> /\ Untouched

Ready ==
    /\ dl.pc = "commit" /\ ~dl.cancel
    /\ \/ /\ row.status # "gone"
          /\ row' = [row EXCEPT !.status = "ready", !.playable = row.mode = "hls"]
          /\ dl' = [dl EXCEPT !.pc = "out"]
          /\ UNCHANGED <<folder, job, proc, faults>>
       \/ /\ row.status # "gone" => faults < MaxFaults
          /\ faults' = IF row.status = "gone" THEN faults ELSE faults + 1
          /\ GiveUp
          /\ UNCHANGED row
    /\ Untouched

FailCommit ==
    /\ dl.pc = "failing" /\ ~dl.cancel
    /\ dl' = [dl EXCEPT !.pc = "out"]
    /\ \/ /\ row' = IF row.status = "gone" THEN row ELSE [row EXCEPT !.status = "failed", !.playable = FALSE]
          /\ UNCHANGED faults
       \/ faults < MaxFaults /\ faults' = faults + 1 /\ UNCHANGED row
    /\ UNCHANGED <<folder, job, proc>> /\ Untouched

(* A download into one file, video.part: its bytes, or ffmpeg's (its refused request is repeated *)
(* with other headers, over the same file). A known length is compared at the end, but not that  *)
(* of an HLS source. What is left is renamed.                                                    *)
FileFetch ==
    /\ dl.pc = "fetch" /\ ~dl.cancel
    /\ \/ /\ folder.video = "none" /\ folder.dir
          /\ folder' = [folder EXCEPT !.video = "part"]
          /\ UNCHANGED <<job, dl, proc>>
       \/ /\ folder.video = "part"
          /\ \E video \in {"whole"} \cup IF dl.sized /\ ~dl.hls THEN {} ELSE {"cut"} :
               folder' = [folder EXCEPT !.video = video]
          /\ dl' = [dl EXCEPT !.pc = "commit"]
          /\ UNCHANGED <<job, proc>>
       \/ /\ dl.hls /\ dl.attempt = 1
          /\ dl' = [dl EXCEPT !.attempt = 2]
          /\ UNCHANGED <<folder, job, proc>>
       \/ GiveUp
    /\ UNCHANGED <<row, faults>> /\ Untouched

(* A cancellation arrives: ffmpeg is killed and the folder removed; in the queue, or while the   *)
(* failure is being recorded, there is nothing to remove.                                        *)
DownloadCancelled ==
    /\ dl.pc # "out" /\ dl.cancel
    /\ dl' = [dl EXCEPT !.pc = "out", !.cancel = FALSE]
    /\ proc' = "none"
    /\ IF dl.pc \in {"queued", "failing"} THEN UNCHANGED <<folder, job>> ELSE RemoveDir /\ job' = CancelledJob
    /\ UNCHANGED <<row, faults>> /\ Untouched

DownloadStep == \/ Begin \/ FileFetch \/ Probe \/ MonitorScans \/ MonitorCommits \/ Check
                \/ Ready \/ FailCommit \/ DownloadCancelled

-----------------------------------------------------------------------------
(* DELETE and the cleanup. *)

Delivered == ~dl.cancel /\ job # "cancelling"   \* cancellations arrive before a commit does

DeleteBegins ==
    /\ del.pc = "idle" /\ row.status \notin {"gone", "deleted"}
    /\ del' = [pc |-> "commit", tracks |-> row.tracks]
    /\ dl' = [dl EXCEPT !.cancel = dl.pc # "out"]
    /\ job' = CancelledJob
    /\ RemoveDir
    /\ UNCHANGED <<row, cand, tracks, seen, faults, proc, exp, packVars, restarts>>

(* The session writes a column only if it differs from what it has loaded. *)
Emptied(loaded) == IF loaded = {} THEN row.tracks ELSE {}

DeleteCommit ==
    /\ del.pc = "commit" /\ Delivered
    /\ del' = Quiet
    /\ row' = [row EXCEPT !.status = "deleted", !.playable = FALSE, !.tracks = Emptied(del.tracks), !.subs = "none"]
    /\ UNCHANGED <<folder, job, cand, tracks, seen, faults, dlVars, exp, packVars, restarts>>

(* delete_at passes. *)
Tick ==
    /\ row.status = "ready" /\ ~row.late
    /\ row' = [row EXCEPT !.late = TRUE]
    /\ UNCHANGED <<folder, job, cand, tracks, seen, faults, dlVars, removers, packVars, restarts>>

ExpireBegins ==
    /\ exp.pc = "idle" /\ row.status = "ready" /\ row.late
    /\ exp' = [pc |-> "commit", tracks |-> row.tracks]
    /\ job' = CancelledJob
    /\ RemoveDir
    /\ UNCHANGED <<row, cand, tracks, seen, faults, dlVars, del, packVars, restarts>>

(* Fault: the files go, the row stays as it is. *)
ExpireCommit_FilesOnly ==
    /\ exp.pc = "commit" /\ Delivered
    /\ exp' = Quiet
    /\ UNCHANGED <<subVars, dlVars, del, packVars, restarts>>

ExpireCommit ==
    /\ exp.pc = "commit" /\ Delivered
    /\ exp' = Quiet
    /\ row' = [row EXCEPT !.status = "expired", !.playable = FALSE, !.tracks = Emptied(exp.tracks), !.subs = "none"]
    /\ UNCHANGED <<folder, job, cand, tracks, seen, faults, dlVars, del, packVars, restarts>>

(* The server stops and starts: fail_stuck_library, then sweep_orphans. *)
Restart ==
    /\ restarts < MaxRestarts
    /\ restarts' = restarts + 1
    /\ row' = Settled(IF row.status \in {"queued", "downloading"}
                      THEN [row EXCEPT !.status = "failed", !.playable = FALSE] ELSE row)
    /\ folder' = IF row'.status = "ready" THEN folder ELSE NoFolder
    /\ job' = "over" /\ cand' = Started({}) /\ tracks' = {} /\ seen' = {}
    /\ dl' = [NoDownload EXCEPT !.hls = dl.hls, !.sized = dl.sized] /\ proc' = "none"
    /\ del' = Quiet /\ exp' = Quiet
    /\ req' = [r \in Clients |-> "idle"] /\ lock' = "free"
    /\ UNCHANGED <<faults, packs>>

-----------------------------------------------------------------------------
(* The pack of a task. *)

(* _live_pack: one whose time is up does not count. *)
LivePack == row.status \in {"downloading", "ready"} /\ ~row.late

(* Fault: without the lock. *)
PackAsk_NoLock(r) ==
    /\ row.mode = "subs" /\ req[r] = "idle"
    /\ req' = [req EXCEPT ![r] = "look"]
    /\ UNCHANGED <<subVars, dlVars, removers, lock, packs, restarts>>

PackAsk(r) ==
    /\ row.mode = "subs" /\ req[r] = "idle" /\ lock = "free"
    /\ lock' = "held"
    /\ req' = [req EXCEPT ![r] = "look"]
    /\ UNCHANGED <<subVars, dlVars, removers, packs, restarts>>

PackLooks(r) ==
    /\ req[r] = "look"
    /\ req' = [req EXCEPT ![r] = IF LivePack THEN "idle" ELSE "create"]
    /\ lock' = IF LivePack THEN "free" ELSE lock
    /\ UNCHANGED <<subVars, dlVars, removers, packs, restarts>>

(* The model follows the newest pack; the job of the one before has ended. *)
PackCreates(r) ==
    /\ req[r] = "create" /\ packs < MaxPacks
    /\ job # "cancelling" /\ del.pc = "idle" /\ exp.pc = "idle"
    /\ \A c \in Cands : cand[c].pc \notin InThread
    /\ req' = [req EXCEPT ![r] = "idle"]
    /\ lock' = "free"
    /\ packs' = packs + 1
    /\ \E plan \in Plans :
         /\ row' = [NoRow EXCEPT !.mode = "subs", !.status = IF plan = {} THEN "ready" ELSE "downloading",
                                 !.subs = Begun(plan)]
         /\ folder' = IF plan = {} THEN NoFolder ELSE EmptyFolder
         /\ job' = IF plan = {} THEN "over" ELSE "running"
         /\ cand' = Started(plan)
    /\ tracks' = {} /\ seen' = {}
    /\ UNCHANGED <<faults, dlVars, removers, restarts>>

-----------------------------------------------------------------------------
SubsStep == SubtitleStep /\ UNCHANGED <<dlVars, removers, packVars, restarts>>

PackStep == \E r \in Clients : PackAsk(r) \/ PackLooks(r) \/ PackCreates(r)

Next ==
    \/ SubsStep
    \/ DownloadStep \/ FfmpegWrites
    \/ DeleteBegins \/ DeleteCommit \/ Tick \/ ExpireBegins \/ ExpireCommit
    \/ PackStep
    \/ Restart

Spec == Init /\ [][Next]_vars

(* Coroutines, threads and ffmpeg go on; the cleanup loop comes round; commits of removals are   *)
(* not abandoned.                                                                                *)
FairSpec ==
    /\ Spec
    /\ WF_vars(SubsStep) /\ WF_vars(DownloadStep) /\ WF_vars(FfmpegWrites)
    /\ WF_vars(DeleteCommit) /\ WF_vars(ExpireBegins) /\ WF_vars(ExpireCommit)

-----------------------------------------------------------------------------
TypeOK ==
    /\ row \in [mode : {"hls", "file", "subs"}, playable : BOOLEAN, tracks : SUBSET Track, late : BOOLEAN,
                status : {"gone", "queued", "downloading", "ready", "failed", "deleted", "expired"},
                subs : {"none", "pending", "partial", "done"}]
    /\ folder \in [dir : BOOLEAN, listed : 0..Segments, ended : BOOLEAN, vtt : SUBSET Cands,
                  video : {"none", "part", "whole", "cut"}]
    /\ job \in {"running", "pack", "cancelling", "over"}
    /\ cand \in [Cands -> [pc : {"none", "sem", "fetch", "check", "write", "wrote", "error", "save",
                                 "saved", "dupe", "failed"}, snap : SUBSET Track]]
    /\ dl \in [pc : {"out", "queued", "probe", "run", "fetch", "commit", "failing"}, hls : BOOLEAN,
               sized : BOOLEAN, attempt : {1, 2},
               playable : BOOLEAN, mon : {"sleep", "commit", "last", "over"}, cancel : BOOLEAN]
    /\ proc \in {"none", "running", "exited", "error"}

Standing == row.status = "ready" /\ ~row.late /\ del.pc = "idle" /\ exp.pc = "idle" /\ restarts = 0

(* A ready item offers no subtitle whose file is missing (subserve.py would answer 404 for it),  *)
(* if the first attempt to read the source did not fail: see TracksSurviveRetry.                 *)
OfferedTracksExist == Standing /\ (dl.attempt = 1 \/ row.mode = "file") => Numbers(row.tracks) \subseteq folder.vtt

(* "In parallel with the video, never after it": what the video's download does to the folder    *)
(* takes no subtitle from an item that becomes ready.                                            *)
TracksSurviveRetry == Standing => Numbers(row.tracks) \subseteq folder.vtt

(* Whatever the order in which the saves are committed, the row of a finished job lists the      *)
(* files that were written, no two of the same language and content, and one default at most;    *)
(* and it says "done" only if nothing is missing.                                                *)
NothingLost ==
    (Standing /\ job = "over" /\ faults = 0 /\ (dl.attempt = 1 \/ row.mode = "file")) =>
        /\ Numbers(row.tracks) = folder.vtt
        /\ \A t, u \in row.tracks : /\ t.default /\ u.default => t = u
                                    /\ Lang[t.n] = Lang[u.n] /\ Content[t.n] = Content[u.n] => t.n = u.n
        /\ \A t \in row.tracks : Lang[t.n] = DefaultLang => \E u \in row.tracks : u.default
        /\ row.subs = "done" => \A c \in Cands : cand[c].pc # "failed"

(* What the row offers of subtitles is what is on the disk. *)
TracksAreFiles == OfferedTracksExist /\ NothingLost

(* "A playlist that never ends is never left behind", nor half a file: once nobody downloads an  *)
(* item, what is on the disk of its video is complete and the item is ready; except that a       *)
(* length nobody compared (see ReadyIsWhole) may be short.                                       *)
NoHalfVideo ==
    dl.pc = "out" =>
        /\ folder.listed > 0 => row.status = "ready" /\ folder.ended /\ folder.listed = Segments
        /\ folder.video # "none" => row.status = "ready" /\ folder.video # "part"
        /\ folder.video = "cut" => dl.hls \/ ~dl.sized

(* "A source cut off early makes ffmpeg exit cleanly with less video than expected: don't call   *)
(* that ready": whatever has a known length is ready only as a whole.                            *)
ReadyIsWhole == row.status = "ready" /\ dl.sized => folder.video # "cut"

(* "Two quick calls must not start two downloads": no pack is created beside a live one. *)
OnePack == [][packs' > packs => ~LivePack]_vars

(* "Pending" comes to an end, if every save succeeds. *)
SubtitlesSettle ==
    row.subs = "pending"
        ~> \/ row.subs # "pending"
           \/ row.status \in {"failed", "deleted", "expired"}     \* of these the API tells no subtitles
           \/ faults > 0

(* What is past its time goes, whatever its download, its subtitle job or a DELETE is doing.     *)
TimeIsUp == (row.status = "ready" /\ row.late) ~> ~(row.status = "ready" /\ row.late)
=============================================================================
