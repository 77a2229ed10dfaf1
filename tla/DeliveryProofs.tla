--------------------------- MODULE DeliveryProofs ---------------------------
(***************************************************************************)
(* The delivery of one item, for any number of candidates, segments,       *)
(* requests for the pack, faults and restarts: no half video is left       *)
(* behind, a ready item offers the subtitles whose files it has, and no    *)
(* pack is made beside a live one.                                         *)
(***************************************************************************)
EXTENDS Delivery, TLAPS

RowType == [mode : {"hls", "file", "subs"}, playable : BOOLEAN, tracks : SUBSET Track, late : BOOLEAN,
            status : {"gone", "queued", "downloading", "ready", "failed", "deleted", "expired"},
            subs : {"none", "pending", "partial", "done"}]

FolderType == [dir : BOOLEAN, listed : 0..Segments, ended : BOOLEAN, vtt : SUBSET Cands,
               video : {"none", "part", "whole", "cut"}]

CandType == [pc : {"none", "sem", "fetch", "check", "write", "wrote", "error", "save",
                   "saved", "dupe", "failed"}, snap : SUBSET Track]

DlType == [pc : {"out", "queued", "probe", "run", "fetch", "commit", "failing"}, hls : BOOLEAN,
           sized : BOOLEAN, attempt : {1, 2},
           playable : BOOLEAN, mon : {"sleep", "commit", "last", "over"}, cancel : BOOLEAN]

RemoverType == [pc : {"idle", "commit"}, tracks : SUBSET Track]

(* TypeOK, and the types of the rest. *)
Typed ==
    /\ TypeOK
    /\ tracks \subseteq Track
    /\ del \in RemoverType /\ exp \in RemoverType
    /\ req \in [Clients -> {"idle", "look", "create"}]
    /\ faults \in Nat /\ restarts \in Nat /\ packs \in Nat

LEMMA Records ==
    ASSUME Typed
    PROVE  row \in RowType /\ folder \in FolderType /\ cand \in [Cands -> CandType] /\ dl \in DlType
    BY DEF Typed, TypeOK, RowType, FolderType, CandType, DlType

LEMMA FromRecords ==
    ASSUME row' \in RowType, folder' \in FolderType, cand' \in [Cands -> CandType], dl' \in DlType,
           job' \in {"running", "pack", "cancelling", "over"},
           proc' \in {"none", "running", "exited", "error"}
    PROVE  TypeOK'
    BY DEF TypeOK, RowType, FolderType, CandType, DlType

LEMMA Folders == NoFolder \in FolderType /\ EmptyFolder \in FolderType
<1>1. 0 \in 0..Segments
    BY DeliveryAssumption
<1>2. NoFolder \in FolderType
    BY <1>1 DEF NoFolder, FolderType
<1> QED
    BY <1>2 DEF EmptyFolder, FolderType

(* Of the video nothing is there. *)
Bare == folder.listed = 0 /\ folder.video = "none"

LEMMA RemoveDirFacts ==
    ASSUME RemoveDir
    PROVE  folder' \in FolderType /\ Bare'
<1>1. PICK late \in SUBSET {c \in Cands : cand[c].pc = "write" /\ folder.dir} :
          folder' = IF late = {} THEN NoFolder ELSE [EmptyFolder EXCEPT !.vtt = late]
    BY DEF RemoveDir
<1>2. CASE folder' = NoFolder
    BY <1>2, Folders DEF Bare, NoFolder
<1>3. CASE folder' = [EmptyFolder EXCEPT !.vtt = late]
    BY <1>3, Folders DEF Bare, NoFolder, EmptyFolder, FolderType
<1> QED
    BY <1>1, <1>2, <1>3

LEMMA CancelledJobFacts ==
    ASSUME job \in {"running", "pack", "cancelling", "over"}
    PROVE  /\ CancelledJob \in {"running", "pack", "cancelling", "over"}
           /\ CancelledJob # "over" => CancelledJob = "cancelling"
           /\ CancelledJob = "over" => job = "over"
    BY DEF CancelledJob

(* The except branch of _download: what it leaves. *)
LEMMA GiveUpFacts ==
    ASSUME Typed, GiveUp
    PROVE  /\ folder' \in FolderType /\ Bare'
           /\ job' \in {"running", "pack", "cancelling", "over"}
           /\ dl' \in DlType /\ dl'.pc = "failing" /\ dl'.cancel = dl.cancel
           /\ dl'.hls = dl.hls /\ dl'.sized = dl.sized /\ dl'.attempt = dl.attempt
           /\ proc' = "none"
<1>1. dl \in DlType /\ job \in {"running", "pack", "cancelling", "over"}
    BY Records DEF Typed, TypeOK
<1>2. folder' \in FolderType /\ Bare'
    BY RemoveDirFacts DEF GiveUp
<1>3. job' \in {"running", "pack", "cancelling", "over"}
    BY <1>1, CancelledJobFacts DEF GiveUp
<1>4. dl' = [dl EXCEPT !.pc = "failing"] /\ proc' = "none"
    BY DEF GiveUp
<1> QED
    BY <1>1, <1>2, <1>3, <1>4 DEF DlType

(* A second attempt starts in a new folder. *)
LEMMA TryAgainFacts ==
    ASSUME Typed, TryAgain
    PROVE  /\ folder' \in FolderType /\ Bare'
           /\ dl' \in DlType /\ dl'.pc = "probe" /\ dl'.cancel = dl.cancel
           /\ dl'.hls = dl.hls /\ dl'.sized = dl.sized /\ dl'.attempt = 2
           /\ proc' = "none" /\ job' = job
<1>1. dl \in DlType /\ dl.attempt = 1
    BY Records DEF TryAgain, Attempts, DlType
<1>2. PICK late \in SUBSET {c \in Cands : cand[c].pc = "write"} : folder' = [EmptyFolder EXCEPT !.vtt = late]
    BY DEF TryAgain
<1>3. folder' \in FolderType /\ Bare'
    BY <1>2, Folders DEF Bare, NoFolder, EmptyFolder, FolderType
<1>4. dl' = [dl EXCEPT !.pc = "probe", !.attempt = 2] /\ proc' = "none" /\ job' = job
    BY <1>1 DEF TryAgain
<1> QED
    BY <1>1, <1>3, <1>4 DEF DlType

-----------------------------------------------------------------------------
(* The types: the subtitle job ... *)
LEMMA SavedFacts ==
    ASSUME Typed, NEW ts \in SUBSET Track, NEW status \in {"none", "pending", "partial", "done"}
    PROVE  /\ Saved(ts, status) \in RowType
           /\ Saved(ts, status).mode = row.mode /\ Saved(ts, status).status = row.status
           /\ Saved(ts, status).late = row.late
           /\ Saved(ts, status).tracks \in {row.tracks, ts}
           /\ row.status # "gone" => Saved(ts, status).tracks = ts /\ Saved(ts, status).subs = status
<1>1. row \in RowType
    BY Records
<1>2. CASE row.status = "gone"
    BY <1>1, <1>2 DEF Saved
<1>3. CASE row.status # "gone"
  <2>1. Saved(ts, status) = [row EXCEPT !.tracks = ts, !.subs = status]
      BY <1>3 DEF Saved
  <2> QED
      BY <1>1, <1>3, <2>1 DEF RowType
<1> QED
    BY <1>2, <1>3

(* What a step of the subtitle job does to the row: never more than its list, or that the pack is ready. *)
LEMMA SubtitleRow ==
    ASSUME Typed, SubtitleStep
    PROVE  /\ row' \in RowType
           /\ row'.mode = row.mode /\ row'.late = row.late
           /\ row'.status = row.status \/ (job = "pack" /\ row.status = "downloading" /\ row'.status = "ready")
<1>1. row \in RowType /\ cand \in [Cands -> CandType] /\ tracks \subseteq Track
    BY Records DEF Typed
<1>2. CASE row' = row
    BY <1>1, <1>2
<1>3. ASSUME NEW c \in Cands, Save(c) PROVE row' = row \/ row' = Saved(cand[c].snap, "pending")
    BY <1>3 DEF Save
<1>4. CASE FinalSave
  <2>1. FinalStatus \in {"none", "pending", "partial", "done"}
      BY DEF FinalStatus
  <2> QED
      BY <1>1, <1>2, <1>4, <2>1, SavedFacts DEF FinalSave
<1>5. CASE FinishPack
  <2>1. CASE row' = [row EXCEPT !.status = "ready"] /\ row.status = "downloading"
      BY <1>1, <1>5, <2>1 DEF FinishPack, RowType
  <2> QED
      BY <1>2, <1>5, <2>1 DEF FinishPack
<1>6. ASSUME NEW c \in Cands, cand[c].snap \in SUBSET Track, row' = Saved(cand[c].snap, "pending")
      PROVE  /\ row' \in RowType /\ row'.mode = row.mode /\ row'.late = row.late
             /\ row'.status = row.status
    BY <1>6, SavedFacts
<1>7. ASSUME NEW c \in Cands PROVE cand[c].snap \in SUBSET Track
    BY <1>1 DEF CandType
<1>8. row' = row \/ (\E c \in Cands : Save(c)) \/ FinalSave \/ FinishPack
    BY DEF SubtitleStep, TakeSlot, Fetched, ThreadLooks, ThreadWrites, TrackReady, TrackFails, JobCancelled
<1> QED
    BY <1>2, <1>3, <1>4, <1>5, <1>6, <1>7, <1>8

LEMMA SubtitleFolder ==
    ASSUME Typed, SubtitleStep
    PROVE  /\ folder' \in FolderType
           /\ folder'.listed = folder.listed /\ folder'.ended = folder.ended /\ folder'.video = folder.video
<1>1. folder \in FolderType
    BY Records
<1>2. CASE folder' = folder
    BY <1>1, <1>2
<1>3. ASSUME NEW c \in Cands, ThreadWrites(c), folder' # folder
      PROVE  folder' = [folder EXCEPT !.vtt = folder.vtt \cup {c}]
    BY <1>1, <1>3 DEF ThreadWrites, FolderType
<1>4. ASSUME NEW c \in Cands, folder' = [folder EXCEPT !.vtt = folder.vtt \cup {c}]
      PROVE  /\ folder' \in FolderType
             /\ folder'.listed = folder.listed /\ folder'.ended = folder.ended /\ folder'.video = folder.video
    BY <1>1, <1>4 DEF FolderType
<1>5. folder' = folder \/ \E c \in Cands : ThreadWrites(c)
    BY DEF SubtitleStep, TakeSlot, Fetched, ThreadLooks, TrackReady, TrackFails, Save, FinalSave, FinishPack,
           JobCancelled
<1> QED
    BY <1>2, <1>3, <1>4, <1>5

LEMMA SubtitleTypes ==
    ASSUME Typed, SubtitleStep
    PROVE  /\ cand' \in [Cands -> CandType] /\ tracks' \subseteq Track /\ faults' \in Nat
           /\ job' \in {"running", "pack", "cancelling", "over"}
<1>1. cand \in [Cands -> CandType] /\ tracks \subseteq Track /\ faults \in Nat
      /\ job \in {"running", "pack", "cancelling", "over"}
    BY Records DEF Typed, TypeOK
<1>2. faults' \in Nat
  <2>1. faults' = faults \/ faults' = faults + 1
      BY DEF SubtitleStep, TakeSlot, Fetched, ThreadLooks, ThreadWrites, TrackReady, TrackFails, Save, FinalSave,
             FinishPack, JobCancelled
  <2> QED
      BY <1>1, <2>1
<1>3. job' \in {"running", "pack", "cancelling", "over"}
    BY <1>1 DEF SubtitleStep, TakeSlot, Fetched, ThreadLooks, ThreadWrites, TrackReady, TrackFails, Save, FinalSave,
                FinishPack, JobCancelled
<1>4. ASSUME NEW c \in Cands,
             TakeSlot(c) \/ Fetched(c) \/ ThreadLooks(c) \/ ThreadWrites(c) \/ TrackFails(c)
      PROVE  cand' \in [Cands -> CandType] /\ tracks' = tracks
    BY <1>1, <1>4 DEF CandType, TakeSlot, Fetched, ThreadLooks, ThreadWrites, TrackFails
<1>5. ASSUME NEW c \in Cands, TrackReady(c)
      PROVE  cand' \in [Cands -> CandType] /\ tracks' \subseteq Track
  <2> DEFINE default == Lang[c] = DefaultLang /\ ~\E t \in tracks : t.default
             new == [n |-> c, default |-> default]
  <2>1. default \in BOOLEAN
      OBVIOUS
  <2>2. tracks' = tracks \cup {new} /\ cand' = [cand EXCEPT ![c] = [pc |-> "save", snap |-> tracks']]
      BY <1>5 DEF TrackReady
  <2> HIDE DEF default
  <2>3. new \in Track
      BY <2>1 DEF Track
  <2> HIDE DEF new
  <2>4. tracks' \subseteq Track
      BY <1>1, <2>2, <2>3
  <2> QED
      BY <1>1, <2>2, <2>4 DEF CandType
<1>6. ASSUME NEW c \in Cands, Save(c) PROVE cand' \in [Cands -> CandType] /\ tracks' = tracks
    BY <1>1, <1>6 DEF CandType, Save
<1>7. CASE FinalSave \/ FinishPack
    BY <1>1, <1>2, <1>3, <1>7 DEF FinalSave, FinishPack
<1>8. CASE JobCancelled
    BY <1>1, <1>2, <1>3, <1>8 DEF JobCancelled, Idle, CandType
<1> QED
    BY <1>1, <1>2, <1>3, <1>4, <1>5, <1>6, <1>7, <1>8 DEF SubtitleStep

LEMMA SubsTyped == ASSUME Typed, SubsStep PROVE Typed'
<1>1. UNCHANGED <<dl, proc, del, exp, req, packs, restarts>>
    BY DEF SubsStep, dlVars, removers, packVars
<1>2. TypeOK'
    BY <1>1, SubtitleRow, SubtitleFolder, SubtitleTypes, FromRecords, Records DEF SubsStep, Typed, TypeOK
<1> QED
    BY <1>1, <1>2, SubtitleTypes DEF SubsStep, Typed

(* ... the download.  Its steps, with what they do to the fields the invariants speak of. *)
LEMMA BeginFacts ==
    ASSUME Typed, Begin
    PROVE  /\ row' \in RowType /\ folder' \in FolderType /\ dl' \in DlType
           /\ row'.mode = row.mode /\ row'.tracks = row.tracks /\ row'.subs = row.subs /\ row'.late = row.late
           /\ folder'.listed = folder.listed /\ folder'.video = folder.video /\ folder'.vtt = folder.vtt
           /\ dl'.cancel = dl.cancel /\ dl'.attempt = dl.attempt /\ dl'.hls = dl.hls /\ dl'.sized = dl.sized
           /\ row.status = "queued" => /\ row'.status = "downloading"
                                       /\ dl'.pc = IF row.mode = "hls" THEN "probe" ELSE "fetch"
           /\ row.status # "queued" => row' = row /\ dl'.pc = "out"
<1>1. row \in RowType /\ folder \in FolderType /\ dl \in DlType
    BY Records
<1>2. CASE row.status = "queued"
  <2>1. row' = [row EXCEPT !.status = "downloading"]
      BY <1>2 DEF Begin
  <2>2. folder' = [folder EXCEPT !.dir = TRUE]
      BY <1>2 DEF Begin
  <2>3. dl' = [dl EXCEPT !.pc = IF row.mode = "hls" THEN "probe" ELSE "fetch"]
      BY <1>2 DEF Begin
  <2>4. row' \in RowType /\ row'.status = "downloading" /\ row'.mode = row.mode /\ row'.tracks = row.tracks
        /\ row'.subs = row.subs /\ row'.late = row.late
      BY <1>1, <2>1 DEF RowType
  <2>5. folder' \in FolderType /\ folder'.listed = folder.listed /\ folder'.video = folder.video
        /\ folder'.vtt = folder.vtt
      BY <1>1, <2>2 DEF FolderType
  <2>6. /\ dl' \in DlType /\ dl'.pc = IF row.mode = "hls" THEN "probe" ELSE "fetch"
        /\ dl'.cancel = dl.cancel /\ dl'.attempt = dl.attempt /\ dl'.hls = dl.hls /\ dl'.sized = dl.sized
      BY <1>1, <2>3 DEF DlType
  <2> QED
      BY <1>2, <2>4, <2>5, <2>6
<1>3. CASE row.status # "queued"
  <2>1. dl' = [dl EXCEPT !.pc = "out"] /\ row' = row /\ folder' = folder
      BY <1>3 DEF Begin
  <2>2. /\ dl' \in DlType /\ dl'.pc = "out"
        /\ dl'.cancel = dl.cancel /\ dl'.attempt = dl.attempt /\ dl'.hls = dl.hls /\ dl'.sized = dl.sized
      BY <1>1, <2>1 DEF DlType
  <2> QED
      BY <1>1, <1>3, <2>1, <2>2
<1> QED
    BY <1>2, <1>3

SameSource == dl'.cancel = dl.cancel /\ dl'.hls = dl.hls /\ dl'.sized = dl.sized

(* A step of the download that leaves its state, or the part of it that counts, alone. *)
DlMoves(pc) == dl' \in DlType /\ dl'.pc = pc /\ SameSource /\ dl'.attempt = dl.attempt

LEMMA ProbeFacts ==
    ASSUME Typed, Probe
    PROVE  \/ DlMoves("run") /\ proc' = "running" /\ UNCHANGED <<folder, job>>
           \/ TryAgain
           \/ GiveUp
<1>1. dl \in DlType
    BY Records
<1>2. CASE dl' = [dl EXCEPT !.pc = "run"] /\ proc' = "running" /\ UNCHANGED <<folder, job>>
    BY <1>1, <1>2 DEF DlMoves, SameSource, DlType
<1> QED
    BY <1>2 DEF Probe

LEMMA ScanFacts ==
    ASSUME Typed, MonitorScans
    PROVE  \/ DlMoves("run") /\ UNCHANGED <<folder, job, proc>>
           \/ GiveUp
<1>1. dl \in DlType /\ dl.pc = "run"
    BY Records DEF MonitorScans
<1>2. ASSUME dl' = [dl EXCEPT !.playable = @ \/ folder.listed >= MinSegments,
                              !.mon = IF proc = "running" THEN "commit" ELSE "last"]
      PROVE  DlMoves("run")
  <2> DEFINE plays == dl.playable \/ folder.listed >= MinSegments
             mon == IF proc = "running" THEN "commit" ELSE "last"
  <2>1. dl' = [dl EXCEPT !.playable = plays, !.mon = mon]
      BY <1>2
  <2>2. plays \in BOOLEAN /\ mon \in {"commit", "last"}
      OBVIOUS
  <2> HIDE DEF plays, mon
  <2> QED
      BY <1>1, <2>1, <2>2 DEF DlMoves, SameSource, DlType
<1> QED
    BY <1>2 DEF MonitorScans

LEMMA MonitorFacts ==
    ASSUME Typed, MonitorCommits
    PROVE  /\ faults' \in Nat /\ (faults' = 0 => faults = 0)
           /\ row' \in RowType /\ row'.mode = row.mode /\ row'.status = row.status /\ row'.tracks = row.tracks
           /\ row'.subs = row.subs /\ row'.late = row.late
           /\ \/ DlMoves("run") /\ UNCHANGED <<folder, job, proc, faults>>
              \/ GiveUp
<1>1. dl \in DlType /\ row \in RowType /\ dl.pc = "run" /\ faults \in Nat
    BY Records DEF MonitorCommits, Typed
<1>2. faults' \in Nat /\ (faults' = 0 => faults = 0)
  <2>1. faults' = faults \/ faults' = faults + 1
      BY DEF MonitorCommits
  <2> QED
      BY <1>1, <2>1
<1>3. ASSUME row' = [row EXCEPT !.playable = @ \/ dl.playable]
      PROVE  /\ row' \in RowType /\ row'.mode = row.mode /\ row'.status = row.status /\ row'.tracks = row.tracks
             /\ row'.subs = row.subs /\ row'.late = row.late
  <2> DEFINE plays == row.playable \/ dl.playable
  <2>1. row' = [row EXCEPT !.playable = plays] /\ plays \in BOOLEAN
      BY <1>3
  <2> HIDE DEF plays
  <2> QED
      BY <1>1, <2>1 DEF RowType
<1>4. ASSUME dl' = [dl EXCEPT !.mon = IF @ = "last" THEN "over" ELSE "sleep"]
      PROVE  DlMoves("run")
    BY <1>1, <1>4 DEF DlMoves, SameSource, DlType
<1> QED
    BY <1>1, <1>2, <1>3, <1>4 DEF MonitorCommits

LEMMA CheckFacts ==
    ASSUME Typed, Check
    PROVE  \/ Complete /\ DlMoves("commit") /\ UNCHANGED <<folder, job, proc>>
           \/ GiveUp
<1>1. dl \in DlType
    BY Records
<1>2. ASSUME dl' = [dl EXCEPT !.pc = "commit"] PROVE DlMoves("commit")
    BY <1>1, <1>2 DEF DlMoves, SameSource, DlType
<1> QED
    BY <1>2 DEF Check

LEMMA ReadyFacts ==
    ASSUME Typed, Ready
    PROVE  /\ faults' \in Nat /\ (faults' = 0 => faults = 0)
           /\ row' \in RowType /\ row'.mode = row.mode /\ row'.tracks = row.tracks
           /\ row'.subs = row.subs /\ row'.late = row.late
           /\ \/ row'.status = "ready" /\ DlMoves("out") /\ UNCHANGED <<folder, job, proc, faults>>
              \/ row' = row /\ GiveUp
<1>1. dl \in DlType /\ row \in RowType /\ faults \in Nat
    BY Records DEF Typed
<1>2. faults' \in Nat /\ (faults' = 0 => faults = 0)
  <2>1. faults' = faults \/ faults' = faults + 1
      BY DEF Ready
  <2> QED
      BY <1>1, <2>1
<1>3. ASSUME row' = [row EXCEPT !.status = "ready", !.playable = row.mode = "hls"]
      PROVE  /\ row' \in RowType /\ row'.mode = row.mode /\ row'.status = "ready" /\ row'.tracks = row.tracks
             /\ row'.subs = row.subs /\ row'.late = row.late
  <2> DEFINE plays == row.mode = "hls"
  <2>1. row' = [row EXCEPT !.status = "ready", !.playable = plays] /\ plays \in BOOLEAN
      BY <1>3
  <2> HIDE DEF plays
  <2> QED
      BY <1>1, <2>1 DEF RowType
<1>4. ASSUME dl' = [dl EXCEPT !.pc = "out"] PROVE DlMoves("out")
    BY <1>1, <1>4 DEF DlMoves, SameSource, DlType
<1> QED
    BY <1>1, <1>2, <1>3, <1>4 DEF Ready

LEMMA FailCommitFacts ==
    ASSUME Typed, FailCommit
    PROVE  /\ faults' \in Nat /\ (faults' = 0 => faults = 0)
           /\ row' \in RowType /\ row'.mode = row.mode /\ row'.tracks = row.tracks
           /\ row'.subs = row.subs /\ row'.late = row.late
           /\ row'.status = "failed" \/ row' = row
           /\ DlMoves("out")
<1>1. dl \in DlType /\ row \in RowType /\ faults \in Nat
    BY Records DEF Typed
<1>2. faults' \in Nat /\ (faults' = 0 => faults = 0)
  <2>1. faults' = faults \/ faults' = faults + 1
      BY DEF FailCommit
  <2> QED
      BY <1>1, <2>1
<1>3. ASSUME row' = [row EXCEPT !.status = "failed", !.playable = FALSE]
      PROVE  /\ row' \in RowType /\ row'.mode = row.mode /\ row'.status = "failed" /\ row'.tracks = row.tracks
             /\ row'.subs = row.subs /\ row'.late = row.late
    BY <1>1, <1>3 DEF RowType
<1>4. DlMoves("out")
  <2>1. dl' = [dl EXCEPT !.pc = "out"]
      BY DEF FailCommit
  <2> QED
      BY <1>1, <2>1 DEF DlMoves, SameSource, DlType
<1> QED
    BY <1>1, <1>2, <1>3, <1>4 DEF FailCommit

LEMMA FetchFacts ==
    ASSUME Typed, FileFetch
    PROVE  \/ /\ folder' \in FolderType /\ folder'.listed = folder.listed /\ folder'.vtt = folder.vtt
              /\ folder'.video = "part" /\ dl' = dl /\ UNCHANGED <<job, proc>>
           \/ /\ folder' \in FolderType /\ folder'.listed = folder.listed /\ folder'.vtt = folder.vtt
              /\ folder'.video \in {"whole", "cut"} /\ (folder'.video = "cut" => dl.hls \/ ~dl.sized)
              /\ DlMoves("commit") /\ UNCHANGED <<job, proc>>
           \/ /\ dl' \in DlType /\ dl'.pc = "fetch" /\ SameSource /\ UNCHANGED <<folder, job, proc>>
           \/ GiveUp
<1>1. dl \in DlType /\ folder \in FolderType /\ dl.pc = "fetch"
    BY Records DEF FileFetch
<1>2. ASSUME folder' = [folder EXCEPT !.video = "part"]
      PROVE  /\ folder' \in FolderType /\ folder'.listed = folder.listed /\ folder'.vtt = folder.vtt
             /\ folder'.video = "part"
    BY <1>1, <1>2 DEF FolderType
<1>3. ASSUME NEW video \in {"whole"} \cup IF dl.sized /\ ~dl.hls THEN {} ELSE {"cut"},
             folder' = [folder EXCEPT !.video = video]
      PROVE  /\ folder' \in FolderType /\ folder'.listed = folder.listed /\ folder'.vtt = folder.vtt
             /\ folder'.video \in {"whole", "cut"} /\ (folder'.video = "cut" => dl.hls \/ ~dl.sized)
  <2>1. video \in {"whole", "cut"} /\ (video = "cut" => dl.hls \/ ~dl.sized)
      BY <1>3
  <2>2. folder' \in FolderType /\ folder'.listed = folder.listed /\ folder'.vtt = folder.vtt
        /\ folder'.video = video
      BY <1>1, <1>3, <2>1 DEF FolderType
  <2> QED
      BY <2>1, <2>2
<1>4. ASSUME dl' = [dl EXCEPT !.pc = "commit"] PROVE DlMoves("commit")
    BY <1>1, <1>4 DEF DlMoves, SameSource, DlType
<1>5. ASSUME dl' = [dl EXCEPT !.attempt = 2] PROVE dl' \in DlType /\ dl'.pc = "fetch" /\ SameSource
    BY <1>1, <1>5 DEF SameSource, DlType
<1> QED
    BY <1>2, <1>3, <1>4, <1>5 DEF FileFetch

LEMMA CancelledFacts ==
    ASSUME Typed, DownloadCancelled
    PROVE  /\ dl' \in DlType /\ dl'.pc = "out" /\ dl'.cancel = FALSE /\ dl'.attempt = dl.attempt
           /\ dl'.hls = dl.hls /\ dl'.sized = dl.sized
           /\ proc' = "none" /\ folder' \in FolderType
           /\ job' \in {"running", "pack", "cancelling", "over"}
           /\ IF dl.pc \in {"queued", "failing"} THEN folder' = folder ELSE Bare'
<1>1. dl \in DlType /\ folder \in FolderType /\ job \in {"running", "pack", "cancelling", "over"}
    BY Records DEF Typed, TypeOK
<1>2. dl' = [dl EXCEPT !.pc = "out", !.cancel = FALSE] /\ proc' = "none"
    BY DEF DownloadCancelled
<1>3. dl' \in DlType /\ dl'.pc = "out" /\ dl'.cancel = FALSE /\ dl'.attempt = dl.attempt
      /\ dl'.hls = dl.hls /\ dl'.sized = dl.sized
    BY <1>1, <1>2 DEF DlType
<1>4. CASE dl.pc \in {"queued", "failing"}
    BY <1>1, <1>2, <1>3, <1>4 DEF DownloadCancelled
<1>5. CASE dl.pc \notin {"queued", "failing"}
  <2>1. RemoveDir /\ job' = CancelledJob
      BY <1>5 DEF DownloadCancelled
  <2> QED
      BY <1>1, <1>2, <1>3, <1>5, <2>1, RemoveDirFacts, CancelledJobFacts
<1> QED
    BY <1>4, <1>5

LEMMA FfmpegFacts ==
    ASSUME Typed, FfmpegWrites
    PROVE  /\ folder' \in FolderType /\ folder'.video = folder.video /\ folder'.vtt = folder.vtt
           /\ proc' \in {"running", "exited", "error"}
           /\ proc = "running" /\ UNCHANGED <<row, job, faults, dl, cand, tracks, seen>>
<1>1. folder \in FolderType /\ proc = "running"
    BY Records DEF FfmpegWrites
<1>2. ASSUME folder.listed < Segments, folder' = [folder EXCEPT !.listed = @ + 1]
      PROVE  folder' \in FolderType /\ folder'.video = folder.video /\ folder'.vtt = folder.vtt
  <2> DEFINE more == folder.listed + 1
  <2>1. more \in 0..Segments
      BY <1>1, <1>2, DeliveryAssumption DEF FolderType
  <2>2. folder' = [folder EXCEPT !.listed = more]
      BY <1>2
  <2> HIDE DEF more
  <2> QED
      BY <1>1, <2>1, <2>2 DEF FolderType
<1>3. ASSUME folder' = [folder EXCEPT !.ended = TRUE]
      PROVE  folder' \in FolderType /\ folder'.video = folder.video /\ folder'.vtt = folder.vtt
    BY <1>1, <1>3 DEF FolderType
<1> QED
    BY <1>1, <1>2, <1>3 DEF FfmpegWrites, Untouched

LEMMA DownloadTyped == ASSUME Typed, DownloadStep \/ FfmpegWrites PROVE Typed'
<1>1. /\ row \in RowType /\ folder \in FolderType /\ dl \in DlType /\ cand \in [Cands -> CandType]
      /\ job \in {"running", "pack", "cancelling", "over"} /\ faults \in Nat
      /\ proc \in {"none", "running", "exited", "error"}
    BY Records DEF Typed, TypeOK
<1>2. UNCHANGED <<cand, tracks, del, exp, req, packs, restarts>>
    BY DEF DownloadStep, FfmpegWrites, Begin, Probe, MonitorScans, MonitorCommits, Check, Ready, FailCommit,
           FileFetch, DownloadCancelled, Untouched, removers, packVars
<1>3. ASSUME GiveUp
      PROVE  /\ folder' \in FolderType /\ dl' \in DlType
             /\ job' \in {"running", "pack", "cancelling", "over"} /\ proc' = "none"
    BY <1>3, GiveUpFacts
<1>4. ASSUME TryAgain
      PROVE  /\ folder' \in FolderType /\ dl' \in DlType /\ job' = job /\ proc' = "none"
    BY <1>4, TryAgainFacts
<1>5. CASE Begin
  <2>1. UNCHANGED <<job, proc, faults>>
      BY <1>5 DEF Begin
  <2> QED
      BY <1>1, <1>2, <1>5, <2>1, BeginFacts, FromRecords DEF Typed
<1>6. CASE Probe
  <2>1. UNCHANGED <<row, faults>>
      BY <1>6 DEF Probe
  <2> QED
      BY <1>1, <1>2, <1>3, <1>4, <1>6, <2>1, ProbeFacts, FromRecords DEF Typed, DlMoves
<1>7. CASE MonitorScans
  <2>1. UNCHANGED <<row, faults>>
      BY <1>7 DEF MonitorScans
  <2> QED
      BY <1>1, <1>2, <1>3, <1>7, <2>1, ScanFacts, FromRecords DEF Typed, DlMoves
<1>8. CASE MonitorCommits
    BY <1>1, <1>2, <1>3, <1>8, MonitorFacts, FromRecords DEF Typed, DlMoves
<1>9. CASE Check
  <2>1. UNCHANGED <<row, faults>>
      BY <1>9 DEF Check
  <2> QED
      BY <1>1, <1>2, <1>3, <1>9, <2>1, CheckFacts, FromRecords DEF Typed, DlMoves
<1>10. CASE Ready
    BY <1>1, <1>2, <1>3, <1>10, ReadyFacts, FromRecords DEF Typed, DlMoves
<1>11. CASE FailCommit
  <2>1. UNCHANGED <<folder, job, proc>>
      BY <1>11 DEF FailCommit
  <2> QED
      BY <1>1, <1>2, <1>11, <2>1, FailCommitFacts, FromRecords DEF Typed, DlMoves
<1>12. CASE FileFetch
  <2>1. UNCHANGED <<row, faults>>
      BY <1>12 DEF FileFetch
  <2> QED
      BY <1>1, <1>2, <1>3, <1>12, <2>1, FetchFacts, FromRecords DEF Typed, DlMoves
<1>13. CASE DownloadCancelled
  <2>1. UNCHANGED <<row, faults>>
      BY <1>13 DEF DownloadCancelled
  <2> QED
      BY <1>1, <1>2, <1>13, <2>1, CancelledFacts, FromRecords DEF Typed
<1>14. CASE FfmpegWrites
    BY <1>1, <1>2, <1>14, FfmpegFacts, FromRecords DEF Typed
<1> QED
    BY <1>5, <1>6, <1>7, <1>8, <1>9, <1>10, <1>11, <1>12, <1>13, <1>14 DEF DownloadStep

(* ... those who remove ... *)
LEMMA DeleteBeginsFacts ==
    ASSUME Typed, DeleteBegins
    PROVE  /\ del' = [pc |-> "commit", tracks |-> row.tracks] /\ del' \in RemoverType
           /\ dl' \in DlType /\ dl'.pc = dl.pc /\ dl'.cancel = (dl.pc # "out")
           /\ dl'.hls = dl.hls /\ dl'.sized = dl.sized /\ dl'.attempt = dl.attempt
           /\ job' = CancelledJob /\ folder' \in FolderType /\ Bare'
<1>1. dl \in DlType /\ row.tracks \in SUBSET Track
    BY Records DEF RowType
<1>2. dl' \in DlType /\ dl'.pc = dl.pc /\ dl'.cancel = (dl.pc # "out")
      /\ dl'.hls = dl.hls /\ dl'.sized = dl.sized /\ dl'.attempt = dl.attempt
  <2> DEFINE hit == dl.pc # "out"
  <2>1. dl' = [dl EXCEPT !.cancel = hit] /\ hit \in BOOLEAN
      BY DEF DeleteBegins
  <2> HIDE DEF hit
  <2>2. dl' \in DlType /\ dl'.pc = dl.pc /\ dl'.cancel = hit
        /\ dl'.hls = dl.hls /\ dl'.sized = dl.sized /\ dl'.attempt = dl.attempt
      BY <1>1, <2>1 DEF DlType
  <2> QED
      BY <2>2 DEF hit
<1> QED
    BY <1>1, <1>2, RemoveDirFacts DEF DeleteBegins, RemoverType

LEMMA RemovedRow ==
    ASSUME Typed, NEW r \in RemoverType, NEW status \in {"deleted", "expired"},
           row' = [row EXCEPT !.status = status, !.playable = FALSE, !.tracks = Emptied(r.tracks), !.subs = "none"]
    PROVE  /\ row' \in RowType /\ row'.status = status /\ row'.mode = row.mode /\ row'.late = row.late
           /\ row'.tracks \subseteq row.tracks
<1>1. row \in RowType
    BY Records
<1>2. Emptied(r.tracks) \in SUBSET Track /\ Emptied(r.tracks) \subseteq row.tracks
    BY <1>1 DEF Emptied, RowType
<1> QED
    BY <1>1, <1>2 DEF RowType

LEMMA TickFacts ==
    ASSUME Typed, Tick
    PROVE  /\ row' \in RowType /\ row'.status = "ready" /\ row.status = "ready" /\ row'.mode = row.mode
           /\ row'.tracks = row.tracks /\ row'.subs = row.subs
<1>1. row \in RowType /\ row' = [row EXCEPT !.late = TRUE] /\ row.status = "ready"
    BY Records DEF Tick
<1> QED
    BY <1>1 DEF RowType

LEMMA RemoversTyped ==
    ASSUME Typed, DeleteBegins \/ DeleteCommit \/ Tick \/ ExpireBegins \/ ExpireCommit
    PROVE  Typed'
<1>1. /\ row \in RowType /\ folder \in FolderType /\ dl \in DlType /\ cand \in [Cands -> CandType]
      /\ job \in {"running", "pack", "cancelling", "over"} /\ faults \in Nat
      /\ proc \in {"none", "running", "exited", "error"}
      /\ del \in RemoverType /\ exp \in RemoverType
    BY Records DEF Typed, TypeOK
<1>2. UNCHANGED <<cand, tracks, faults, req, packs, restarts, proc>>
    BY DEF DeleteBegins, DeleteCommit, Tick, ExpireBegins, ExpireCommit, packVars, dlVars
<1>3. Quiet \in RemoverType
    BY DEF Quiet, RemoverType
<1>4. CASE DeleteBegins
  <2>1. row' = row /\ exp' = exp
      BY <1>4 DEF DeleteBegins
  <2> QED
      BY <1>1, <1>2, <1>4, <2>1, DeleteBeginsFacts, CancelledJobFacts, FromRecords DEF Typed
<1>5. CASE DeleteCommit
  <2>1. row' \in RowType
      BY <1>1, <1>5, RemovedRow DEF DeleteCommit
  <2>2. UNCHANGED <<folder, job, dl, exp>> /\ del' = Quiet
      BY <1>5 DEF DeleteCommit, dlVars
  <2> QED
      BY <1>1, <1>2, <1>3, <2>1, <2>2, FromRecords DEF Typed
<1>6. CASE Tick
  <2>1. UNCHANGED <<folder, job, dl, del, exp>>
      BY <1>6 DEF Tick, dlVars, removers
  <2> QED
      BY <1>1, <1>2, <1>6, <2>1, TickFacts, FromRecords DEF Typed
<1>7. CASE ExpireBegins
  <2>1. /\ UNCHANGED <<row, dl, del>> /\ job' = CancelledJob /\ folder' \in FolderType
        /\ exp' = [pc |-> "commit", tracks |-> row.tracks]
      BY <1>7, RemoveDirFacts DEF ExpireBegins, dlVars
  <2>2. exp' \in RemoverType
      BY <1>1, <2>1 DEF RemoverType, RowType
  <2> QED
      BY <1>1, <1>2, <2>1, <2>2, CancelledJobFacts, FromRecords DEF Typed
<1>8. CASE ExpireCommit
  <2>1. row' \in RowType
      BY <1>1, <1>8, RemovedRow DEF ExpireCommit
  <2>2. UNCHANGED <<folder, job, dl, del>> /\ exp' = Quiet
      BY <1>8 DEF ExpireCommit, dlVars
  <2> QED
      BY <1>1, <1>2, <1>3, <2>1, <2>2, FromRecords DEF Typed
<1> QED
    BY <1>4, <1>5, <1>6, <1>7, <1>8

(* ... the pack, and a restart. *)
LEMMA StartedType == ASSUME NEW plan PROVE Started(plan) \in [Cands -> CandType]
    BY DEF Started, Idle, CandType

LEMMA PackCreatesFacts ==
    ASSUME Typed, NEW r \in Clients, PackCreates(r)
    PROVE  \E plan \in Plans :
             /\ row' \in RowType /\ row'.mode = "subs" /\ row'.late = FALSE /\ row'.tracks = {}
             /\ row'.status = IF plan = {} THEN "ready" ELSE "downloading"
             /\ row'.subs = IF plan = {} THEN "none" ELSE "pending"
             /\ folder' \in FolderType /\ Bare' /\ folder'.vtt = {}
             /\ job' = IF plan = {} THEN "over" ELSE "running"
             /\ cand' = Started(plan) /\ tracks' = {} /\ seen' = {}
<1>1. PICK plan \in Plans :
         /\ row' = [NoRow EXCEPT !.mode = "subs", !.status = IF plan = {} THEN "ready" ELSE "downloading",
                                 !.subs = Begun(plan)]
         /\ folder' = IF plan = {} THEN NoFolder ELSE EmptyFolder
         /\ job' = IF plan = {} THEN "over" ELSE "running"
         /\ cand' = Started(plan)
    BY DEF PackCreates
<1>2. tracks' = {} /\ seen' = {}
    BY DEF PackCreates
<1>3. folder' \in FolderType /\ Bare' /\ folder'.vtt = {}
    BY <1>1, Folders DEF NoFolder, EmptyFolder, Bare
<1>4. /\ row'.mode = "subs" /\ row'.late = FALSE /\ row'.tracks = {}
      /\ row'.status = IF plan = {} THEN "ready" ELSE "downloading"
      /\ row'.subs = IF plan = {} THEN "none" ELSE "pending"
    BY <1>1 DEF NoRow, Begun
<1>5. row' \in RowType
    BY <1>1 DEF NoRow, Begun, RowType
<1> QED
    BY <1>1, <1>2, <1>3, <1>4, <1>5

LEMMA RestartFacts ==
    ASSUME Typed, Restart
    PROVE  /\ row' \in RowType /\ row'.mode = row.mode /\ row'.late = row.late
           /\ row'.status = IF row.status \in {"queued", "downloading"} THEN "failed" ELSE row.status
           /\ folder' \in FolderType
           /\ folder' = IF row'.status = "ready" THEN folder ELSE NoFolder
           /\ dl' \in DlType /\ dl'.pc = "out" /\ dl'.cancel = FALSE
           /\ dl'.hls = dl.hls /\ dl'.sized = dl.sized
<1>1. row \in RowType /\ folder \in FolderType /\ dl \in DlType
    BY Records
<1> DEFINE r == IF row.status \in {"queued", "downloading"}
                      THEN [row EXCEPT !.status = "failed", !.playable = FALSE] ELSE row
<1>2. /\ r \in RowType /\ r.mode = row.mode /\ r.late = row.late
      /\ r.status = IF row.status \in {"queued", "downloading"} THEN "failed" ELSE row.status
  <2>1. CASE row.status \in {"queued", "downloading"}
    <3>1. r = [row EXCEPT !.status = "failed", !.playable = FALSE]
        BY <2>1
    <3> HIDE DEF r
    <3> QED
        BY <1>1, <2>1, <3>1 DEF RowType
  <2>2. CASE row.status \notin {"queued", "downloading"}
      BY <1>1, <2>2
  <2> QED
      BY <2>1, <2>2
<1>3. row' = Settled(r)
    BY DEF Restart
<1> HIDE DEF r
<1>4. row' = r \/ \E subs \in {"partial", "none"} : row' = [r EXCEPT !.subs = subs]
    BY <1>3 DEF Settled
<1>5. row' \in RowType /\ row'.mode = r.mode /\ row'.late = r.late /\ row'.status = r.status
    BY <1>2, <1>4 DEF RowType
<1>6. folder' = IF row'.status = "ready" THEN folder ELSE NoFolder
    BY DEF Restart
<1>7. dl' \in DlType /\ dl'.pc = "out" /\ dl'.cancel = FALSE /\ dl'.hls = dl.hls /\ dl'.sized = dl.sized
  <2>1. dl' = [NoDownload EXCEPT !.hls = dl.hls, !.sized = dl.sized]
      BY DEF Restart
  <2>2. NoDownload \in DlType /\ NoDownload.pc = "out" /\ NoDownload.cancel = FALSE
      BY DEF NoDownload, DlType
  <2> QED
      BY <1>1, <2>1, <2>2 DEF DlType
<1> QED
    BY <1>1, <1>2, <1>5, <1>6, <1>7, Folders

LEMMA PackTyped == ASSUME Typed, PackStep PROVE Typed'
<1>1. /\ row \in RowType /\ folder \in FolderType /\ dl \in DlType /\ cand \in [Cands -> CandType]
      /\ job \in {"running", "pack", "cancelling", "over"}
      /\ proc \in {"none", "running", "exited", "error"}
      /\ req \in [Clients -> {"idle", "look", "create"}]
    BY Records DEF Typed, TypeOK
<1>2. UNCHANGED <<faults, dl, proc, del, exp, restarts>>
    BY DEF PackStep, PackAsk, PackLooks, PackCreates, dlVars, removers, subVars
<1>3. ASSUME NEW r \in Clients, PackAsk(r) \/ PackLooks(r) PROVE Typed'
  <2>1. req' \in [Clients -> {"idle", "look", "create"}]
      BY <1>1, <1>3 DEF PackAsk, PackLooks
  <2>2. UNCHANGED <<row, folder, job, cand, tracks, packs>>
      BY <1>3 DEF PackAsk, PackLooks, subVars
  <2> QED
      BY <1>1, <1>2, <2>1, <2>2, FromRecords DEF Typed
<1>4. ASSUME NEW r \in Clients, PackCreates(r) PROVE Typed'
  <2>1. req' \in [Clients -> {"idle", "look", "create"}]
      BY <1>1, <1>4 DEF PackCreates
  <2>2. packs' \in Nat
      BY <1>4 DEF PackCreates, Typed
  <2>3. TypeOK' /\ tracks' = {}
    <3>1. PICK plan \in Plans :
            /\ row' \in RowType /\ folder' \in FolderType
            /\ job' = IF plan = {} THEN "over" ELSE "running"
            /\ cand' = Started(plan) /\ tracks' = {}
        BY <1>4, PackCreatesFacts
    <3>2. job' \in {"running", "pack", "cancelling", "over"} /\ cand' \in [Cands -> CandType]
        BY <3>1, StartedType
    <3>3. dl' \in DlType /\ proc' \in {"none", "running", "exited", "error"}
        BY <1>1, <1>2
    <3> QED
        BY <3>1, <3>2, <3>3, FromRecords
  <2> QED
      BY <1>2, <2>1, <2>2, <2>3 DEF Typed
<1> QED
    BY <1>3, <1>4 DEF PackStep

LEMMA RestartTyped == ASSUME Typed, Restart PROVE Typed'
<1>1. /\ job' = "over" /\ cand' = Started({}) /\ tracks' = {} /\ proc' = "none"
      /\ del' = Quiet /\ exp' = Quiet /\ req' = [r \in Clients |-> "idle"] /\ UNCHANGED <<faults, packs>>
    BY DEF Restart
<1>2. restarts' \in Nat
    BY DEF Restart, Typed
<1>3. Quiet \in RemoverType
    BY DEF Quiet, RemoverType
<1>4. TypeOK'
    BY <1>1, RestartFacts, StartedType, FromRecords
<1> QED
    BY <1>1, <1>2, <1>3, <1>4 DEF Typed

LEMMA TypedNext == Typed /\ [Next]_vars => Typed'
<1>1. ASSUME Typed, UNCHANGED vars PROVE Typed'
    BY <1>1 DEF Typed, TypeOK, vars, subVars, dlVars, removers, packVars
<1> QED
    BY <1>1, SubsTyped, DownloadTyped, RemoversTyped, PackTyped, RestartTyped DEF Next

-----------------------------------------------------------------------------
(* Where the download, the removals and ffmpeg can be, all at once ... *)
Running ==
    /\ row.mode = "subs" => dl.pc = "out" /\ row.status # "queued"
    /\ job = "pack" => row.mode = "subs"
    /\ dl.pc = "out" => dl.cancel = FALSE
    /\ dl.cancel = TRUE => del.pc = "commit"
    /\ dl.pc # "out" => /\ row.status \in {"queued", "downloading"}
                        /\ exp.pc = "idle"
                        /\ dl.cancel = FALSE => del.pc = "idle"
    /\ proc = "running" => dl.pc = "run"
    /\ dl.pc \in {"probe", "run"} => row.mode = "hls"
    /\ dl.pc = "fetch" => row.mode = "file"

(* ... and what is on the disk of the video then. *)
OnDisk ==
    /\ row.mode = "subs" => Bare
    /\ dl.pc \in {"queued", "probe", "failing"} => Bare
    /\ dl.pc = "run" => folder.video = "none"
    /\ dl.pc = "fetch" => folder.listed = 0
    /\ dl.pc = "commit" =>
         \/ dl.cancel = TRUE
         \/ row.mode = "hls" /\ folder.video = "none" /\ folder.ended = TRUE /\ folder.listed = Segments
         \/ row.mode = "file" /\ folder.listed = 0 /\ folder.video \in {"whole", "cut"}
    /\ del.pc = "commit" /\ dl.pc = "out" => Bare
    /\ exp.pc = "commit" => Bare
    /\ folder.video = "cut" => dl.hls = TRUE \/ dl.sized = FALSE

Video == Running /\ OnDisk /\ NoHalfVideo

(* The requests for the pack take turns, and one that is about to create has seen no live pack. *)
Turns ==
    /\ \A r \in Clients : req[r] # "idle" => lock = "held" /\ row.mode = "subs"
    /\ \A r, s \in Clients : req[r] # "idle" /\ req[s] # "idle" => r = s
    /\ \A r \in Clients : req[r] = "create" => ~LivePack
    /\ row.late = TRUE => row.status \notin {"gone", "queued", "downloading"}

LEMMA VideoInit == Init => Video
<1>1. NoRow.status = "gone" /\ EmptyFolder.listed = 0 /\ EmptyFolder.video = "none" /\ NoFolder.listed = 0
      /\ NoFolder.video = "none" /\ NoDownload.pc = "out" /\ NoDownload.cancel = FALSE
    BY DEF NoRow, EmptyFolder, NoFolder, NoDownload
<1>2. ASSUME Init PROVE Running /\ Bare /\ (dl.pc \in {"out", "queued"})
  <2>1. CASE \E plan \in Plans, mode \in {"hls", "file"}, source \in Sources :
               /\ row = [NoRow EXCEPT !.mode = mode, !.status = "queued", !.subs = Begun(plan)]
               /\ folder = EmptyFolder
               /\ job = IF plan = {} THEN "over" ELSE "running"
               /\ dl = [NoDownload EXCEPT !.pc = "queued", !.hls = source[1], !.sized = source[2]]
    <3>1. row.mode \in {"hls", "file"} /\ row.status = "queued" /\ dl.pc = "queued" /\ dl.cancel = FALSE /\ job # "pack"
        BY <2>1 DEF NoRow, NoDownload
    <3> QED
        BY <1>1, <1>2, <2>1, <3>1 DEF Init, Running, Bare, Quiet
  <2>2. CASE row = [NoRow EXCEPT !.mode = "subs"] /\ folder = NoFolder /\ job = "over" /\ dl = NoDownload
    <3>1. row.mode = "subs" /\ row.status = "gone"
        BY <2>2 DEF NoRow
    <3> QED
        BY <1>1, <1>2, <2>2, <3>1 DEF Init, Running, Bare, Quiet
  <2> QED
      BY <1>2, <2>1, <2>2 DEF Init
<1>3. ASSUME Running, Bare, dl.pc \in {"out", "queued"}, exp.pc = "idle" PROVE Video
    BY <1>3 DEF Video, OnDisk, NoHalfVideo, Bare
<1>4. Init => exp.pc = "idle"
  <2>1. Quiet.pc = "idle"
      BY DEF Quiet
  <2>2. Init => exp = Quiet
      BY DEF Init
  <2> QED
      BY <2>1, <2>2
<1> QED
    BY <1>2, <1>3, <1>4

(* The steps of the download, with the video in mind. *)
LEMMA GivingUp ==
    ASSUME Typed, Video, GiveUp, dl.pc # "out", dl.cancel = FALSE,
           row'.mode = row.mode, row'.status = row.status, del' = del, exp' = exp
    PROVE  Video'
<1>1. /\ Bare' /\ dl'.pc = "failing" /\ dl'.cancel = dl.cancel /\ dl'.hls = dl.hls /\ dl'.sized = dl.sized
      /\ proc' = "none"
    BY GiveUpFacts
<1>2. job' = "pack" => job = "pack"
    BY DEF GiveUp, CancelledJob
<1>3. Running'
    BY <1>1, <1>2 DEF Video, Running
<1> QED
    BY <1>1, <1>3 DEF Video, OnDisk, NoHalfVideo, Bare

LEMMA DownloadVideo == ASSUME Typed, Video, DownloadStep \/ FfmpegWrites PROVE Video'
<1>1. del' = del /\ exp' = exp
    BY DEF DownloadStep, FfmpegWrites, Begin, Probe, MonitorScans, MonitorCommits, Check, Ready, FailCommit,
           FileFetch, DownloadCancelled, Untouched, removers
<1>2. row.mode \in {"hls", "file", "subs"} /\ dl.cancel \in BOOLEAN /\ dl'.cancel \in BOOLEAN
  <2>1. Typed'
      BY DownloadTyped
  <2> QED
      BY <2>1, Records DEF Typed, TypeOK
<1>3. CASE Begin
  <2>1. dl.pc = "queued" /\ dl.cancel = FALSE /\ UNCHANGED <<job, proc>>
      BY <1>2, <1>3 DEF Begin
  <2>2. Running'
      BY <1>1, <1>2, <1>3, <2>1, BeginFacts DEF Video, Running
  <2> QED
      BY <1>1, <1>2, <1>3, <2>1, <2>2, BeginFacts DEF Video, Running, OnDisk, NoHalfVideo, Bare
<1>4. CASE Probe
  <2>1. dl.pc = "probe" /\ dl.cancel = FALSE /\ row' = row
      BY <1>2, <1>4 DEF Probe
  <2>2. CASE DlMoves("run") /\ proc' = "running" /\ UNCHANGED <<folder, job>>
    <3>1. Running'
        BY <1>1, <2>1, <2>2 DEF Video, Running, DlMoves, SameSource
    <3> QED
        BY <1>1, <2>1, <2>2, <3>1 DEF Video, OnDisk, NoHalfVideo, Bare, DlMoves, SameSource
  <2>3. CASE TryAgain
    <3>1. Running'
        BY <1>1, <2>1, <2>3, TryAgainFacts DEF Video, Running
    <3> QED
        BY <1>1, <2>1, <2>3, <3>1, TryAgainFacts DEF Video, OnDisk, NoHalfVideo, Bare
  <2> QED
      BY <1>1, <1>4, <2>1, <2>2, <2>3, ProbeFacts, GivingUp
<1>5. CASE MonitorScans
  <2>1. dl.pc = "run" /\ dl.cancel = FALSE /\ row' = row
      BY <1>2, <1>5 DEF MonitorScans
  <2>2. CASE DlMoves("run") /\ UNCHANGED <<folder, job, proc>>
    <3>1. Running'
        BY <1>1, <2>1, <2>2 DEF Video, Running, DlMoves, SameSource
    <3> QED
        BY <1>1, <2>1, <2>2, <3>1 DEF Video, OnDisk, NoHalfVideo, Bare, DlMoves, SameSource
  <2> QED
      BY <1>1, <1>5, <2>1, <2>2, ScanFacts, GivingUp
<1>6. CASE MonitorCommits
  <2>1. dl.pc = "run" /\ dl.cancel = FALSE
      BY <1>2, <1>6 DEF MonitorCommits
  <2>2. row'.mode = row.mode /\ row'.status = row.status
      BY <1>6, MonitorFacts
  <2>3. CASE DlMoves("run") /\ UNCHANGED <<folder, job, proc, faults>>
    <3>1. Running'
        BY <1>1, <2>1, <2>2, <2>3 DEF Video, Running, DlMoves, SameSource
    <3> QED
        BY <1>1, <2>1, <2>2, <2>3, <3>1 DEF Video, OnDisk, NoHalfVideo, Bare, DlMoves, SameSource
  <2> QED
      BY <1>1, <1>6, <2>1, <2>2, <2>3, MonitorFacts, GivingUp
<1>7. CASE Check
  <2>1. dl.pc = "run" /\ dl.cancel = FALSE /\ row' = row
      BY <1>2, <1>7 DEF Check
  <2>2. CASE Complete /\ DlMoves("commit") /\ UNCHANGED <<folder, job, proc>>
    <3>1. folder.ended = TRUE /\ folder.listed = Segments /\ proc # "running"
        BY <2>2 DEF Complete
    <3>2. Running'
        BY <1>1, <2>1, <2>2, <3>1 DEF Video, Running, DlMoves, SameSource
    <3> QED
        BY <1>1, <2>1, <2>2, <3>1, <3>2 DEF Video, Running, OnDisk, NoHalfVideo, Bare, DlMoves, SameSource
  <2> QED
      BY <1>1, <1>7, <2>1, <2>2, CheckFacts, GivingUp
<1>8. CASE Ready
  <2>1. dl.pc = "commit" /\ dl.cancel = FALSE
      BY <1>2, <1>8 DEF Ready
  <2>2. row'.mode = row.mode
      BY <1>8, ReadyFacts
  <2>3. CASE row'.status = "ready" /\ DlMoves("out") /\ UNCHANGED <<folder, job, proc, faults>>
    <3>1. Running'
        BY <1>1, <2>1, <2>2, <2>3 DEF Video, Running, DlMoves, SameSource
    <3> QED
        BY <1>1, <2>1, <2>2, <2>3, <3>1 DEF Video, Running, OnDisk, NoHalfVideo, Bare, DlMoves, SameSource
  <2> QED
      BY <1>1, <1>8, <2>1, <2>2, <2>3, ReadyFacts, GivingUp
<1>9. CASE FailCommit
  <2>1. dl.pc = "failing" /\ dl.cancel = FALSE /\ UNCHANGED <<folder, job, proc>>
      BY <1>2, <1>9 DEF FailCommit
  <2>2. row'.mode = row.mode /\ (row'.status = "failed" \/ row'.status = row.status) /\ DlMoves("out")
      BY <1>9, FailCommitFacts
  <2>3. Running'
      BY <1>1, <2>1, <2>2 DEF Video, Running, DlMoves, SameSource
  <2> QED
      BY <1>1, <2>1, <2>2, <2>3 DEF Video, OnDisk, NoHalfVideo, Bare, DlMoves, SameSource
<1>10. CASE FileFetch
  <2>1. dl.pc = "fetch" /\ dl.cancel = FALSE /\ row' = row
      BY <1>2, <1>10 DEF FileFetch
  <2>2. CASE /\ folder'.listed = folder.listed /\ folder'.video = "part" /\ dl' = dl /\ UNCHANGED <<job, proc>>
    <3>1. Running'
        BY <1>1, <2>1, <2>2 DEF Video, Running
    <3> QED
        BY <1>1, <2>1, <2>2, <3>1 DEF Video, Running, OnDisk, NoHalfVideo, Bare
  <2>3. CASE /\ folder'.listed = folder.listed /\ folder'.video \in {"whole", "cut"}
             /\ (folder'.video = "cut" => dl.hls \/ ~dl.sized)
             /\ DlMoves("commit") /\ UNCHANGED <<job, proc>>
    <3>1. Running'
        BY <1>1, <2>1, <2>3 DEF Video, Running, DlMoves, SameSource
    <3>2. folder'.video = "cut" => dl.hls = TRUE \/ dl.sized = FALSE
        BY <2>3, Records DEF DlType
    <3> QED
        BY <1>1, <2>1, <2>3, <3>1, <3>2 DEF Video, Running, OnDisk, NoHalfVideo, Bare, DlMoves, SameSource
  <2>4. CASE dl'.pc = "fetch" /\ SameSource /\ UNCHANGED <<folder, job, proc>>
    <3>1. Running'
        BY <1>1, <2>1, <2>4 DEF Video, Running, SameSource
    <3> QED
        BY <1>1, <2>1, <2>4, <3>1 DEF Video, Running, OnDisk, NoHalfVideo, Bare, SameSource
  <2> QED
      BY <1>1, <1>10, <2>1, <2>2, <2>3, <2>4, FetchFacts, GivingUp
<1>11. CASE DownloadCancelled
  <2>1. dl.pc # "out" /\ row' = row /\ (job' = "pack" => job = "pack")
      BY <1>11 DEF DownloadCancelled, CancelledJob
  <2>2. /\ dl'.pc = "out" /\ dl'.cancel = FALSE /\ dl'.hls = dl.hls /\ dl'.sized = dl.sized /\ proc' = "none"
        /\ IF dl.pc \in {"queued", "failing"} THEN folder' = folder ELSE Bare'
      BY <1>11, CancelledFacts
  <2>3. Bare'
      BY <2>2 DEF Video, OnDisk, Bare
  <2>4. Running'
      BY <1>1, <2>1, <2>2 DEF Video, Running
  <2> QED
      BY <1>1, <2>1, <2>2, <2>3, <2>4 DEF Video, OnDisk, NoHalfVideo, Bare
<1>12. CASE FfmpegWrites
  <2>1. /\ folder'.video = folder.video /\ proc = "running" /\ proc' \in {"running", "exited", "error"}
        /\ UNCHANGED <<row, job, dl>>
      BY <1>12, FfmpegFacts
  <2>2. Running'
      BY <1>1, <2>1 DEF Video, Running
  <2> QED
      BY <1>1, <2>1, <2>2 DEF Video, Running, OnDisk, NoHalfVideo, Bare
<1> QED
    BY <1>3, <1>4, <1>5, <1>6, <1>7, <1>8, <1>9, <1>10, <1>11, <1>12 DEF DownloadStep

(* The others. *)
LEMMA OthersVideo ==
    ASSUME Typed, Video, Turns,
           SubsStep \/ DeleteBegins \/ DeleteCommit \/ Tick \/ ExpireBegins \/ ExpireCommit \/ PackStep \/ Restart
    PROVE  Video'
<1>1. dl.cancel \in BOOLEAN /\ row.mode \in {"hls", "file", "subs"}
    BY DEF Typed, TypeOK
<1>2. CASE SubsStep
  <2>1. UNCHANGED <<dl, proc, del, exp>> /\ SubtitleStep
      BY <1>2 DEF SubsStep, dlVars, removers
  <2>2. job' = "pack" => job = "pack" \/ row.mode = "subs"
      BY <2>1 DEF SubtitleStep, TakeSlot, Fetched, ThreadLooks, ThreadWrites, TrackReady, TrackFails, Save,
                  FinalSave, FinishPack, JobCancelled
  <2>3. Running'
      BY <2>1, <2>2, SubtitleRow DEF Video, Running
  <2> QED
      BY <2>1, <2>3, SubtitleRow, SubtitleFolder DEF Video, Running, OnDisk, NoHalfVideo, Bare
<1>3. CASE DeleteBegins
  <2>1. /\ del'.pc = "commit" /\ Bare' /\ UNCHANGED <<row, proc, exp>> /\ (job' = "pack" => job = "pack")
        /\ dl'.pc = dl.pc /\ dl'.cancel = (dl.pc # "out") /\ dl'.hls = dl.hls /\ dl'.sized = dl.sized
      BY <1>3, DeleteBeginsFacts DEF DeleteBegins, CancelledJob
  <2>2. Running'
      BY <1>1, <2>1 DEF Video, Running
  <2> QED
      BY <1>1, <2>1, <2>2 DEF Video, Running, OnDisk, NoHalfVideo, Bare
<1>4. CASE DeleteCommit
  <2>1. /\ del.pc = "commit" /\ dl.cancel = FALSE /\ del'.pc = "idle" /\ UNCHANGED <<folder, job, dl, proc, exp>>
      BY <1>1, <1>4 DEF DeleteCommit, Delivered, Quiet, dlVars
  <2>2. row'.status = "deleted" /\ row'.mode = row.mode
      BY <1>4, RemovedRow DEF DeleteCommit, Typed
  <2>3. dl.pc = "out" /\ Bare
      BY <2>1 DEF Video, Running, OnDisk
  <2>4. Running'
      BY <2>1, <2>2, <2>3 DEF Video, Running
  <2> QED
      BY <2>1, <2>2, <2>3, <2>4 DEF Video, OnDisk, NoHalfVideo, Bare
<1>5. CASE Tick
  <2>1. UNCHANGED <<folder, job, dl, proc, del, exp>> /\ row'.status = row.status /\ row'.mode = row.mode
      BY <1>5, TickFacts DEF Tick, dlVars, removers
  <2>2. Running'
      BY <2>1 DEF Video, Running
  <2> QED
      BY <2>1, <2>2 DEF Video, OnDisk, NoHalfVideo, Bare
<1>6. CASE ExpireBegins
  <2>1. /\ row.status = "ready" /\ exp'.pc = "commit" /\ Bare' /\ UNCHANGED <<row, dl, proc, del>>
        /\ (job' = "pack" => job = "pack")
      BY <1>6, RemoveDirFacts DEF ExpireBegins, CancelledJob, dlVars
  <2>2. dl.pc = "out"
      BY <2>1 DEF Video, Running
  <2>3. Running'
      BY <2>1, <2>2 DEF Video, Running
  <2> QED
      BY <2>1, <2>2, <2>3 DEF Video, OnDisk, NoHalfVideo, Bare
<1>7. CASE ExpireCommit
  <2>1. exp.pc = "commit" /\ exp'.pc = "idle" /\ UNCHANGED <<folder, job, dl, proc, del>>
      BY <1>7 DEF ExpireCommit, Quiet, dlVars
  <2>2. row'.status = "expired" /\ row'.mode = row.mode
      BY <1>7, RemovedRow DEF ExpireCommit, Typed
  <2>3. dl.pc = "out" /\ Bare
      BY <2>1 DEF Video, Running, OnDisk
  <2>4. Running'
      BY <2>1, <2>2, <2>3 DEF Video, Running
  <2> QED
      BY <2>1, <2>2, <2>3, <2>4 DEF Video, OnDisk, NoHalfVideo, Bare
<1>8. ASSUME NEW r \in Clients, PackAsk(r) \/ PackLooks(r) PROVE Video'
  <2>1. UNCHANGED <<row, folder, job, dl, proc, del, exp>>
      BY <1>8 DEF PackAsk, PackLooks, subVars, dlVars, removers
  <2> QED
      BY <2>1 DEF Video, Running, OnDisk, NoHalfVideo, Bare
<1>9. ASSUME NEW r \in Clients, PackCreates(r) PROVE Video'
  <2>1. req[r] = "create" /\ UNCHANGED <<dl, proc, del, exp>>
      BY <1>9 DEF PackCreates, dlVars, removers
  <2>2. row.mode = "subs"
      BY <2>1 DEF Turns
  <2>3. Bare' /\ row'.mode = "subs" /\ row'.status # "queued"
      BY <1>9, PackCreatesFacts
  <2>4. dl.pc = "out"
      BY <2>2 DEF Video, Running
  <2>5. Running'
      BY <2>1, <2>3, <2>4 DEF Video, Running
  <2> QED
      BY <2>1, <2>3, <2>4, <2>5 DEF Video, OnDisk, NoHalfVideo, Bare
<1>10. CASE Restart
  <2>1. /\ dl'.pc = "out" /\ dl'.cancel = FALSE /\ dl'.hls = dl.hls /\ dl'.sized = dl.sized
        /\ row'.mode = row.mode
        /\ row'.status = IF row.status \in {"queued", "downloading"} THEN "failed" ELSE row.status
        /\ folder' = IF row'.status = "ready" THEN folder ELSE NoFolder
      BY <1>10, RestartFacts
  <2>2. job' = "over" /\ proc' = "none" /\ del'.pc = "idle" /\ exp'.pc = "idle"
      BY <1>10 DEF Restart, Quiet
  <2>3. NoFolder.listed = 0 /\ NoFolder.video = "none"
      BY DEF NoFolder
  <2>4. Running'
      BY <2>1, <2>2 DEF Video, Running
  <2>5. row.mode = "subs" => Bare'
      BY <2>1, <2>3 DEF Video, OnDisk, Bare
  <2>6. CASE row'.status = "ready"
    <3>1. folder' = folder /\ row.status = "ready" /\ dl.pc = "out"
        BY <2>1, <2>6 DEF Video, Running
    <3> QED
        BY <2>1, <2>2, <2>4, <3>1 DEF Video, OnDisk, NoHalfVideo, Bare
  <2>7. CASE row'.status # "ready"
      BY <2>1, <2>2, <2>3, <2>4, <2>7, DeliveryAssumption DEF Video, OnDisk, NoHalfVideo, Bare
  <2> QED
      BY <2>6, <2>7
<1> QED
    BY <1>2, <1>3, <1>4, <1>5, <1>6, <1>7, <1>8, <1>9, <1>10 DEF PackStep

LEMMA TurnsInit == Init => Turns
<1>1. ASSUME Init PROVE \A r \in Clients : req[r] = "idle"
    BY <1>1 DEF Init
<1>2. ASSUME Init PROVE row.late = FALSE
    BY <1>2 DEF Init, NoRow
<1> QED
    BY <1>1, <1>2 DEF Turns

(* Nobody but a request makes a pack live while another is about to create one. *)
LEMMA QuietTurns ==
    ASSUME Turns, UNCHANGED <<req, lock>>, row'.mode = row.mode,
           row.mode = "subs" /\ LivePack' => LivePack,
           row'.late = TRUE => row'.status \notin {"gone", "queued", "downloading"}
    PROVE  Turns'
    BY DEF Turns

LEMMA DownloadTurns == ASSUME Typed, Video, Turns, DownloadStep \/ FfmpegWrites PROVE Turns'
<1>1. UNCHANGED <<req, lock>> /\ (dl.pc # "out" \/ proc = "running")
    BY DEF DownloadStep, FfmpegWrites, Begin, Probe, MonitorScans, MonitorCommits, Check, Ready, FailCommit,
           FileFetch, DownloadCancelled, Untouched, packVars
<1>2. dl.pc # "out" /\ row.mode # "subs" /\ row.late # TRUE
    BY <1>1 DEF Video, Running, Turns
<1>3. row'.mode = row.mode /\ row'.late = row.late
  <2>1. CASE Begin
      BY <2>1, BeginFacts
  <2>2. CASE MonitorCommits
      BY <2>2, MonitorFacts
  <2>3. CASE Ready
      BY <2>3, ReadyFacts
  <2>4. CASE FailCommit
      BY <2>4, FailCommitFacts
  <2>5. CASE Probe \/ MonitorScans \/ Check \/ FileFetch \/ DownloadCancelled \/ FfmpegWrites
      BY <2>5 DEF Probe, MonitorScans, Check, FileFetch, DownloadCancelled, FfmpegWrites
  <2> QED
      BY <2>1, <2>2, <2>3, <2>4, <2>5 DEF DownloadStep
<1> QED
    BY <1>1, <1>2, <1>3, QuietTurns

LEMMA OthersTurns ==
    ASSUME Typed, Video, Turns,
           SubsStep \/ DeleteBegins \/ DeleteCommit \/ Tick \/ ExpireBegins \/ ExpireCommit \/ Restart
    PROVE  Turns'
<1>1. row.late \in BOOLEAN /\ Turns
    BY DEF Typed, TypeOK
<1>2. CASE SubsStep
  <2>1. UNCHANGED <<req, lock>> /\ SubtitleStep
      BY <1>2 DEF SubsStep, packVars
  <2> QED
      BY <1>1, <2>1, SubtitleRow, QuietTurns DEF LivePack, Turns
<1>3. CASE DeleteBegins \/ ExpireBegins
  <2>1. UNCHANGED <<row, req, lock>>
      BY <1>3 DEF DeleteBegins, ExpireBegins, packVars
  <2> QED
      BY <1>1, <2>1, QuietTurns DEF LivePack, Turns
<1>4. CASE DeleteCommit \/ ExpireCommit
  <2>1. UNCHANGED <<req, lock>>
      BY <1>4 DEF DeleteCommit, ExpireCommit, packVars
  <2>2. row'.status \in {"deleted", "expired"} /\ row'.mode = row.mode
      BY <1>4, RemovedRow DEF DeleteCommit, ExpireCommit, Typed
  <2> QED
      BY <1>1, <2>1, <2>2, QuietTurns DEF LivePack
<1>5. CASE Tick
  <2>1. UNCHANGED <<req, lock>> /\ row'.late = TRUE
    <3>1. row' = [row EXCEPT !.late = TRUE] /\ row \in RowType
        BY <1>5, Records DEF Tick
    <3> QED
        BY <1>5, <3>1 DEF Tick, packVars, RowType
  <2> QED
      BY <1>5, <2>1, TickFacts, QuietTurns DEF LivePack
<1>6. CASE Restart
  <2>1. /\ row'.mode = row.mode /\ row'.late = row.late
        /\ row'.status = IF row.status \in {"queued", "downloading"} THEN "failed" ELSE row.status
      BY <1>6, RestartFacts
  <2>2. \A r \in Clients : req'[r] = "idle"
      BY <1>6 DEF Restart
  <2> QED
      BY <2>1, <2>2 DEF Turns
<1> QED
    BY <1>2, <1>3, <1>4, <1>5, <1>6

LEMMA PackTurns == ASSUME Typed, Turns, PackStep PROVE Turns'
<1>1. row \in RowType /\ req \in [Clients -> {"idle", "look", "create"}]
    BY Records DEF Typed
<1>2. ASSUME NEW r \in Clients, PackAsk(r) PROVE Turns'
  <2>1. /\ row.mode = "subs" /\ lock = "free" /\ lock' = "held" /\ row' = row
        /\ req' = [req EXCEPT ![r] = "look"]
      BY <1>2 DEF PackAsk, subVars
  <2>2. \A s \in Clients : req[s] = "idle"
      BY <2>1 DEF Turns
  <2>3. \A s \in Clients : req'[s] = IF s = r THEN "look" ELSE "idle"
      BY <1>1, <2>1, <2>2
  <2> QED
      BY <2>1, <2>3 DEF Turns
<1>3. ASSUME NEW r \in Clients, PackLooks(r) PROVE Turns'
  <2>1. /\ req[r] = "look" /\ row' = row /\ lock' = IF LivePack THEN "free" ELSE lock
        /\ req' = [req EXCEPT ![r] = IF LivePack THEN "idle" ELSE "create"]
      BY <1>3 DEF PackLooks, subVars
  <2>2. \A s \in Clients : s # r => req[s] = "idle"
      BY <2>1 DEF Turns
  <2>3. \A s \in Clients : req'[s] = IF s = r THEN (IF LivePack THEN "idle" ELSE "create") ELSE "idle"
      BY <1>1, <2>1, <2>2
  <2>4. lock = "held" /\ row.mode = "subs" /\ (LivePack' <=> LivePack)
      BY <2>1 DEF Turns, LivePack
  <2>5. CASE LivePack
      BY <2>1, <2>3, <2>5 DEF Turns
  <2>6. CASE ~LivePack
      BY <2>1, <2>3, <2>4, <2>6 DEF Turns
  <2> QED
      BY <2>5, <2>6
<1>4. ASSUME NEW r \in Clients, PackCreates(r) PROVE Turns'
  <2>1. req[r] = "create" /\ req' = [req EXCEPT ![r] = "idle"]
      BY <1>4 DEF PackCreates
  <2>2. \A s \in Clients : req'[s] = "idle"
      BY <1>1, <2>1 DEF Turns
  <2>3. row'.late = FALSE
      BY <1>4, PackCreatesFacts
  <2> QED
      BY <2>2, <2>3 DEF Turns
<1> QED
    BY <1>2, <1>3, <1>4 DEF PackStep

(* One pack at a time: whoever creates one has seen no live one, and nobody has made one since. *)
OneStep == packs' > packs => ~LivePack

LEMMA OnePackStep == ASSUME Typed, Turns, [Next]_vars PROVE OneStep
<1>1. packs \in Nat
    BY DEF Typed
<1>2. packs' = packs \/ \E r \in Clients : PackCreates(r)
    BY DEF Next, SubsStep, DownloadStep, FfmpegWrites, Begin, Probe, MonitorScans, MonitorCommits, Check, Ready,
           FailCommit, FileFetch, DownloadCancelled, DeleteBegins, DeleteCommit, Tick, ExpireBegins, ExpireCommit,
           Restart, PackStep, PackAsk, PackLooks, Untouched, packVars, vars
<1>3. ASSUME NEW r \in Clients, PackCreates(r) PROVE ~LivePack
    BY <1>3 DEF PackCreates, Turns
<1> QED
    BY <1>1, <1>2, <1>3 DEF OneStep

LEMMA TypedInit == Init => Typed
<1>1. NoRow \in RowType /\ NoDownload \in DlType /\ Quiet \in RemoverType
    BY DEF NoRow, NoDownload, Quiet, RowType, DlType, RemoverType
<1>2. ASSUME Init
      PROVE  /\ row \in RowType /\ folder \in FolderType /\ dl \in DlType /\ cand \in [Cands -> CandType]
             /\ job \in {"running", "over"}
  <2>1. ASSUME NEW plan \in Plans, NEW mode \in {"hls", "file"}, NEW source \in Sources,
               row = [NoRow EXCEPT !.mode = mode, !.status = "queued", !.subs = Begun(plan)],
               dl = [NoDownload EXCEPT !.pc = "queued", !.hls = source[1], !.sized = source[2]]
        PROVE  row \in RowType /\ dl \in DlType
    <3>1. Begun(plan) \in {"none", "pending"}
        BY DEF Begun
    <3>2. source[1] \in BOOLEAN /\ source[2] \in BOOLEAN
      <4>1. source = <<TRUE, TRUE>> \/ source = <<FALSE, TRUE>> \/ source = <<FALSE, FALSE>>
          BY DEF Sources
      <4>2. /\ source[1] = TRUE \/ source[1] = FALSE
            /\ source[2] = TRUE \/ source[2] = FALSE
          BY <4>1
      <4> QED
          BY <4>2
    <3>3. row \in RowType
        BY <1>1, <2>1, <3>1 DEF RowType
    <3>4. dl \in DlType
        BY <1>1, <2>1, <3>2 DEF DlType
    <3> QED
        BY <3>3, <3>4
  <2>2. ASSUME row = [NoRow EXCEPT !.mode = "subs"] PROVE row \in RowType
      BY <1>1, <2>2 DEF RowType
  <2>3. folder \in FolderType /\ cand \in [Cands -> CandType] /\ job \in {"running", "over"}
    <3>1. /\ folder \in {EmptyFolder, NoFolder} /\ job \in {"running", "over"}
          /\ \E plan : cand = Started(plan)
        BY <1>2, Zenon DEF Init
    <3> QED
        BY <3>1, Folders, StartedType
  <2> QED
      BY <1>1, <1>2, <2>1, <2>2, <2>3 DEF Init
<1>3. ASSUME Init
      PROVE  /\ tracks = {} /\ faults = 0 /\ proc = "none" /\ del = Quiet /\ exp = Quiet
             /\ req = [r \in Clients |-> "idle"] /\ packs = 0 /\ restarts = 0
    BY <1>3 DEF Init
<1>4. Init => TypeOK
    BY <1>2, <1>3 DEF TypeOK, RowType, FolderType, CandType, DlType
<1> QED
    BY <1>1, <1>3, <1>4 DEF Typed

VInv == Typed /\ Video /\ Turns

LEMMA VNext == VInv /\ [Next]_vars => VInv'
<1>1. ASSUME Video, Turns, UNCHANGED vars PROVE Video' /\ Turns'
    BY <1>1 DEF Video, Running, OnDisk, NoHalfVideo, Bare, Turns, LivePack, vars, subVars, dlVars, removers, packVars
<1> QED
    BY <1>1, TypedNext, DownloadVideo, OthersVideo, DownloadTurns, OthersTurns, PackTurns DEF VInv, Next

(* The video part of the invariant; the lists of subtitles are not in it. *)
LEMMA VInvariant == Spec => []VInv
    BY TypedInit, VideoInit, TurnsInit, VNext, PTL DEF Spec, VInv

(* "A playlist that never ends is never left behind" (progressive.py), nor half a file            *)
(* (downloader.py): once _download is through, whatever ended it, what the folder holds of the    *)
(* video is complete and the item is ready.                                                       *)
THEOREM NoHalfVideoIsLeft == Spec => []NoHalfVideo
<1>1. VInv => NoHalfVideo
    BY DEF VInv, Video
<1> QED
    BY <1>1, VInvariant, PTL

(* "Two quick calls must not start two downloads" (_pack_lock in routers/library.py): a pack is    *)
(* created only while none is alive, however many requests and whatever ends the pack in between.  *)
THEOREM PacksTakeTurns == Spec => OnePack
<1>1. VInv /\ [Next]_vars => [packs' > packs => ~LivePack]_vars
    BY OnePackStep DEF VInv, OneStep
<1> QED
    BY <1>1, VInvariant, PTL DEF Spec, OnePack

-----------------------------------------------------------------------------
(* The lists of subtitles.  A candidate whose content is claimed is on its way to the list or on it. *)
Claimed(c) == cand[c].pc \in {"check", "write", "wrote", "save"} \/ c \in Numbers(tracks)

Own ==
    /\ \A c \in Cands : cand[c].snap \subseteq tracks
    /\ \A c \in Numbers(tracks) : cand[c].pc \in {"save", "saved", "none"}
    /\ \A t, u \in tracks : t.default = TRUE /\ u.default = TRUE => t = u
    /\ \A t \in tracks : Lang[t.n] = DefaultLang => \E u \in tracks : u.default = TRUE
    /\ \A c \in Cands : Claimed(c) => <<Lang[c], Content[c]>> \in seen
    /\ \A c, d \in Cands : Claimed(c) /\ Claimed(d) /\ Lang[c] = Lang[d] /\ Content[c] = Content[d] => c = d

RowLists == restarts = 0 => row.tracks \subseteq tracks

(* Nobody has taken anything of the item away, nor will before its video fails. *)
Kept ==
    /\ \/ row.status = "ready"
       \/ row.mode = "subs" /\ row.status = "downloading"
       \/ dl.pc \notin {"out", "failing"} /\ dl.cancel = FALSE
    /\ del.pc = "idle" /\ exp.pc = "idle" /\ restarts = 0
    /\ dl.attempt = 1 \/ row.mode = "file"

(* The job of such an item, its list and its files. *)
Through ==
    /\ job # "cancelling"
    /\ job \in {"over", "pack"} => AllThrough
    /\ job \in {"over", "pack"} /\ faults = 0 => row.tracks = tracks /\ row.subs = FinalStatus

Files ==
    /\ Numbers(tracks) \subseteq folder.vtt
    /\ \A c \in folder.vtt : cand[c].pc = "wrote" \/ c \in Numbers(tracks)
    /\ \A c \in Cands : cand[c].pc = "wrote" => c \in folder.vtt

KeptOK == Kept => Through /\ Files

(* One coroutine or thread moves, and nothing is listed. *)
LEMMA OneMoves ==
    ASSUME Typed, Own, NEW c \in Cands, tracks' = tracks, seen \subseteq seen',
           cand' \in [Cands -> CandType],
           \A d \in Cands : d # c => cand'[d] = cand[d],
           cand'[c].snap \subseteq tracks,
           c \in Numbers(tracks) => cand'[c].pc \in {"save", "saved", "none"},
           cand'[c].pc \in {"check", "write", "wrote", "save"} => cand[c].pc \in {"check", "write", "wrote", "save"}
    PROVE  Own'
<1>1. Numbers(tracks)' = Numbers(tracks) /\ Numbers(tracks) \subseteq Cands
    BY DEF Numbers, Typed, Track
<1>2. \A d \in Cands : Claimed(d)' => Claimed(d)
    BY <1>1 DEF Claimed
<1>3. (\A d \in Cands : cand[d].snap \subseteq tracks)'
    BY DEF Own
<1>4. (\A d \in Numbers(tracks) : cand[d].pc \in {"save", "saved", "none"})'
    BY <1>1 DEF Own
<1>5. /\ (\A t, u \in tracks : t.default = TRUE /\ u.default = TRUE => t = u)'
      /\ (\A t \in tracks : Lang[t.n] = DefaultLang => \E u \in tracks : u.default = TRUE)'
    BY DEF Own
<1>6. /\ (\A d \in Cands : Claimed(d) => <<Lang[d], Content[d]>> \in seen)'
      /\ (\A d, e \in Cands : Claimed(d) /\ Claimed(e) /\ Lang[d] = Lang[e] /\ Content[d] = Content[e] => d = e)'
    BY <1>2 DEF Own
<1> QED
    BY <1>3, <1>4, <1>5, <1>6 DEF Own

LEMMA SubtitleOwn == ASSUME Typed, Own, SubtitleStep PROVE Own'
<1>1. cand \in [Cands -> CandType] /\ tracks \subseteq Track /\ cand' \in [Cands -> CandType]
    BY Records, SubtitleTypes DEF Typed
<1>2. ASSUME NEW c \in Cands, TakeSlot(c) PROVE Own'
  <2>1. cand'[c].pc = "fetch" /\ cand[c].pc = "sem" /\ cand'[c].snap = cand[c].snap
        /\ \A d \in Cands : d # c => cand'[d] = cand[d]
      BY <1>1, <1>2 DEF TakeSlot, CandType
  <2> QED
      BY <1>1, <1>2, <2>1, OneMoves DEF TakeSlot, Own
<1>3. ASSUME NEW c \in Cands, Fetched(c) PROVE Own'
  <2>1. cand[c].pc = "fetch" /\ cand'[c].snap = cand[c].snap /\ tracks' = tracks
        /\ (\A d \in Cands : d # c => cand'[d] = cand[d])
        /\ cand'[c].pc \in {"failed", "dupe", "check"}
        /\ seen \subseteq seen'
      BY <1>1, <1>3 DEF Fetched, CandType
  <2>2. c \notin Numbers(tracks)
      BY <2>1 DEF Own
  <2>3. CASE cand'[c].pc # "check"
      BY <1>1, <2>1, <2>2, <2>3, OneMoves DEF Own
  <2>4. CASE cand'[c].pc = "check"
    <3>1. <<Lang[c], Content[c]>> \notin seen /\ seen' = seen \cup {<<Lang[c], Content[c]>>}
        BY <1>1, <1>3, <2>4 DEF Fetched, CandType
    <3>2. Numbers(tracks)' = Numbers(tracks) /\ Numbers(tracks) \subseteq Cands
        BY <1>1, <2>1 DEF Numbers, Track
    <3>3. \A d \in Cands : Claimed(d)' => Claimed(d) \/ d = c
        BY <2>1, <3>2 DEF Claimed
    <3>4. (\A d \in Cands : Claimed(d) => <<Lang[d], Content[d]>> \in seen)'
        BY <3>1, <3>3 DEF Own
    <3>5. \A d \in Cands : Claimed(d) => <<Lang[d], Content[d]>> # <<Lang[c], Content[c]>>
        BY <3>1 DEF Own
    <3>6. \A d \in Cands : Claimed(d) /\ Lang[d] = Lang[c] => Content[d] # Content[c]
        BY <3>5
    <3>7. (\A d, e \in Cands : Claimed(d) /\ Claimed(e) /\ Lang[d] = Lang[e] /\ Content[d] = Content[e] => d = e)'
        BY <3>3, <3>6 DEF Own
    <3>8. (\A d \in Cands : cand[d].snap \subseteq tracks)'
        BY <2>1 DEF Own
    <3>9. (\A d \in Numbers(tracks) : cand[d].pc \in {"save", "saved", "none"})'
        BY <2>1, <2>2, <3>2 DEF Own
    <3>10. /\ (\A t, u \in tracks : t.default = TRUE /\ u.default = TRUE => t = u)'
           /\ (\A t \in tracks : Lang[t.n] = DefaultLang => \E u \in tracks : u.default = TRUE)'
        BY <2>1 DEF Own
    <3> QED
        BY <3>4, <3>7, <3>8, <3>9, <3>10 DEF Own
  <2> QED
      BY <2>3, <2>4
<1>4. ASSUME NEW c \in Cands, ThreadLooks(c) \/ ThreadWrites(c) \/ TrackFails(c) PROVE Own'
  <2>1. /\ cand[c].pc \in {"check", "write", "error"} /\ cand'[c].snap = cand[c].snap /\ tracks' = tracks
        /\ \A d \in Cands : d # c => cand'[d] = cand[d]
        /\ cand'[c].pc \in {"write", "wrote", "error", "failed"} /\ seen' = seen
        /\ cand[c].pc = "error" => cand'[c].pc = "failed"
      BY <1>1, <1>4 DEF ThreadLooks, ThreadWrites, TrackFails, CandType
  <2>2. c \notin Numbers(tracks)
      BY <2>1 DEF Own
  <2> QED
      BY <1>1, <2>1, <2>2, OneMoves DEF Own
<1>5. ASSUME NEW c \in Cands, TrackReady(c) PROVE Own'
  <2> DEFINE default == Lang[c] = DefaultLang /\ ~\E t \in tracks : t.default
             new == [n |-> c, default |-> default]
  <2>1. default \in BOOLEAN
      OBVIOUS
  <2>2. /\ default = TRUE => \A t \in tracks : t.default # TRUE
        /\ Lang[c] = DefaultLang => default = TRUE \/ \E t \in tracks : t.default = TRUE
      BY <1>1 DEF Track
  <2>3. /\ tracks' = tracks \cup {new} /\ cand' = [cand EXCEPT ![c] = [pc |-> "save", snap |-> tracks']]
        /\ cand[c].pc = "wrote" /\ seen' = seen
      BY <1>5 DEF TrackReady
  <2> HIDE DEF default
  <2>4. new \in Track /\ new.n = c /\ new.default = default
      BY <2>1 DEF Track
  <2> HIDE DEF new
  <2>5. /\ cand'[c].pc = "save" /\ cand'[c].snap = tracks' /\ \A d \in Cands : d # c => cand'[d] = cand[d]
      BY <1>1, <2>3
  <2>6. Numbers(tracks)' = Numbers(tracks) \cup {c} /\ Numbers(tracks) \subseteq Cands
      BY <1>1, <2>3, <2>4 DEF Numbers, Track
  <2>7. \A d \in Cands : Claimed(d)' => Claimed(d)
      BY <2>3, <2>5, <2>6 DEF Claimed
  <2>8. (\A d \in Cands : cand[d].snap \subseteq tracks)'
      BY <2>3, <2>5 DEF Own
  <2>9. (\A d \in Numbers(tracks) : cand[d].pc \in {"save", "saved", "none"})'
      BY <2>5, <2>6 DEF Own
  <2>10. (\A t, u \in tracks : t.default = TRUE /\ u.default = TRUE => t = u)'
      BY <2>2, <2>3, <2>4 DEF Own
  <2>11. (\A t \in tracks : Lang[t.n] = DefaultLang => \E u \in tracks : u.default = TRUE)'
    <3>1. ASSUME NEW t \in tracks, Lang[t.n] = DefaultLang PROVE \E u \in tracks' : u.default = TRUE
        BY <2>3, <3>1 DEF Own
    <3>2. ASSUME Lang[c] = DefaultLang PROVE \E u \in tracks' : u.default = TRUE
        BY <2>2, <2>3, <2>4, <3>2
    <3> QED
        BY <2>3, <2>4, <3>1, <3>2
  <2>12. /\ (\A d \in Cands : Claimed(d) => <<Lang[d], Content[d]>> \in seen)'
         /\ (\A d, e \in Cands : Claimed(d) /\ Claimed(e) /\ Lang[d] = Lang[e] /\ Content[d] = Content[e] => d = e)'
      BY <2>3, <2>7 DEF Own
  <2> QED
      BY <2>8, <2>9, <2>10, <2>11, <2>12 DEF Own
<1>6. ASSUME NEW c \in Cands, Save(c) PROVE Own'
  <2>1. /\ cand'[c].pc = "saved" /\ cand'[c].snap = {} /\ \A d \in Cands : d # c => cand'[d] = cand[d]
        /\ tracks' = tracks /\ seen' = seen
      BY <1>1, <1>6 DEF Save
  <2> QED
      BY <1>1, <2>1, OneMoves
<1>7. CASE FinalSave \/ FinishPack
    BY <1>7 DEF FinalSave, FinishPack, Own, Claimed
<1>8. CASE JobCancelled
  <2>1. /\ tracks' = tracks /\ seen' = seen
        /\ cand' = [c \in Cands |-> IF cand[c].pc \in InThread THEN cand[c] ELSE Idle]
      BY <1>8 DEF JobCancelled
  <2>2. \A c \in Cands : \/ cand'[c] = cand[c] /\ cand[c].pc \in {"check", "write"}
                         \/ cand'[c].pc = "none" /\ cand'[c].snap = {}
      BY <2>1 DEF Idle, InThread
  <2>3. Numbers(tracks)' = Numbers(tracks) /\ Numbers(tracks) \subseteq Cands
      BY <1>1, <2>1 DEF Numbers, Track
  <2>4. \A c \in Cands : Claimed(c)' => Claimed(c)
      BY <2>2, <2>3 DEF Claimed
  <2>5. /\ (\A d \in Cands : cand[d].snap \subseteq tracks)'
        /\ (\A d \in Numbers(tracks) : cand[d].pc \in {"save", "saved", "none"})'
      BY <2>1, <2>2, <2>3 DEF Own
  <2>6. /\ (\A t, u \in tracks : t.default = TRUE /\ u.default = TRUE => t = u)'
        /\ (\A t \in tracks : Lang[t.n] = DefaultLang => \E u \in tracks : u.default = TRUE)'
      BY <2>1 DEF Own
  <2>7. /\ (\A d \in Cands : Claimed(d) => <<Lang[d], Content[d]>> \in seen)'
        /\ (\A d, e \in Cands : Claimed(d) /\ Claimed(e) /\ Lang[d] = Lang[e] /\ Content[d] = Content[e] => d = e)'
      BY <2>1, <2>4 DEF Own
  <2> QED
      BY <2>5, <2>6, <2>7 DEF Own
<1> QED
    BY <1>2, <1>3, <1>4, <1>5, <1>6, <1>7, <1>8 DEF SubtitleStep

(* A new plan, or none: nothing is listed or claimed. *)
LEMMA StartedOwn == ASSUME NEW plan, tracks' = {}, cand' = Started(plan) PROVE Own'
<1>1. Numbers(tracks)' = {}
    BY DEF Numbers
<1>2. \A c \in Cands : cand'[c].pc \in {"sem", "none"} /\ cand'[c].snap = {}
    BY DEF Started, Idle
<1> QED
    BY <1>1, <1>2 DEF Own, Claimed

LEMMA OwnNext == ASSUME Typed, Own, [Next]_vars PROVE Own'
<1>1. ASSUME UNCHANGED <<cand, tracks, seen>> PROVE Own'
    BY <1>1 DEF Own, Claimed
<1>2. ASSUME NEW r \in Clients, PackCreates(r) PROVE Own'
    BY <1>2, PackCreatesFacts, StartedOwn
<1>3. CASE Restart
    BY <1>3, StartedOwn DEF Restart
<1>4. \/ SubtitleStep \/ Restart \/ \E r \in Clients : PackCreates(r)
      \/ UNCHANGED <<cand, tracks, seen>>
    BY DEF Next, SubsStep, DownloadStep, FfmpegWrites, Begin, Probe, MonitorScans, MonitorCommits, Check, Ready,
           FailCommit, FileFetch, DownloadCancelled, DeleteBegins, DeleteCommit, Tick, ExpireBegins, ExpireCommit,
           PackStep, PackAsk, PackLooks, Untouched, vars, subVars
<1> QED
    BY <1>1, <1>2, <1>3, <1>4, SubtitleOwn

LEMMA RowListsNext == ASSUME Typed, Own, RowLists, [Next]_vars PROVE RowLists'
<1>1. restarts \in Nat
    BY DEF Typed
<1>2. ASSUME tracks' = tracks, restarts' = restarts, row'.tracks \subseteq row.tracks PROVE RowLists'
    BY <1>2 DEF RowLists
<1>3. CASE SubsStep
  <2>1. SubtitleStep /\ restarts' = restarts
      BY <1>3 DEF SubsStep
  <2>2. ASSUME NEW c \in Cands, Save(c) PROVE RowLists'
    <3>1. cand[c].snap \in SUBSET Track /\ cand[c].snap \subseteq tracks /\ tracks' = tracks
        BY <2>2, Records DEF CandType, Own, Save
    <3>2. row' = row \/ row' = Saved(cand[c].snap, "pending")
        BY <2>2 DEF Save
    <3> QED
        BY <1>2, <2>1, <3>1, <3>2, SavedFacts DEF RowLists
  <2>3. CASE FinalSave
    <3>1. tracks \in SUBSET Track /\ tracks' = tracks /\ FinalStatus \in {"none", "pending", "partial", "done"}
        BY <2>3 DEF Typed, FinalSave, FinalStatus
    <3>2. row' = row \/ row' = Saved(tracks, FinalStatus)
        BY <2>3 DEF FinalSave
    <3> QED
        BY <1>2, <2>1, <3>1, <3>2, SavedFacts DEF RowLists
  <2>4. CASE FinishPack
    <3>1. row'.tracks = row.tracks
        BY <2>4, Records DEF FinishPack, RowType
    <3> QED
        BY <1>2, <2>1, <2>4, <3>1 DEF FinishPack
  <2>5. CASE row' = row /\ tracks \subseteq tracks'
      BY <2>1, <2>5 DEF RowLists
  <2>6. \/ \E c \in Cands : Save(c)
        \/ FinalSave \/ FinishPack
        \/ row' = row /\ tracks \subseteq tracks'
      BY <2>1 DEF SubtitleStep, TakeSlot, Fetched, ThreadLooks, ThreadWrites, TrackReady, TrackFails, JobCancelled
  <2> QED
      BY <2>2, <2>3, <2>4, <2>5, <2>6
<1>4. CASE DownloadStep \/ FfmpegWrites
  <2>1. UNCHANGED <<tracks, restarts>>
      BY <1>4 DEF DownloadStep, FfmpegWrites, Begin, Probe, MonitorScans, MonitorCommits, Check, Ready, FailCommit,
                  FileFetch, DownloadCancelled, Untouched
  <2>2. row'.tracks = row.tracks
    <3>1. CASE Begin
        BY <3>1, BeginFacts
    <3>2. CASE MonitorCommits
        BY <3>2, MonitorFacts
    <3>3. CASE Ready
        BY <3>3, ReadyFacts
    <3>4. CASE FailCommit
        BY <3>4, FailCommitFacts
    <3>5. CASE Probe \/ MonitorScans \/ Check \/ FileFetch \/ DownloadCancelled \/ FfmpegWrites
        BY <3>5 DEF Probe, MonitorScans, Check, FileFetch, DownloadCancelled, FfmpegWrites
    <3> QED
        BY <1>4, <3>1, <3>2, <3>3, <3>4, <3>5 DEF DownloadStep
  <2> QED
      BY <1>2, <2>1, <2>2
<1>5. CASE DeleteBegins \/ ExpireBegins \/ Tick
    BY <1>2, <1>5, TickFacts DEF DeleteBegins, ExpireBegins, Tick
<1>6. CASE DeleteCommit \/ ExpireCommit
    BY <1>2, <1>6, RemovedRow DEF DeleteCommit, ExpireCommit, Typed
<1>7. ASSUME NEW r \in Clients, PackAsk(r) \/ PackLooks(r) PROVE RowLists'
    BY <1>2, <1>7 DEF PackAsk, PackLooks, subVars
<1>8. ASSUME NEW r \in Clients, PackCreates(r) PROVE RowLists'
    BY <1>8, PackCreatesFacts DEF RowLists
<1>9. CASE Restart
    BY <1>1, <1>9 DEF Restart, RowLists
<1>10. CASE UNCHANGED vars
    BY <1>2, <1>10 DEF vars, subVars
<1> QED
    BY <1>3, <1>4, <1>5, <1>6, <1>7, <1>8, <1>9, <1>10 DEF Next, PackStep

-----------------------------------------------------------------------------
(* A kept item: its job ... *)
LEMMA SubtitleKept ==
    ASSUME Typed, Video, Own, KeptOK, SubsStep
    PROVE  KeptOK'
<1>1. UNCHANGED <<dl, del, exp, restarts>> /\ SubtitleStep
    BY DEF SubsStep, dlVars, removers
<1>2. SUFFICES ASSUME Kept' PROVE Through' /\ Files'
    BY DEF KeptOK
<1>3. cand \in [Cands -> CandType] /\ row \in RowType /\ faults \in Nat /\ folder \in FolderType
      /\ tracks \subseteq Track
    BY Records DEF Typed
<1>4. Kept
    BY <1>1, <1>2, SubtitleRow DEF Kept, Video, Running
<1>5. Through /\ Files
    BY <1>4 DEF KeptOK
<1>6. row.status # "gone"
    BY <1>4 DEF Kept, Video, Running
<1>7. Numbers(tracks) \subseteq Cands
    BY <1>3 DEF Numbers, Track
<1>8. ASSUME NEW c \in Cands, TakeSlot(c) \/ Fetched(c) \/ TrackFails(c) PROVE Through' /\ Files'
  <2>1. /\ job' = "running" /\ UNCHANGED <<tracks, folder>> /\ cand[c].pc # "wrote" /\ cand'[c].pc # "wrote"
        /\ \A d \in Cands : d # c => cand'[d] = cand[d]
      BY <1>3, <1>8 DEF TakeSlot, Fetched, TrackFails, CandType
  <2>2. Numbers(tracks)' = Numbers(tracks)
      BY <2>1 DEF Numbers
  <2> QED
      BY <1>3, <1>5, <2>1, <2>2 DEF Through, Files, FolderType
<1>9. ASSUME NEW c \in Cands, ThreadLooks(c) \/ ThreadWrites(c) PROVE Through' /\ Files'
  <2>1. /\ cand[c].pc \in {"check", "write"} /\ UNCHANGED <<job, tracks>>
        /\ \A d \in Cands : d # c => cand'[d] = cand[d]
        /\ \/ folder' = folder /\ cand'[c].pc # "wrote"
           \/ folder'.vtt = folder.vtt \cup {c} /\ cand'[c].pc = "wrote"
      BY <1>3, <1>9 DEF ThreadLooks, ThreadWrites, CandType, FolderType
  <2>2. job' = "running"
    <3>1. job \in {"running", "pack", "cancelling", "over"}
        BY DEF Typed, TypeOK
    <3> QED
        BY <1>5, <2>1, <3>1 DEF Through, AllThrough
  <2>3. Numbers(tracks)' = Numbers(tracks)
      BY <2>1 DEF Numbers
  <2> QED
      BY <1>3, <1>5, <2>1, <2>2, <2>3 DEF Through, Files, FolderType
<1>10. ASSUME NEW c \in Cands, TrackReady(c) PROVE Through' /\ Files'
  <2>1. /\ job' = "running" /\ folder' = folder /\ cand[c].pc = "wrote" /\ cand'[c].pc = "save"
        /\ \A d \in Cands : d # c => cand'[d] = cand[d]
      BY <1>3, <1>10 DEF TrackReady
  <2>2. Numbers(tracks)' = Numbers(tracks) \cup {c}
    <3> DEFINE default == Lang[c] = DefaultLang /\ ~\E t \in tracks : t.default
               new == [n |-> c, default |-> default]
    <3>1. tracks' = tracks \cup {new}
        BY <1>10 DEF TrackReady
    <3> HIDE DEF default
    <3>2. new.n = c
        OBVIOUS
    <3> HIDE DEF new
    <3> QED
        BY <3>1, <3>2 DEF Numbers
  <2> QED
      BY <1>3, <1>5, <2>1, <2>2 DEF Through, Files, FolderType
<1>11. ASSUME NEW c \in Cands, Save(c) PROVE Through' /\ Files'
  <2>1. /\ job = "running" /\ UNCHANGED <<job, tracks, folder>> /\ cand[c].pc = "save" /\ cand'[c].pc = "saved"
        /\ \A d \in Cands : d # c => cand'[d] = cand[d]
      BY <1>3, <1>5, <1>11 DEF Save, Through
  <2>2. Numbers(tracks)' = Numbers(tracks)
      BY <2>1 DEF Numbers
  <2> QED
      BY <1>3, <1>5, <2>1, <2>2 DEF Through, Files, FolderType
<1>12. CASE FinalSave
  <2>1. UNCHANGED <<tracks, folder, cand>> /\ AllThrough /\ job' # "cancelling"
      BY <1>12 DEF FinalSave
  <2>2. Files' /\ AllThrough' /\ FinalStatus' = FinalStatus
      BY <1>5, <2>1 DEF Files, Numbers, AllThrough, FinalStatus
  <2>3. ASSUME faults' = 0 PROVE row'.tracks = tracks /\ row'.subs = FinalStatus
    <3>1. row' = Saved(tracks, FinalStatus)
        BY <1>3, <1>12, <2>3 DEF FinalSave
    <3>2. tracks \in SUBSET Track /\ FinalStatus \in {"none", "pending", "partial", "done"}
        BY <1>3 DEF FinalStatus
    <3> QED
        BY <1>6, <3>1, <3>2, SavedFacts
  <2> QED
      BY <2>1, <2>2, <2>3 DEF Through
<1>13. CASE FinishPack
  <2>1. UNCHANGED <<tracks, folder, cand>> /\ job = "pack" /\ job' = "over" /\ (faults' = 0 => faults = 0)
      BY <1>3, <1>13 DEF FinishPack
  <2>2. Files' /\ (AllThrough' <=> AllThrough) /\ FinalStatus' = FinalStatus
      BY <1>5, <2>1 DEF Files, Numbers, AllThrough, FinalStatus
  <2>3. row'.tracks = row.tracks /\ row'.subs = row.subs
      BY <1>3, <1>13 DEF FinishPack, RowType
  <2> QED
      BY <1>5, <2>1, <2>2, <2>3 DEF Through
<1>14. ~JobCancelled
    BY <1>5 DEF JobCancelled, Through
<1> QED
    BY <1>1, <1>8, <1>9, <1>10, <1>11, <1>12, <1>13, <1>14 DEF SubtitleStep

(* ... whatever does not touch it ... *)
LEMMA KeptAlone ==
    ASSUME KeptOK, Kept' => Kept,
           Kept' => job' = job /\ row'.tracks = row.tracks /\ row'.subs = row.subs /\ folder'.vtt = folder.vtt
                    /\ (faults' = 0 => faults = 0),
           UNCHANGED <<cand, tracks>>
    PROVE  KeptOK'
<1>1. SUFFICES ASSUME Kept' PROVE Through' /\ Files'
    BY DEF KeptOK
<1>2. Through /\ Files
    BY <1>1 DEF KeptOK
<1>3. Numbers(tracks)' = Numbers(tracks) /\ (AllThrough' <=> AllThrough) /\ FinalStatus' = FinalStatus
    BY DEF Numbers, AllThrough, FinalStatus
<1> QED
    BY <1>1, <1>2, <1>3 DEF Through, Files

(* ... whatever ends it ... *)
LEMMA KeptEnds == ASSUME ~Kept' PROVE KeptOK'
    BY DEF KeptOK

LEMMA FailedNotKept ==
    ASSUME Typed, Video, dl.pc # "out", dl'.pc \in {"out", "failing"},
           row'.mode = row.mode, row'.status \in {row.status, "failed"}
    PROVE  ~Kept'
    BY DEF Video, Running, Kept

LEMMA DownloadKept == ASSUME Typed, Video, KeptOK, DownloadStep \/ FfmpegWrites PROVE KeptOK'
<1>1. UNCHANGED <<cand, tracks, del, exp, restarts>>
    BY DEF DownloadStep, FfmpegWrites, Begin, Probe, MonitorScans, MonitorCommits, Check, Ready, FailCommit,
           FileFetch, DownloadCancelled, Untouched, removers
<1>2. dl.cancel \in BOOLEAN /\ dl \in DlType
    BY Records DEF Typed, TypeOK
<1>3. ASSUME GiveUp, dl.pc # "out", row'.mode = row.mode, row'.status = row.status PROVE KeptOK'
    BY <1>3, GiveUpFacts, FailedNotKept, KeptEnds
<1>4. CASE Begin
  <2>1. dl.pc = "queued" /\ dl.cancel = FALSE /\ UNCHANGED <<job, faults>>
      BY <1>2, <1>4 DEF Begin
  <2>2. Kept' => Kept
      BY <1>1, <1>4, <2>1, BeginFacts DEF Kept, Video, Running
  <2> QED
      BY <1>1, <1>4, <2>1, <2>2, BeginFacts, KeptAlone
<1>5. CASE Probe
  <2>1. dl.pc = "probe" /\ dl.cancel = FALSE /\ row' = row /\ faults' = faults
      BY <1>2, <1>5 DEF Probe
  <2>2. CASE DlMoves("run") /\ UNCHANGED <<folder, job>>
    <3>1. Kept' => Kept
        BY <1>1, <2>1, <2>2 DEF Kept, DlMoves, SameSource
    <3> QED
        BY <1>1, <2>1, <2>2, <3>1, KeptAlone
  <2>3. CASE TryAgain
    <3>1. ~Kept'
        BY <2>1, <2>3, TryAgainFacts DEF Kept, Video, Running
    <3> QED
        BY <3>1, KeptEnds
  <2> QED
      BY <1>3, <1>5, <2>1, <2>2, <2>3, ProbeFacts
<1>6. CASE MonitorScans \/ Check
  <2>1. dl.pc = "run" /\ dl.cancel = FALSE /\ row' = row /\ faults' = faults
      BY <1>2, <1>6 DEF MonitorScans, Check
  <2>2. CASE (DlMoves("run") \/ DlMoves("commit")) /\ UNCHANGED <<folder, job>>
    <3>1. Kept' => Kept
        BY <1>1, <2>1, <2>2 DEF Kept, DlMoves, SameSource
    <3> QED
        BY <1>1, <2>1, <2>2, <3>1, KeptAlone
  <2> QED
      BY <1>3, <1>6, <2>1, <2>2, ScanFacts, CheckFacts
<1>7. CASE MonitorCommits
  <2>1. dl.pc = "run" /\ dl.cancel = FALSE
      BY <1>2, <1>7 DEF MonitorCommits
  <2>2. CASE DlMoves("run") /\ UNCHANGED <<folder, job>>
    <3>1. Kept' => Kept
        BY <1>1, <1>7, <2>1, <2>2, MonitorFacts DEF Kept, DlMoves, SameSource
    <3> QED
        BY <1>1, <1>7, <2>1, <2>2, <3>1, MonitorFacts, KeptAlone
  <2> QED
      BY <1>3, <1>7, <2>1, <2>2, MonitorFacts
<1>8. CASE Ready
  <2>1. dl.pc = "commit" /\ dl.cancel = FALSE
      BY <1>2, <1>8 DEF Ready
  <2>2. CASE DlMoves("out") /\ UNCHANGED <<folder, job>>
    <3>1. Kept' => Kept
        BY <1>1, <1>8, <2>1, <2>2, ReadyFacts DEF Kept, DlMoves, SameSource
    <3> QED
        BY <1>1, <1>8, <2>1, <2>2, <3>1, ReadyFacts, KeptAlone
  <2> QED
      BY <1>3, <1>8, <2>1, <2>2, ReadyFacts
<1>9. CASE FailCommit
  <2>1. dl.pc = "failing"
      BY <1>9 DEF FailCommit
  <2>2. row'.mode = row.mode /\ row'.status \in {row.status, "failed"} /\ dl'.pc = "out"
      BY <1>9, FailCommitFacts DEF DlMoves
  <2> QED
      BY <2>1, <2>2, FailedNotKept, KeptEnds
<1>10. CASE FileFetch
  <2>1. dl.pc = "fetch" /\ dl.cancel = FALSE /\ row' = row /\ faults' = faults /\ row.mode = "file"
      BY <1>2, <1>10 DEF FileFetch, Video, Running
  <2>2. CASE /\ folder'.vtt = folder.vtt /\ job' = job
             /\ dl'.pc \in {"fetch", "commit"} /\ dl'.cancel = dl.cancel
    <3>1. Kept' => Kept
        BY <1>1, <2>1, <2>2 DEF Kept
    <3> QED
        BY <1>1, <2>1, <2>2, <3>1, KeptAlone
  <2> QED
      BY <1>3, <1>10, <2>1, <2>2, FetchFacts DEF DlMoves, SameSource
<1>11. CASE DownloadCancelled
  <2>1. dl.pc # "out" /\ row' = row
      BY <1>11 DEF DownloadCancelled
  <2> QED
      BY <1>11, <2>1, CancelledFacts, FailedNotKept, KeptEnds
<1>12. CASE FfmpegWrites
  <2>1. Kept' => Kept
      BY <1>1, <1>12, FfmpegFacts DEF Kept
  <2> QED
      BY <1>1, <1>12, <2>1, FfmpegFacts, KeptAlone
<1> QED
    BY <1>4, <1>5, <1>6, <1>7, <1>8, <1>9, <1>10, <1>11, <1>12 DEF DownloadStep

LEMMA OthersKept ==
    ASSUME Typed, Video, Turns, KeptOK,
           DeleteBegins \/ DeleteCommit \/ Tick \/ ExpireBegins \/ ExpireCommit \/ PackStep \/ Restart
    PROVE  KeptOK'
<1>1. CASE DeleteBegins \/ ExpireBegins
  <2>1. ~Kept'
      BY <1>1 DEF DeleteBegins, ExpireBegins, Kept
  <2> QED
      BY <2>1, KeptEnds
<1>2. CASE DeleteCommit \/ ExpireCommit
  <2>1. dl' = dl /\ (del.pc = "commit" \/ exp.pc = "commit") /\ (dl.cancel = FALSE)
    <3>1. dl.cancel \in BOOLEAN
        BY DEF Typed, TypeOK
    <3> QED
        BY <1>2, <3>1 DEF DeleteCommit, ExpireCommit, Delivered, dlVars
  <2>2. dl.pc = "out"
      BY <2>1 DEF Video, Running
  <2>3. row'.status \in {"deleted", "expired"}
      BY <1>2, RemovedRow DEF DeleteCommit, ExpireCommit, Typed
  <2>4. ~Kept'
      BY <2>1, <2>2, <2>3 DEF Kept
  <2> QED
      BY <2>4, KeptEnds
<1>3. CASE Tick
  <2>1. UNCHANGED <<folder, job, cand, tracks, faults, dl, del, exp, restarts>>
      BY <1>3 DEF Tick, dlVars, removers
  <2>2. Kept' => Kept
      BY <1>3, <2>1, TickFacts DEF Kept
  <2> QED
      BY <1>3, <2>1, <2>2, TickFacts, KeptAlone
<1>4. ASSUME NEW r \in Clients, PackAsk(r) \/ PackLooks(r) PROVE KeptOK'
  <2>1. UNCHANGED <<row, folder, job, cand, tracks, faults, dl, del, exp, restarts>>
      BY <1>4 DEF PackAsk, PackLooks, subVars, dlVars, removers
  <2>2. Kept' => Kept
      BY <2>1 DEF Kept
  <2> QED
      BY <2>1, <2>2, KeptAlone
<1>5. ASSUME NEW r \in Clients, PackCreates(r) PROVE KeptOK'
  <2>1. PICK plan \in Plans :
          /\ row'.tracks = {} /\ row'.subs = IF plan = {} THEN "none" ELSE "pending"
          /\ folder'.vtt = {}
          /\ job' = IF plan = {} THEN "over" ELSE "running"
          /\ cand' = Started(plan) /\ tracks' = {}
      BY <1>5, PackCreatesFacts
  <2>2. \A c \in Cands : cand'[c].pc = IF c \in plan THEN "sem" ELSE "none"
      BY <2>1 DEF Started, Idle
  <2>3. Files'
      BY <2>1, <2>2 DEF Files, Numbers
  <2>4. Through'
      BY <2>1, <2>2 DEF Through, AllThrough, FinalStatus
  <2> QED
      BY <2>3, <2>4 DEF KeptOK
<1>6. CASE Restart
  <2>1. restarts' # 0
      BY <1>6 DEF Restart, Typed
  <2> QED
      BY <2>1, KeptEnds DEF Kept
<1> QED
    BY <1>1, <1>2, <1>3, <1>4, <1>5, <1>6 DEF PackStep

LEMMA ListsInit == Init => Own /\ RowLists /\ KeptOK
<1>1. ASSUME Init
      PROVE  \E plan : /\ cand = Started(plan) /\ job = IF plan = {} THEN "over" ELSE "running"
                       /\ row.subs = Begun(plan) \/ row.status = "gone"
                       /\ row.tracks = {} /\ folder.vtt = {}
                       /\ row.status = "gone" => dl.pc = "out"
  <2>1. CASE \E plan \in Plans, mode \in {"hls", "file"}, source \in Sources :
               /\ row = [NoRow EXCEPT !.mode = mode, !.status = "queued", !.subs = Begun(plan)]
               /\ folder = EmptyFolder
               /\ job = IF plan = {} THEN "over" ELSE "running"
               /\ cand = Started(plan)
      BY <2>1 DEF NoRow, EmptyFolder, NoFolder
  <2>2. CASE row = [NoRow EXCEPT !.mode = "subs"] /\ folder = NoFolder /\ job = "over" /\ dl = NoDownload
             /\ cand = Started({})
      BY <2>2 DEF NoRow, NoFolder, NoDownload
  <2> QED
      BY <1>1, <2>1, <2>2 DEF Init
<1>2. ASSUME Init PROVE tracks = {} /\ seen = {}
    BY <1>2 DEF Init
<1>3. ASSUME NEW plan, cand = Started(plan), job = IF plan = {} THEN "over" ELSE "running",
             row.subs = Begun(plan) \/ row.status = "gone", row.tracks = {}, folder.vtt = {}, tracks = {},
             row.status = "gone" => dl.pc = "out"
      PROVE  Own /\ RowLists /\ KeptOK
  <2>1. \A c \in Cands : cand[c].pc = (IF c \in plan THEN "sem" ELSE "none") /\ cand[c].snap = {}
      BY <1>3 DEF Started, Idle
  <2>2. Numbers(tracks) = {}
      BY <1>3 DEF Numbers
  <2>3. Own /\ RowLists
      BY <1>3, <2>1, <2>2 DEF Own, Claimed, RowLists
  <2>4. Files
      BY <1>3, <2>1, <2>2 DEF Files
  <2>5. Kept => row.status # "gone"
      BY <1>3 DEF Kept
  <2>6. row.status # "gone" => Through
      BY <1>3, <2>1 DEF Through, AllThrough, FinalStatus, Begun
  <2> QED
      BY <2>3, <2>4, <2>5, <2>6 DEF KeptOK
<1> QED
    BY <1>1, <1>2, <1>3

IInv == VInv /\ Own /\ RowLists /\ KeptOK

LEMMA IInvNext == IInv /\ [Next]_vars => IInv'
<1>1. ASSUME IInv, [Next]_vars PROVE VInv' /\ Own' /\ RowLists'
    BY <1>1, VNext, OwnNext, RowListsNext DEF IInv, VInv
<1>2. ASSUME KeptOK, UNCHANGED vars PROVE KeptOK'
  <2>1. UNCHANGED <<row, folder, job, cand, tracks, faults, dl, del, exp, restarts>>
      BY <1>2 DEF vars, subVars, dlVars, removers
  <2>2. Kept' => Kept
      BY <2>1 DEF Kept
  <2> QED
      BY <1>2, <2>1, <2>2, KeptAlone
<1> QED
    BY <1>1, <1>2, SubtitleKept, DownloadKept, OthersKept DEF IInv, VInv, Next

(* What a standing item offers of subtitles has its files in the folder, whichever order run_sub-  *)
(* titles' threads and saves take and whatever the download does beside them; and without faults   *)
(* no subtitle that was written goes missing from the row.                                         *)
THEOREM TracksAreOnDisk == Spec => []TracksAreFiles
<1>1. ASSUME IInv PROVE OfferedTracksExist
  <2>1. SUFFICES ASSUME Standing, dl.attempt = 1 \/ row.mode = "file"
                 PROVE  Numbers(row.tracks) \subseteq folder.vtt
      BY DEF OfferedTracksExist
  <2>2. Kept
      BY <2>1 DEF Standing, Kept
  <2>3. row.tracks \subseteq tracks /\ Numbers(tracks) \subseteq folder.vtt
      BY <1>1, <2>2 DEF IInv, RowLists, KeptOK, Files, Kept
  <2> QED
      BY <2>3 DEF Numbers
<1>2. ASSUME IInv PROVE NothingLost
  <2>1. SUFFICES ASSUME Standing, job = "over", faults = 0, dl.attempt = 1 \/ row.mode = "file"
                 PROVE  /\ Numbers(row.tracks) = folder.vtt
                        /\ \A t, u \in row.tracks : /\ t.default /\ u.default => t = u
                                                    /\ Lang[t.n] = Lang[u.n] /\ Content[t.n] = Content[u.n] => t.n = u.n
                        /\ \A t \in row.tracks : Lang[t.n] = DefaultLang => \E u \in row.tracks : u.default
                        /\ row.subs = "done" => \A c \in Cands : cand[c].pc # "failed"
      BY DEF NothingLost
  <2>2. Kept
      BY <2>1 DEF Standing, Kept
  <2>3. Through /\ Files /\ Own /\ tracks \subseteq Track /\ folder \in FolderType
    <3>1. Typed
        BY <1>2 DEF IInv, VInv
    <3> QED
        BY <1>2, <2>2, <3>1, Records DEF IInv, KeptOK, Typed
  <2>4. row.tracks = tracks /\ row.subs = FinalStatus /\ AllThrough
      BY <2>1, <2>3 DEF Through
  <2>5. Numbers(tracks) = folder.vtt
      BY <2>3, <2>4 DEF Files, AllThrough, FolderType
  <2>6. \A t \in tracks : t.n \in Cands /\ t.n \in Numbers(tracks) /\ t.default \in BOOLEAN
      BY <2>3 DEF Numbers, Track
  <2>7. \A t, u \in tracks : Lang[t.n] = Lang[u.n] /\ Content[t.n] = Content[u.n] => t.n = u.n
      BY <2>3, <2>6 DEF Own, Claimed
  <2>8. \A t, u \in tracks : t.default /\ u.default => t = u
      BY <2>3, <2>6 DEF Own
  <2>9. \A t \in tracks : Lang[t.n] = DefaultLang => \E u \in tracks : u.default
      BY <2>3, <2>6 DEF Own
  <2>10. row.subs = "done" => \A c \in Cands : cand[c].pc # "failed"
      BY <2>4 DEF FinalStatus
  <2> QED
      BY <2>4, <2>5, <2>7, <2>8, <2>9, <2>10
<1>3. IInv => TracksAreFiles
    BY <1>1, <1>2 DEF TracksAreFiles
<1>4. Init => IInv
    BY TypedInit, VideoInit, TurnsInit, ListsInit DEF IInv, VInv
<1> QED
    BY <1>3, <1>4, IInvNext, PTL DEF Spec
=============================================================================
