------------------------------ MODULE Library -------------------------------
(***************************************************************************)
(* The video library: what happens to the items of one download, that is   *)
(* of one stream, quality, mode and API key (app/routers/library.py:       *)
(* request_library, delete_library_item; app/downloader.py; app/library.py;*)
(* the maintenance jobs of app/routers/admin_panel.py).                    *)
(*                                                                         *)
(* An item is a row, a folder and, for a while, a coroutine _download.     *)
(* Requests, the download, the DELETE endpoint, the cleanup loop and the   *)
(* admin's jobs all change row and folder in steps of their own, and none  *)
(* of them takes a lock.                                                   *)
(***************************************************************************)
EXTENDS Naturals, FiniteSets

CONSTANTS
    Items,         \* the ids, in the order in which they are handed out
    Clients,       \* requests for this download that are handled at the same time
    Ttls,          \* the ttl_hours they ask for
    Mode,          \* "file" or "hls" (progressive)
    Slots,         \* settings.library_concurrency
    Admin,         \* the maintenance jobs that are used
    MaxFaults,     \* bound: database commits that fail
    MaxRestarts,   \* bound: crashes of the server
    MaxTroubles    \* bound: of both, and of cancel_downloads, together

ASSUME ItemsAssumption == Items \subseteq Nat /\ IsFiniteSet(Items)
ASSUME TtlsAssumption == Ttls \subseteq Nat \ {0}
ASSUME SlotsAssumption == Slots \in Nat \ {0}
ASSUME ModeAssumption == Mode \in {"file", "hls"}
ASSUME AdminAssumption == Admin \subseteq {"sweep_orphans", "forget_finished", "clear_history", "cancel_downloads"}
ASSUME BoundsAssumption == {MaxFaults, MaxRestarts, MaxTroubles} \subseteq Nat

VARIABLES
    row,       \* row[i]: the library_items row; left = hours until delete_at, 0 when that is past
    folder,    \* folder[i]: "none", "part" or "whole" (with the finished video)
    dl,        \* dl[i]: the coroutine _download, with the ttl_hours of the row it loaded
    dead,      \* Stream.dead
    rq,        \* rq[c]: request_library between its select and its commit
    deleting,  \* the items whose DELETE is under way
    expiring,  \* the items expire_library has selected and not committed yet
    sweep,     \* sweep_orphans
    clear,     \* the clear_history job, with the ids it has read
    faults, restarts,
    abandoned  \* bookkeeping: items whose download cancel_downloads cancelled

boundVars == <<faults, restarts, abandoned>>
vars == <<row, folder, dl, dead, rq, deleting, expiring, sweep, clear, boundVars>>

(* models.py, and "none" before, "forgotten" after the row exists *)
Statuses == {"none", "queued", "downloading", "ready", "failed", "expired", "deleted", "forgotten"}

NoRow == [status |-> "none", ttl |-> 0, left |-> 0, playable |-> FALSE]
NoDownload == [pc |-> "none", ttl |-> 0, cancel |-> FALSE]
NoRequest == [pc |-> "idle", item |-> 0, ttl |-> 0, left |-> 0]

Init ==
    /\ row = [i \in Items |-> NoRow]
    /\ folder = [i \in Items |-> "none"]
    /\ dl = [i \in Items |-> NoDownload]
    /\ dead = FALSE
    /\ rq = [c \in Clients |-> NoRequest]
    /\ deleting = {}
    /\ expiring = {}
    /\ sweep = [pc |-> "off", keep |-> {}]
    /\ clear = [on |-> FALSE, ids |-> {}]
    /\ faults = 0 /\ restarts = 0 /\ abandoned = {}

With(status) == {i \in Items : row[i].status \in status}
Active == {"queued", "downloading"}
Exists(i) == row[i].status \notin {"none", "forgotten"}

(* remove_item_dir for all of X *)
Without(X) == [i \in Items |-> IF i \in X THEN "none" ELSE folder[i]]

TroublesLeft == faults + restarts + (IF abandoned = {} THEN 0 ELSE 1) < MaxTroubles

(* A commit that touches the rows of X: refused by the database, or by the ORM for a row that is gone. *)
CommitFails(X) ==
    \/ (\E i \in X : ~Exists(i)) /\ UNCHANGED faults
    \/ faults < MaxFaults /\ TroublesLeft /\ faults' = faults + 1

-----------------------------------------------------------------------------
(* POST /v1/tasks/{id}/library *)

Latest(X) == CHOOSE i \in X : \A k \in X : k <= i

(* The newest live item of this download, unless its time is up and cleanup just has not run. *)
Reusable ==
    LET live == With(Active \cup {"ready"})
    IN  {i \in live : i = Latest(live) /\ ~(row[i].status = "ready" /\ row[i].left = 0)}

(* Up to the commit: reuse that item and extend its time, or make a new one. *)
RequestFetch(c, ttl) ==
    /\ rq[c].pc = "idle"
    /\ ~dead
    /\ IF Reusable = {}
       THEN rq' = [rq EXCEPT ![c] = [pc |-> "create", item |-> 0, ttl |-> ttl, left |-> 0]]
       ELSE \E i \in Reusable :
              rq' = [rq EXCEPT ![c] =
                       [pc |-> "extend", item |-> i,
                        ttl |-> IF ttl > row[i].ttl THEN ttl ELSE 0,
                        left |-> IF row[i].status = "ready" /\ row[i].left < ttl THEN ttl ELSE 0]]
    /\ UNCHANGED <<row, folder, dl, dead, deleting, expiring, sweep, clear, boundVars>>

(* The commit of a reuse writes the attributes that changed, 0 = unchanged. *)
RequestExtend(c) ==
    /\ rq[c].pc = "extend"
    /\ LET i == rq[c].item
       IN  /\ Exists(i)
           /\ row' = [row EXCEPT ![i].ttl = IF rq[c].ttl > 0 THEN rq[c].ttl ELSE @,
                                 ![i].left = IF rq[c].left > 0 THEN rq[c].left ELSE @]
    /\ rq' = [rq EXCEPT ![c] = NoRequest]
    /\ UNCHANGED <<folder, dl, dead, deleting, expiring, sweep, clear, boundVars>>

(* The commit of a new item; its folder is made and its download started at once. *)
RequestCreate(c) ==
    /\ rq[c].pc = "create"
    /\ \E i \in With({"none"}) :
        /\ \A k \in With({"none"}) : i <= k
        /\ row' = [row EXCEPT ![i] = [status |-> "queued", ttl |-> rq[c].ttl, left |-> 0, playable |-> FALSE]]
        /\ folder' = [folder EXCEPT ![i] = "part"]
        /\ dl' = [dl EXCEPT ![i] = [NoDownload EXCEPT !.pc = "wait"]]
    /\ rq' = [rq EXCEPT ![c] = NoRequest]
    /\ UNCHANGED <<dead, deleting, expiring, sweep, clear, boundVars>>

RequestFails(c) ==
    /\ rq[c].pc # "idle"
    /\ CommitFails(IF rq[c].pc = "extend" THEN {rq[c].item} ELSE {})
    /\ rq' = [rq EXCEPT ![c] = NoRequest]
    /\ UNCHANGED <<row, folder, dl, dead, deleting, expiring, sweep, clear, restarts, abandoned>>

-----------------------------------------------------------------------------
(* _download *)

Runs(i, pc) == dl[i].pc = pc /\ ~dl[i].cancel

HoldsSlot == {i \in Items : dl[i].pc \notin {"none", "wait"}}

(* The semaphore lets it in. *)
TakeSlot(i) ==
    /\ Runs(i, "wait")
    /\ Cardinality(HoldsSlot) < Slots
    /\ dl' = [dl EXCEPT ![i].pc = "load"]
    /\ UNCHANGED <<row, folder, dead, rq, deleting, expiring, sweep, clear, boundVars>>

(* It reads its row, and from now on works with this copy of it. *)
LoadItem(i) ==
    /\ Runs(i, "load")
    /\ dl' = [dl EXCEPT ![i] = IF row[i].status = "queued"
                               THEN [@ EXCEPT !.pc = "begin", !.ttl = row[i].ttl] ELSE NoDownload]
    /\ UNCHANGED <<row, folder, dead, rq, deleting, expiring, sweep, clear, boundVars>>

(* "downloading" is committed and the folder is there (made again if a sweep took it meanwhile, which *)
(* is over by now).                                                                                    *)
Begin(i) ==
    /\ Runs(i, "begin")
    /\ Exists(i)
    /\ sweep.pc # "remove" \/ i \in sweep.keep
    /\ row' = [row EXCEPT ![i].status = "downloading"]
    /\ folder' = [folder EXCEPT ![i] = "part"]
    /\ dl' = [dl EXCEPT ![i].pc = "fetch"]
    /\ UNCHANGED <<dead, rq, deleting, expiring, sweep, clear, boundVars>>

(* That commit is outside the inner try: the coroutine ends. *)
BeginFails(i) ==
    /\ Runs(i, "begin")
    /\ CommitFails({i})
    /\ dl' = [dl EXCEPT ![i] = NoDownload]
    /\ UNCHANGED <<row, folder, dead, rq, deleting, expiring, sweep, clear, restarts, abandoned>>

(* on_update: enough segments are there. *)
BecomesPlayable(i) ==
    /\ Mode = "hls"
    /\ Runs(i, "fetch")
    /\ Exists(i)
    /\ row' = [row EXCEPT ![i].playable = TRUE]
    /\ UNCHANGED <<folder, dl, dead, rq, deleting, expiring, sweep, clear, boundVars>>

(* Everything has arrived: the file gets its final name. *)
Fetched(i) ==
    /\ Runs(i, "fetch")
    /\ folder[i] # "none"
    /\ folder' = [folder EXCEPT ![i] = "whole"]
    /\ dl' = [dl EXCEPT ![i].pc = "store"]
    /\ UNCHANGED <<row, dead, rq, deleting, expiring, sweep, clear, boundVars>>

(* What the commit under way in _download makes of the row. *)
Stored(i) ==
    CASE dl[i].pc = "begin"   -> [row[i] EXCEPT !.status = "downloading"]
      [] dl[i].pc = "store"   -> [row[i] EXCEPT !.status = "ready", !.left = dl[i].ttl,
                                                !.playable = @ \/ Mode = "hls"]
      [] dl[i].pc = "failing" -> [row[i] EXCEPT !.status = "failed", !.playable = FALSE]

(* "ready", with delete_at counted from the ttl_hours that was loaded. *)
Ready(i) ==
    /\ Runs(i, "store")
    /\ Exists(i)
    /\ row' = [row EXCEPT ![i] = Stored(i)]
    /\ dl' = [dl EXCEPT ![i] = NoDownload]
    /\ UNCHANGED <<folder, dead, rq, deleting, expiring, sweep, clear, boundVars>>

(* Fault: the folder of a failed download is left. *)
Fail_KeepsFolder(i) ==
    /\ Runs(i, "fetch") \/ Runs(i, "store")
    /\ Runs(i, "fetch") /\ UNCHANGED faults
    /\ dl' = [dl EXCEPT ![i].pc = "failing"]
    /\ UNCHANGED <<row, folder, dead, rq, deleting, expiring, sweep, clear, restarts, abandoned>>

(* The source, the disk or a commit fails: the folder goes at once ... *)
Fail(i) ==
    /\ \/ Runs(i, "fetch") /\ UNCHANGED faults
       \/ Runs(i, "store") /\ CommitFails({i})
    /\ folder' = Without({i})
    /\ dl' = [dl EXCEPT ![i].pc = "failing"]
    /\ UNCHANGED <<row, dead, rq, deleting, expiring, sweep, clear, restarts, abandoned>>

(* Fault: the failure is only logged. *)
FailCommit_Logged(i) ==
    /\ Runs(i, "failing")
    /\ dl' = [dl EXCEPT ![i] = NoDownload]
    /\ UNCHANGED <<row, folder, dead, rq, deleting, expiring, sweep, clear, boundVars>>

(* ... and the row, if there is one, says so; maybe the link is never to be offered again. *)
FailCommit(i) ==
    /\ Runs(i, "failing")
    /\ row' = IF Exists(i) THEN [row EXCEPT ![i] = Stored(i)] ELSE row
    /\ dead' \in {dead, dead \/ Exists(i)}
    /\ dl' = [dl EXCEPT ![i] = NoDownload]
    /\ UNCHANGED <<folder, rq, deleting, expiring, sweep, clear, boundVars>>

FailCommitFails(i) ==
    /\ Runs(i, "failing")
    /\ Exists(i)
    /\ CommitFails({i})
    /\ dl' = [dl EXCEPT ![i] = NoDownload]
    /\ UNCHANGED <<row, folder, dead, rq, deleting, expiring, sweep, clear, restarts, abandoned>>

(* cancel_download for all of X: the CancelledError arrives later, and of the commits under way some *)
(* still go through.                                                                                  *)
CancelDownloads(X) ==
    LET hit == {i \in X : dl[i].pc # "none" /\ ~dl[i].cancel}
    IN  /\ dl' = [i \in Items |-> IF i \in hit THEN [dl[i] EXCEPT !.cancel = TRUE] ELSE dl[i]]
        /\ \E through \in SUBSET {i \in hit : dl[i].pc \in {"begin", "store", "failing"} /\ Exists(i)} :
             row' = [i \in Items |-> IF i \in through THEN Stored(i) ELSE row[i]]

(* It arrives: inside the inner try, and only there, the folder is removed. *)
Cancelled(i) ==
    /\ dl[i].cancel
    /\ folder' = IF dl[i].pc \in {"fetch", "store"} THEN Without({i}) ELSE folder
    /\ dl' = [dl EXCEPT ![i] = NoDownload]
    /\ UNCHANGED <<row, dead, rq, deleting, expiring, sweep, clear, boundVars>>

-----------------------------------------------------------------------------
(* DELETE /v1/library/{id} *)

(* Fault: the download is not cancelled. *)
DeleteBegins_NoCancel(i) ==
    /\ Exists(i)
    /\ i \notin deleting
    /\ folder' = Without({i})
    /\ deleting' = deleting \cup {i}
    /\ UNCHANGED <<row, dl, dead, rq, expiring, sweep, clear, boundVars>>

(* The download is cancelled and the folder removed ... *)
DeleteBegins(i) ==
    /\ Exists(i)
    /\ i \notin deleting
    /\ CancelDownloads({i})
    /\ folder' = Without({i})
    /\ deleting' = deleting \cup {i}
    /\ UNCHANGED <<dead, rq, expiring, sweep, clear, boundVars>>

(* ... then the row is committed. *)
DeleteCommit(i) ==
    /\ i \in deleting
    /\ Exists(i)
    /\ row' = [row EXCEPT ![i].status = "deleted", ![i].playable = FALSE]
    /\ deleting' = deleting \ {i}
    /\ UNCHANGED <<folder, dl, dead, rq, expiring, sweep, clear, boundVars>>

DeleteFails(i) ==
    /\ i \in deleting
    /\ CommitFails({i})
    /\ deleting' = deleting \ {i}
    /\ UNCHANGED <<row, folder, dl, dead, rq, expiring, sweep, clear, restarts, abandoned>>

-----------------------------------------------------------------------------
(* The cleanup loop *)

(* An hour passes. *)
Tick ==
    /\ \E i \in Items : row[i].left > 0
    /\ row' = [i \in Items |-> [row[i] EXCEPT !.left = IF @ > 0 THEN @ - 1 ELSE 0]]
    /\ rq' = [c \in Clients |-> [rq[c] EXCEPT !.left = IF @ > 0 THEN @ - 1 ELSE 0]]
    /\ UNCHANGED <<folder, dl, dead, deleting, expiring, sweep, clear, boundVars>>

(* expire_library removes the folders of what it selected ... *)
ExpireSelect ==
    /\ expiring = {}
    /\ \E i \in Items : row[i].status = "ready" /\ row[i].left = 0
    /\ expiring' = {i \in Items : row[i].status = "ready" /\ row[i].left = 0}
    /\ folder' = Without(expiring')
    /\ UNCHANGED <<row, dl, dead, rq, deleting, sweep, clear, boundVars>>

(* ... and commits all of them together, or none. *)
ExpireCommit ==
    /\ expiring # {}
    /\ \A i \in expiring : Exists(i)
    /\ row' = [i \in Items |-> IF i \in expiring
                               THEN [row[i] EXCEPT !.status = "expired", !.playable = FALSE] ELSE row[i]]
    /\ expiring' = {}
    /\ UNCHANGED <<folder, dl, dead, rq, deleting, sweep, clear, boundVars>>

ExpireFails ==
    /\ expiring # {}
    /\ CommitFails(expiring)
    /\ expiring' = {}
    /\ UNCHANGED <<row, folder, dl, dead, rq, deleting, sweep, clear, restarts, abandoned>>

-----------------------------------------------------------------------------
(* Maintenance jobs of the admin panel *)

SweepBegins ==
    /\ "sweep_orphans" \in Admin
    /\ sweep.pc = "off"
    /\ sweep' = [sweep EXCEPT !.pc = "select"]
    /\ UNCHANGED <<row, folder, dl, dead, rq, deleting, expiring, clear, boundVars>>

(* Fault: the finished ones are swept. *)
SweepSelect_ActiveOnly ==
    /\ sweep.pc = "select"
    /\ sweep' = [pc |-> "remove", keep |-> With(Active)]
    /\ UNCHANGED <<row, folder, dl, dead, rq, deleting, expiring, clear, boundVars>>

(* sweep_orphans reads which items are alive, and removes every other folder it then finds. *)
SweepSelect ==
    /\ sweep.pc = "select"
    /\ sweep' = [pc |-> "remove", keep |-> With(Active \cup {"ready"})]
    /\ UNCHANGED <<row, folder, dl, dead, rq, deleting, expiring, clear, boundVars>>

SweepRemove ==
    /\ sweep.pc = "remove"
    /\ folder' = Without(Items \ sweep.keep)
    /\ sweep' = [pc |-> "off", keep |-> {}]
    /\ UNCHANGED <<row, dl, dead, rq, deleting, expiring, clear, boundVars>>

ForgetFinished ==
    /\ "forget_finished" \in Admin
    /\ With({"failed", "expired", "deleted"}) # {}
    /\ row' = [i \in Items |-> IF row[i].status \in {"failed", "expired", "deleted"}
                               THEN [NoRow EXCEPT !.status = "forgotten"] ELSE row[i]]
    /\ UNCHANGED <<folder, dl, dead, rq, deleting, expiring, sweep, clear, boundVars>>

(* clear_history reads the ids, cancels their downloads, sleeps 0.3 s ... *)
ClearBegins ==
    /\ "clear_history" \in Admin
    /\ ~clear.on
    /\ clear' = [on |-> TRUE, ids |-> {i \in Items : Exists(i)}]
    /\ CancelDownloads(clear'.ids)
    /\ UNCHANGED <<folder, dead, rq, deleting, expiring, sweep, boundVars>>

(* ... removes their folders and every row there is by then, and sweeps. *)
ClearRows ==
    /\ clear.on
    /\ sweep.pc = "off"
    /\ folder' = Without(clear.ids)
    /\ row' = [i \in Items |-> IF Exists(i) THEN [NoRow EXCEPT !.status = "forgotten"] ELSE row[i]]
    /\ clear' = [on |-> FALSE, ids |-> {}]
    /\ sweep' = [sweep EXCEPT !.pc = "select"]
    /\ UNCHANGED <<dl, dead, rq, deleting, expiring, boundVars>>

(* cancel_downloads cancels whatever runs. *)
CancelAll ==
    /\ "cancel_downloads" \in Admin
    /\ TroublesLeft
    /\ \E i \in Items : dl[i].pc # "none" /\ ~dl[i].cancel
    /\ CancelDownloads(Items)
    /\ abandoned' = abandoned \cup {i \in Items : dl[i].pc # "none"}
    /\ UNCHANGED <<folder, dead, rq, deleting, expiring, sweep, clear, faults, restarts>>

-----------------------------------------------------------------------------
(* The server dies; on the next start fail_stuck_library and sweep_orphans run before the first request. *)
Restart ==
    /\ restarts < MaxRestarts /\ TroublesLeft
    /\ restarts' = restarts + 1
    /\ row' = [i \in Items |-> IF row[i].status \in Active
                               THEN [row[i] EXCEPT !.status = "failed", !.playable = FALSE] ELSE row[i]]
    /\ folder' = Without(Items \ With({"ready"}))
    /\ dl' = [i \in Items |-> NoDownload]
    /\ rq' = [c \in Clients |-> NoRequest]
    /\ deleting' = {} /\ expiring' = {}
    /\ sweep' = [pc |-> "off", keep |-> {}]
    /\ clear' = [on |-> FALSE, ids |-> {}]
    /\ abandoned' = {}
    /\ UNCHANGED <<dead, faults>>

-----------------------------------------------------------------------------
DownloadStep(i) ==
    \/ TakeSlot(i)
    \/ LoadItem(i)
    \/ Begin(i)
    \/ BeginFails(i)
    \/ Fetched(i)
    \/ Ready(i)
    \/ Fail(i)
    \/ FailCommit(i)
    \/ FailCommitFails(i)
    \/ Cancelled(i)

RequestStep(c) == RequestExtend(c) \/ RequestCreate(c) \/ RequestFails(c)

DeleteStep(i) == DeleteCommit(i) \/ DeleteFails(i)

ExpireStep == ExpireSelect \/ ExpireCommit \/ ExpireFails

AdminStep == SweepSelect \/ SweepRemove \/ ClearRows

AdminCall == SweepBegins \/ ForgetFinished \/ ClearBegins \/ CancelAll

Next ==
    \/ \E c \in Clients : RequestStep(c) \/ \E ttl \in Ttls : RequestFetch(c, ttl)
    \/ \E i \in Items : DownloadStep(i) \/ BecomesPlayable(i) \/ DeleteBegins(i) \/ DeleteStep(i)
    \/ Tick
    \/ ExpireStep
    \/ AdminStep
    \/ AdminCall
    \/ Restart

Spec == Init /\ [][Next]_vars

(* The loop runs what is ready; a download ends, if only by its timeouts, which frees its slot for *)
(* the next; hours pass and the cleanup loop comes round.                                           *)
FairSpec ==
    /\ Spec
    /\ \A i \in Items : SF_vars(TakeSlot(i)) /\ WF_vars(DownloadStep(i)) /\ WF_vars(DeleteStep(i))
    /\ WF_vars(Tick)
    /\ WF_vars(ExpireStep)
    /\ WF_vars(AdminStep)

-----------------------------------------------------------------------------
TypeOK ==
    /\ row \in [Items -> [status : Statuses, ttl : Nat, left : Nat, playable : BOOLEAN]]
    /\ folder \in [Items -> {"none", "part", "whole"}]
    /\ dl \in [Items -> [pc : {"none", "wait", "load", "begin", "fetch", "store", "failing"},
                         ttl : Nat, cancel : BOOLEAN]]
    /\ dead \in BOOLEAN
    /\ rq \in [Clients -> [pc : {"idle", "create", "extend"}, item : Items \cup {0}, ttl : Nat, left : Nat]]
    /\ deleting \in SUBSET Items
    /\ expiring \in SUBSET Items
    /\ sweep \in [pc : {"off", "select", "remove"}, keep : SUBSET Items]
    /\ clear \in [on : BOOLEAN, ids : SUBSET Items]
    /\ {faults, restarts} \subseteq Nat /\ abandoned \subseteq Items

(* An item that is served has its file: whoever takes the file away is about to say so in the row.  *)
(* (A failed commit, a crash, a row that was forgotten in between, or cancel_downloads in the moment *)
(* of the last commit leaves an item without its file.)                                              *)
ReadyHasFile ==
    (faults + restarts = 0 /\ With({"forgotten"}) = {}) =>
        \A i \in With({"ready"}) \ abandoned :
            row[i].left > 0 => folder[i] = "whole" \/ i \in deleting \cup expiring \/ clear.on

(* A player is offered a stream only of an item that is growing or complete. *)
PlayableIsLive == \A i \in Items : row[i].playable => row[i].status \in {"downloading", "ready"}

(* What a client is told it can have is there (item_to_out and files.py): a file or a growing stream. *)
Servable == ReadyHasFile /\ PlayableIsLive

(* "Everything goes together": no folder outlives its item, whatever ended it. *)
NoFolderLeft ==
    \A i \in With({"failed", "expired", "deleted", "forgotten"}) :
        folder[i] = "none" \/ dl[i].pc # "none" \/ sweep.pc # "off"

(* Nobody but the cleanup job, which had it already, touches an item that was deleted. *)
DeletedStays ==
    [][\A i \in Items : row[i].status = "deleted" => row'[i].status \in {"deleted", "expired", "forgotten"}]_vars

(* An unfinished item has its download, so its status is about to change (without failed commits,   *)
(* and unless cancel_downloads left it behind, see Settles).                                         *)
ActiveHasDownload ==
    faults = 0 => \A i \in With(Active) \ abandoned :
                      (dl[i].pc # "none" /\ ~dl[i].cancel) \/ i \in deleting \/ clear.on

(* "Reusing just extends the time": an item that becomes ready stays as long as anybody asked for. *)
ExtensionKept ==
    [][\A i \in Items : row[i].status # "ready" /\ row'[i].status = "ready" => row'[i].left >= row[i].ttl]_vars

(* Every download ends. *)
Settles == \A i \in Items : row[i].status \in Active ~> row[i].status \notin Active
=============================================================================
