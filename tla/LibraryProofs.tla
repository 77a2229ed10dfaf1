--------------------------- MODULE LibraryProofs ---------------------------
(***************************************************************************)
(* The video library, for any number of items, requests, slots, failed     *)
(* commits and restarts: what is told of an item is so, no folder outlives *)
(* it, and what was deleted stays so; and the disk clean, which spares     *)
(* what is alive.                                                          *)
(***************************************************************************)
EXTENDS Library, DiskClean, TLAPS

RowType == [status : Statuses, ttl : Nat, left : Nat, playable : BOOLEAN]
DlType == [pc : {"none", "wait", "load", "begin", "fetch", "store", "failing"}, ttl : Nat, cancel : BOOLEAN]
RqType == [pc : {"idle", "create", "extend"}, item : Items \cup {0}, ttl : Nat, left : Nat]

(* What the commit under way writes (Stored). *)
LEMMA StoredFacts ==
    ASSUME TypeOK, NEW i \in Items, dl[i].pc \in {"begin", "store", "failing"}
    PROVE  /\ Stored(i) \in RowType
           /\ dl[i].pc = "begin" => Stored(i).status = "downloading" /\ Stored(i).playable = row[i].playable
           /\ dl[i].pc = "store" => Stored(i).status = "ready"
           /\ dl[i].pc = "failing" => Stored(i).status = "failed" /\ Stored(i).playable = FALSE
<1>1. row[i] \in RowType /\ dl[i].ttl \in Nat
    BY DEF TypeOK, RowType
<1>2. CASE dl[i].pc = "begin"
    BY <1>1, <1>2 DEF Stored, RowType, Statuses
<1>3. CASE dl[i].pc = "store"
  <2> DEFINE plays == row[i].playable \/ Mode = "hls"
  <2>1. plays \in BOOLEAN
      OBVIOUS
  <2>2. Stored(i) = [row[i] EXCEPT !.status = "ready", !.left = dl[i].ttl, !.playable = plays]
      BY <1>1, <1>3 DEF Stored, RowType
  <2> HIDE DEF plays
  <2> QED
      BY <1>1, <1>3, <2>1, <2>2 DEF RowType, Statuses
<1>4. CASE dl[i].pc = "failing"
    BY <1>1, <1>4 DEF Stored, RowType, Statuses
<1> QED
    BY <1>2, <1>3, <1>4

(* What cancel_download does to an item: it may be too late for the commit under way. *)
LEMMA CancelFacts ==
    ASSUME TypeOK, NEW X, CancelDownloads(X), NEW i \in Items
    PROVE  /\ dl'[i].pc = dl[i].pc /\ dl'[i].ttl = dl[i].ttl
           /\ dl'[i].cancel = (dl[i].cancel \/ (i \in X /\ dl[i].pc # "none"))
           /\ dl' \in [Items -> DlType]
           /\ row' \in [Items -> RowType]
           /\ row'[i] # row[i] => /\ i \in X /\ ~dl[i].cancel
                                  /\ dl[i].pc \in {"begin", "store", "failing"}
                                  /\ Exists(i)
                                  /\ row'[i] = Stored(i)
<1> DEFINE hit == {k \in X : dl[k].pc # "none" /\ ~dl[k].cancel}
           late == {k \in hit : dl[k].pc \in {"begin", "store", "failing"} /\ Exists(k)}
<1>1. PICK through \in SUBSET late : row' = [k \in Items |-> IF k \in through THEN Stored(k) ELSE row[k]]
    BY DEF CancelDownloads
<1>2. dl' = [k \in Items |-> IF k \in hit THEN [dl[k] EXCEPT !.cancel = TRUE] ELSE dl[k]]
    BY DEF CancelDownloads
<1>3. ASSUME NEW k \in Items
      PROVE  /\ dl[k] \in DlType
             /\ row[k] \in RowType
    BY DEF TypeOK, RowType, DlType
<1>4. ASSUME NEW k \in Items PROVE (IF k \in through THEN Stored(k) ELSE row[k]) \in RowType
    BY <1>3, StoredFacts
<1>5. dl'[i] = IF i \in hit THEN [dl[i] EXCEPT !.cancel = TRUE] ELSE dl[i]
    BY <1>2
<1>6. dl'[i].pc = dl[i].pc /\ dl'[i].ttl = dl[i].ttl
    BY <1>3, <1>5 DEF DlType
<1>7. dl'[i].cancel = (dl[i].cancel \/ (i \in X /\ dl[i].pc # "none"))
  <2>1. CASE i \in hit
      BY <1>3, <1>5, <2>1 DEF DlType
  <2>2. CASE i \notin hit
    <3>1. dl'[i] = dl[i] /\ dl[i].cancel \in BOOLEAN
        BY <1>3, <1>5, <2>2 DEF DlType
    <3> QED
        BY <3>1, <2>2
  <2> QED
      BY <2>1, <2>2
<1>8. dl' \in [Items -> DlType]
  <2>1. ASSUME NEW k \in Items
        PROVE  (IF k \in hit THEN [dl[k] EXCEPT !.cancel = TRUE] ELSE dl[k])
                 \in DlType
      BY <1>3 DEF DlType
  <2> QED
      BY <1>2, <2>1
<1>9. row' \in [Items -> RowType]
    BY <1>1, <1>4
<1>10. row'[i] # row[i] => i \in through /\ row'[i] = Stored(i)
    BY <1>1
<1> QED
    BY <1>6, <1>7, <1>8, <1>9, <1>10

-----------------------------------------------------------------------------
(* The types. *)
LEMMA TypeInit == Init => TypeOK
<1> SUFFICES ASSUME Init PROVE TypeOK
    OBVIOUS
<1>1. row \in [Items -> RowType] /\ dl \in [Items -> DlType] /\ rq \in [Clients -> RqType]
    BY DEF Init, NoRow, NoDownload, NoRequest, Statuses, RowType, DlType, RqType
<1>2. /\ folder \in [Items -> {"none", "part", "whole"}]
      /\ sweep \in [pc : {"off", "select", "remove"}, keep : SUBSET Items]
      /\ clear \in [on : BOOLEAN, ids : SUBSET Items]
    BY DEF Init
<1>3. deleting \in SUBSET Items /\ expiring \in SUBSET Items /\ abandoned \subseteq Items
    BY DEF Init
<1>4. dead \in BOOLEAN
    BY DEF Init
<1>5. {faults, restarts} \subseteq Nat
    BY DEF Init
<1> QED
    BY <1>1, <1>2, <1>3, <1>4, <1>5 DEF TypeOK, RowType, DlType, RqType

LEMMA RequestTypes == ASSUME TypeOK, NEW c \in Clients, NEW ttl \in Ttls, RequestFetch(c, ttl) PROVE TypeOK'
<1>1. rq' \in [Clients -> RqType]
  <2>1. rq \in [Clients -> RqType] /\ ttl \in Nat
      BY TtlsAssumption DEF TypeOK, RqType
  <2>2. CASE Reusable = {}
    <3>1. [pc |-> "create", item |-> 0, ttl |-> ttl, left |-> 0] \in RqType
        BY <2>1 DEF RqType
    <3> QED
        BY <2>1, <2>2, <3>1 DEF RequestFetch
  <2>3. CASE Reusable # {}
    <3>1. PICK i \in Reusable :
            rq' = [rq EXCEPT ![c] =
                       [pc |-> "extend", item |-> i,
                        ttl |-> IF ttl > row[i].ttl THEN ttl ELSE 0,
                        left |-> IF row[i].status = "ready" /\ row[i].left < ttl THEN ttl ELSE 0]]
        BY <2>3 DEF RequestFetch
    <3>2. i \in Items
        BY DEF Reusable, With
    <3>3. [pc |-> "extend", item |-> i,
           ttl |-> IF ttl > row[i].ttl THEN ttl ELSE 0,
           left |-> IF row[i].status = "ready" /\ row[i].left < ttl THEN ttl ELSE 0] \in RqType
        BY <2>1, <3>2 DEF RqType
    <3> QED
        BY <2>1, <3>1, <3>3
  <2> QED
      BY <2>2, <2>3
<1> QED
    BY <1>1 DEF TypeOK, RqType, RequestFetch, boundVars

LEMMA ExtendTypes == ASSUME TypeOK, NEW c \in Clients, RequestExtend(c) PROVE TypeOK'
<1> DEFINE i == rq[c].item
           t == IF rq[c].ttl > 0 THEN rq[c].ttl ELSE row[i].ttl
           l == IF rq[c].left > 0 THEN rq[c].left ELSE row[i].left
<1>1. row' = [row EXCEPT ![i].ttl = t, ![i].left = l]
    BY DEF RequestExtend
<1>2. rq' \in [Clients -> RqType]
    BY DEF RequestExtend, NoRequest, TypeOK, RqType
<1>3. rq[c].ttl \in Nat /\ rq[c].left \in Nat /\ row \in [Items -> RowType]
    BY DEF TypeOK, RowType
<1>4. row' \in [Items -> RowType]
  <2>1. CASE i \in Items
    <3>1. t \in Nat /\ l \in Nat
        BY <1>3, <2>1 DEF RowType
    <3> HIDE DEF t, l
    <3> QED
        BY <1>1, <1>3, <3>1 DEF RowType
  <2>2. CASE i \notin Items
      BY <1>1, <1>3, <2>2
  <2> QED
      BY <2>1, <2>2
<1> QED
    BY <1>2, <1>4 DEF TypeOK, RqType, RowType, RequestExtend, boundVars

LEMMA CreateTypes == ASSUME TypeOK, NEW c \in Clients, RequestCreate(c) PROVE TypeOK'
<1>1. PICK i \in With({"none"}) :
        /\ row' = [row EXCEPT ![i] = [status |-> "queued", ttl |-> rq[c].ttl, left |-> 0, playable |-> FALSE]]
        /\ folder' = [folder EXCEPT ![i] = "part"]
        /\ dl' = [dl EXCEPT ![i] = [NoDownload EXCEPT !.pc = "wait"]]
    BY DEF RequestCreate
<1>2. rq[c].ttl \in Nat
    BY DEF TypeOK
<1>3. row' \in [Items -> RowType]
    BY <1>1, <1>2 DEF TypeOK, RowType, Statuses
<1>4. dl' \in [Items -> DlType]
    BY <1>1 DEF TypeOK, DlType, NoDownload
<1>5. folder' \in [Items -> {"none", "part", "whole"}]
    BY <1>1 DEF TypeOK
<1>6. rq' \in [Clients -> RqType]
    BY DEF RequestCreate, NoRequest, TypeOK, RqType
<1> QED
    BY <1>3, <1>4, <1>5, <1>6 DEF TypeOK, RqType, DlType, RowType, RequestCreate, boundVars

LEMMA FaultTypes == ASSUME TypeOK, NEW X, CommitFails(X) PROVE faults' \in Nat /\ (faults' = 0 => faults = 0)
    BY DEF CommitFails, TypeOK

LEMMA RequestFailsTypes == ASSUME TypeOK, NEW c \in Clients, RequestFails(c) PROVE TypeOK'
<1>1. faults' \in Nat
    BY FaultTypes DEF RequestFails
<1>2. rq' \in [Clients -> RqType]
    BY DEF RequestFails, NoRequest, TypeOK, RqType
<1> QED
    BY <1>1, <1>2 DEF TypeOK, RqType, RequestFails

LEMMA DownloadTypes == ASSUME TypeOK, NEW i \in Items, DownloadStep(i) PROVE TypeOK'
<1>1. row \in [Items -> RowType] /\ dl \in [Items -> DlType] /\ folder \in [Items -> {"none", "part", "whole"}]
    BY DEF TypeOK, RowType, DlType
<1>2. NoDownload \in DlType
    BY DEF NoDownload, DlType
<1>3. dl' \in [Items -> DlType]
  <2>1. CASE LoadItem(i)
    <3>1. [dl[i] EXCEPT !.pc = "begin", !.ttl = row[i].ttl] \in DlType
        BY <1>1 DEF DlType, RowType
    <3>2. dl' = [dl EXCEPT ![i] = IF row[i].status = "queued"
                               THEN [dl[i] EXCEPT !.pc = "begin", !.ttl = row[i].ttl] ELSE NoDownload]
        BY <2>1 DEF LoadItem
    <3> QED
        BY <1>1, <1>2, <3>1, <3>2
  <2>2. CASE TakeSlot(i)
      BY <1>1, <2>2 DEF TakeSlot, DlType
  <2>3. CASE Begin(i)
      BY <1>1, <2>3 DEF Begin, DlType
  <2>4. CASE Fetched(i)
      BY <1>1, <2>4 DEF Fetched, DlType
  <2>5. CASE Fail(i)
      BY <1>1, <2>5 DEF Fail, DlType
  <2>6. CASE BeginFails(i) \/ Ready(i) \/ FailCommit(i) \/ FailCommitFails(i) \/ Cancelled(i)
      BY <1>1, <1>2, <2>6 DEF BeginFails, Ready, FailCommit, FailCommitFails, Cancelled
  <2> QED
      BY <2>1, <2>2, <2>3, <2>4, <2>5, <2>6 DEF DownloadStep
<1>4. row' \in [Items -> RowType]
  <2>1. CASE Begin(i)
      BY <1>1, <2>1 DEF Begin, RowType, Statuses
  <2>2. CASE Ready(i)
      BY <1>1, <2>2, StoredFacts DEF Ready, Runs
  <2>3. CASE FailCommit(i)
      BY <1>1, <2>3, StoredFacts DEF FailCommit, Runs
  <2>4. CASE ~(Begin(i) \/ Ready(i) \/ FailCommit(i))
      BY <1>1, <2>4 DEF DownloadStep, TakeSlot, LoadItem, BeginFails, Fetched, Fail, FailCommitFails, Cancelled
  <2> QED
      BY <2>1, <2>2, <2>3, <2>4
<1>5. folder' \in [Items -> {"none", "part", "whole"}]
    BY <1>1 DEF DownloadStep, TakeSlot, LoadItem, Begin, BeginFails, Fetched, Ready, Fail, FailCommit,
                FailCommitFails, Cancelled, Without
<1>6. faults' \in Nat
    BY FaultTypes DEF DownloadStep, TakeSlot, LoadItem, Begin, BeginFails, Fetched, Ready, Fail, FailCommit,
                      FailCommitFails, Cancelled, TypeOK, boundVars
<1>7. dead' \in BOOLEAN
    BY Zenon DEF DownloadStep, TakeSlot, LoadItem, Begin, BeginFails, Fetched, Ready, Fail, FailCommit,
           FailCommitFails, Cancelled, TypeOK
<1>8. UNCHANGED <<rq, deleting, expiring, sweep, clear, restarts, abandoned>>
    BY DEF DownloadStep, TakeSlot, LoadItem, Begin, BeginFails, Fetched, Ready, Fail, FailCommit,
           FailCommitFails, Cancelled, boundVars
<1> QED
    BY <1>3, <1>4, <1>5, <1>6, <1>7, <1>8 DEF TypeOK, RowType, DlType

LEMMA DeleteTypes ==
    ASSUME TypeOK, NEW i \in Items, BecomesPlayable(i) \/ DeleteBegins(i) \/ DeleteStep(i) PROVE TypeOK'
<1>1. CASE BecomesPlayable(i)
  <2>1. row' \in [Items -> RowType]
    <3>1. row[i] \in RowType
        BY DEF TypeOK, RowType
    <3>2. [row[i] EXCEPT !.playable = TRUE] \in RowType
        BY <3>1 DEF RowType
    <3>3. row' = [row EXCEPT ![i] = [row[i] EXCEPT !.playable = TRUE]]
        BY <1>1 DEF BecomesPlayable
    <3> QED
        BY <3>2, <3>3 DEF TypeOK, RowType
  <2> QED
      BY <1>1, <2>1 DEF BecomesPlayable, TypeOK, RowType, boundVars
<1>2. CASE DeleteBegins(i)
  <2>1. row' \in [Items -> RowType] /\ dl' \in [Items -> DlType]
      BY <1>2, CancelFacts DEF DeleteBegins
  <2> QED
      BY <1>2, <2>1 DEF TypeOK, RowType, DlType, DeleteBegins, Without, boundVars
<1>3. CASE DeleteCommit(i)
  <2>1. row' \in [Items -> RowType]
    <3>1. row[i] \in RowType
        BY DEF TypeOK, RowType
    <3>2. [row[i] EXCEPT !.status = "deleted", !.playable = FALSE] \in RowType
        BY <3>1 DEF RowType, Statuses
    <3>3. row' = [row EXCEPT ![i] = [row[i] EXCEPT !.status = "deleted", !.playable = FALSE]]
        BY <1>3 DEF DeleteCommit, TypeOK
    <3> QED
        BY <3>2, <3>3 DEF TypeOK, RowType
  <2> QED
      BY <1>3, <2>1 DEF DeleteCommit, TypeOK, RowType, boundVars
<1>4. CASE DeleteFails(i)
    BY <1>4, FaultTypes DEF DeleteFails, TypeOK
<1> QED
    BY <1>1, <1>2, <1>3, <1>4 DEF DeleteStep

LEMMA CleanupTypes == ASSUME TypeOK, Tick \/ ExpireStep PROVE TypeOK'
<1>1. row \in [Items -> RowType] /\ rq \in [Clients -> RqType]
    BY DEF TypeOK, RowType, RqType
<1>2. CASE Tick
  <2>1. ASSUME NEW i \in Items PROVE [row[i] EXCEPT !.left = IF @ > 0 THEN @ - 1 ELSE 0] \in RowType
      BY <1>1 DEF RowType
  <2>2. ASSUME NEW c \in Clients PROVE [rq[c] EXCEPT !.left = IF @ > 0 THEN @ - 1 ELSE 0] \in RqType
      BY <1>1 DEF RqType
  <2>3. row' \in [Items -> RowType] /\ rq' \in [Clients -> RqType]
      BY <1>2, <2>1, <2>2 DEF Tick
  <2> QED
      BY <1>2, <2>3 DEF Tick, TypeOK, RowType, RqType, boundVars
<1>3. CASE ExpireSelect
    BY <1>3 DEF ExpireSelect, TypeOK, Without, boundVars
<1>4. CASE ExpireCommit
  <2>1. ASSUME NEW i \in Items PROVE [row[i] EXCEPT !.status = "expired", !.playable = FALSE] \in RowType
      BY <1>1 DEF RowType, Statuses
  <2>2. row' \in [Items -> RowType]
      BY <1>1, <1>4, <2>1 DEF ExpireCommit
  <2> QED
      BY <1>4, <2>2 DEF ExpireCommit, TypeOK, RowType, boundVars
<1>5. CASE ExpireFails
    BY <1>5, FaultTypes DEF ExpireFails, TypeOK
<1> QED
    BY <1>2, <1>3, <1>4, <1>5 DEF ExpireStep

LEMMA AdminTypes == ASSUME TypeOK, AdminStep \/ AdminCall \/ Restart PROVE TypeOK'
<1>1. row \in [Items -> RowType] /\ [NoRow EXCEPT !.status = "forgotten"] \in RowType
    BY DEF TypeOK, RowType, NoRow, Statuses
<1>2. CASE SweepSelect
    BY <1>2 DEF SweepSelect, TypeOK, With, boundVars
<1>3. CASE SweepRemove
    BY <1>3 DEF SweepRemove, TypeOK, Without, boundVars
<1>4. CASE SweepBegins
    BY <1>4 DEF SweepBegins, TypeOK, boundVars
<1>5. CASE ClearRows
  <2>1. row' \in [Items -> RowType]
      BY <1>1, <1>5 DEF ClearRows
  <2> QED
      BY <1>5, <2>1 DEF ClearRows, TypeOK, RowType, Without, boundVars
<1>6. CASE ForgetFinished
  <2>1. row' \in [Items -> RowType]
      BY <1>1, <1>6 DEF ForgetFinished
  <2> QED
      BY <1>6, <2>1 DEF ForgetFinished, TypeOK, RowType, boundVars
<1>7. CASE ClearBegins
  <2>1. PICK X : CancelDownloads(X)
      BY <1>7 DEF ClearBegins
  <2>2. CASE Items # {}
    <3>1. row' \in [Items -> RowType] /\ dl' \in [Items -> DlType]
        BY <2>1, <2>2, CancelFacts
    <3> QED
        BY <1>7, <3>1 DEF ClearBegins, TypeOK, RowType, DlType, boundVars
  <2>3. CASE Items = {}
    <3>1. row' \in [Items -> RowType] /\ dl' \in [Items -> DlType]
        BY <2>1, <2>3 DEF CancelDownloads
    <3> QED
        BY <1>7, <3>1 DEF ClearBegins, TypeOK, RowType, DlType, boundVars
  <2> QED
      BY <2>2, <2>3
<1>8. CASE CancelAll
  <2>1. row' \in [Items -> RowType] /\ dl' \in [Items -> DlType]
      BY <1>8, CancelFacts DEF CancelAll
  <2> QED
      BY <1>8, <2>1 DEF CancelAll, TypeOK, RowType, DlType
<1>9. CASE Restart
  <2>1. ASSUME NEW i \in Items PROVE [row[i] EXCEPT !.status = "failed", !.playable = FALSE] \in RowType
      BY <1>1 DEF RowType, Statuses
  <2>2. row' \in [Items -> RowType]
      BY <1>1, <1>9, <2>1 DEF Restart
  <2>3. dl' \in [Items -> DlType] /\ rq' \in [Clients -> RqType]
      BY <1>9 DEF Restart, NoDownload, NoRequest, DlType, RqType
  <2>4. folder' \in [Items -> {"none", "part", "whole"}]
      BY <1>9 DEF Restart, TypeOK, Without
  <2>5. sweep' \in [pc : {"off", "select", "remove"}, keep : SUBSET Items] /\ clear' \in [on : BOOLEAN, ids : SUBSET Items]
      BY <1>9 DEF Restart
  <2>6. deleting' \in SUBSET Items /\ expiring' \in SUBSET Items /\ abandoned' \subseteq Items
      BY <1>9 DEF Restart
  <2>7. dead' \in BOOLEAN
      BY <1>9 DEF Restart, TypeOK
  <2>8. {faults', restarts'} \subseteq Nat
    <3>1. faults \in Nat /\ restarts \in Nat
        BY DEF TypeOK
    <3>2. faults' = faults /\ restarts' = restarts + 1
        BY <1>9 DEF Restart
    <3> QED
        BY <3>1, <3>2
  <2> QED
      BY <2>2, <2>3, <2>4, <2>5, <2>6, <2>7, <2>8 DEF TypeOK, RowType, DlType, RqType
<1> QED
    BY <1>2, <1>3, <1>4, <1>5, <1>6, <1>7, <1>8, <1>9 DEF AdminStep, AdminCall

LEMMA TypeNext == TypeOK /\ [Next]_vars => TypeOK'
<1> SUFFICES ASSUME TypeOK, [Next]_vars PROVE TypeOK'
    OBVIOUS
<1>1. CASE UNCHANGED vars
    BY <1>1 DEF TypeOK, vars, boundVars
<1> QED
    BY <1>1, RequestTypes, ExtendTypes, CreateTypes, RequestFailsTypes, DownloadTypes, DeleteTypes,
       CleanupTypes, AdminTypes DEF Next, RequestStep

-----------------------------------------------------------------------------
(* The inductive invariant, one item at a time.  A download that has not been cancelled is       *)
(* Alive; an item is Removed while somebody who has taken its folder is about to say so in its   *)
(* row; it is Doomed while a sweep will take its folder, and Taken when that sweep has read its  *)
(* list; and it is Calm as long as nothing has failed, restarted or forgotten rows.              *)
Alive(i) == dl[i].pc # "none" /\ ~dl[i].cancel

Removed(i) == i \in deleting \cup expiring

Taken(i) == sweep.pc = "remove" /\ i \notin sweep.keep

Doomed(i) == sweep.pc = "select" \/ Taken(i)

Calm == faults = 0 /\ restarts = 0 /\ With({"forgotten"}) = {}

(* Row and coroutine go together; nobody else is at work on the item of a live download. *)
Phase(i) ==
    /\ dl[i].pc = "none" => ~dl[i].cancel
    /\ row[i].status = "none" => dl[i].pc = "none" /\ ~Removed(i)
    /\ Alive(i) => /\ ~Removed(i)
                   /\ dl[i].pc \in {"wait", "load", "begin"} => row[i].status \in {"queued", "forgotten"}
                   /\ dl[i].pc \in {"fetch", "store", "failing"} => row[i].status \in {"downloading", "forgotten"}

(* The folder: gone where a removal or a failure is being recorded, there for who stores the     *)
(* item, and never left by an item that has ended, unless a sweep is coming for it.              *)
Folder(i) ==
    /\ Removed(i) => folder[i] = "none"
    /\ dl[i].pc = "failing" => folder[i] = "none"
    /\ row[i].status \in {"failed", "expired", "deleted", "forgotten"} =>
          folder[i] = "none" \/ dl[i].pc \in {"fetch", "store"} \/ Doomed(i)
    /\ Taken(i) /\ row[i].status # "forgotten" =>
          row[i].status # "ready" /\ (Alive(i) => dl[i].pc \notin {"fetch", "store"})
    /\ Alive(i) /\ dl[i].pc = "store" /\ row[i].status # "forgotten" => folder[i] = "whole"

Plays(i) == row[i].playable => row[i].status \in {"downloading", "ready"}

(* Who has taken the file of a ready item, and who has cancelled an item's download. *)
Honest(i) ==
    Calm =>
      /\ dl[i].cancel => i \in abandoned \cup deleting \/ clear.on \/ row[i].status \in {"deleted", "expired"}
      /\ row[i].status = "ready" => folder[i] = "whole" \/ i \in abandoned \/ Removed(i) \/ clear.on

Attended(i) ==
    faults = 0 /\ row[i].status \in Active => Alive(i) \/ i \in abandoned \cup deleting \/ clear.on

Good(i) == Phase(i) /\ Folder(i) /\ Plays(i) /\ Honest(i) /\ Attended(i)

LInv == TypeOK /\ \A i \in Items : Good(i)

(* Where a row that nobody wants back may go. *)
Moves(i) ==
    /\ row[i].status = "forgotten" => row'[i].status = "forgotten"
    /\ row[i].status = "deleted" => row'[i].status \in {"deleted", "expired", "forgotten"}

(* The commits under way when a download is cancelled are those of an item that is still there. *)
LEMMA CancelMoves ==
    ASSUME TypeOK, NEW i \in Items, Good(i), NEW X, CancelDownloads(X)
    PROVE  Moves(i)
<1>1. CASE row'[i] = row[i]
    BY <1>1 DEF Moves
<1>2. CASE row'[i] # row[i]
  <2>1. Alive(i) /\ Exists(i) /\ dl[i].pc \in {"begin", "store", "failing"}
      BY <1>2, CancelFacts DEF Alive
  <2>2. row[i].status \in {"queued", "downloading"}
      BY <2>1 DEF Good, Phase, Exists
  <2> QED
      BY <2>2 DEF Moves
<1> QED
    BY <1>1, <1>2

LEMMA NextMoves ==
    ASSUME LInv, [Next]_vars, NEW i \in Items
    PROVE  Moves(i)
<1>1. TypeOK /\ Good(i) /\ row[i] \in RowType /\ row \in [Items -> RowType]
    BY DEF LInv, TypeOK, RowType
<1>2. CASE row' = row
    BY <1>2 DEF Moves
<1>3. ASSUME NEW c \in Clients, RequestExtend(c) PROVE Moves(i)
  <2>1. row'[i].status = row[i].status
      BY <1>1, <1>3 DEF RequestExtend, RowType
  <2> QED
      BY <2>1 DEF Moves
<1>4. ASSUME NEW c \in Clients, RequestCreate(c) PROVE Moves(i)
  <2>1. row[i].status = "none" \/ row'[i] = row[i]
      BY <1>1, <1>4 DEF RequestCreate, With
  <2> QED
      BY <2>1 DEF Moves
<1>5. ASSUME NEW k \in Items, DownloadStep(k) PROVE Moves(i)
  <2>1. CASE i # k \/ row' = row
    <3>1. row'[i] = row[i]
        BY <1>1, <1>5, <2>1 DEF DownloadStep, TakeSlot, LoadItem, Begin, BeginFails, Fetched, Ready, Fail,
                                FailCommit, FailCommitFails, Cancelled
    <3> QED
        BY <3>1 DEF Moves
  <2>2. CASE i = k /\ row' # row
    <3>1. Alive(i) /\ Exists(i) /\ dl[i].pc \in {"begin", "store", "failing"}
        BY <1>5, <2>2 DEF DownloadStep, TakeSlot, LoadItem, Begin, BeginFails, Fetched, Ready, Fail,
                          FailCommit, FailCommitFails, Cancelled, Runs, Alive
    <3>2. row[i].status \in {"queued", "downloading"}
        BY <1>1, <3>1 DEF Good, Phase, Exists
    <3> QED
        BY <3>2 DEF Moves
  <2> QED
      BY <2>1, <2>2
<1>6. ASSUME NEW k \in Items, BecomesPlayable(k) PROVE Moves(i)
  <2>1. row'[i].status = row[i].status
      BY <1>1, <1>6 DEF BecomesPlayable, RowType
  <2> QED
      BY <2>1 DEF Moves
<1>7. ASSUME NEW k \in Items, DeleteBegins(k) PROVE Moves(i)
    BY <1>1, <1>7, CancelMoves DEF DeleteBegins
<1>8. ASSUME NEW k \in Items, DeleteStep(k) PROVE Moves(i)
  <2>1. \/ row'[i] = row[i]
        \/ i = k /\ Exists(i) /\ row'[i].status = "deleted"
      BY <1>1, <1>8 DEF DeleteStep, DeleteCommit, DeleteFails, RowType
  <2> QED
      BY <2>1 DEF Moves, Exists
<1>9. CASE Tick
  <2>1. row'[i].status = row[i].status
      BY <1>1, <1>9 DEF Tick, RowType
  <2> QED
      BY <2>1 DEF Moves
<1>10. CASE ExpireStep
  <2>1. \/ row'[i] = row[i]
        \/ Exists(i) /\ row'[i].status = "expired"
    <3>1. CASE ExpireCommit
      <4>1. row'[i] = IF i \in expiring THEN [row[i] EXCEPT !.status = "expired", !.playable = FALSE] ELSE row[i]
          BY <3>1 DEF ExpireCommit
      <4> QED
          BY <1>1, <3>1, <4>1 DEF ExpireCommit, RowType
    <3>2. CASE ExpireSelect \/ ExpireFails
        BY <3>2 DEF ExpireSelect, ExpireFails
    <3> QED
        BY <1>10, <3>1, <3>2 DEF ExpireStep
  <2> QED
      BY <2>1 DEF Moves, Exists
<1>11. CASE ClearRows \/ ForgetFinished
  <2>1. row'[i] = row[i] \/ row'[i].status = "forgotten"
      BY <1>11 DEF ClearRows, ForgetFinished, NoRow
  <2> QED
      BY <2>1 DEF Moves
<1>12. CASE ClearBegins \/ CancelAll
  <2>1. PICK X : CancelDownloads(X)
      BY <1>12 DEF ClearBegins, CancelAll
  <2> QED
      BY <1>1, <2>1, CancelMoves
<1>13. CASE Restart
  <2>1. row'[i] = row[i] \/ row[i].status \in Active
      BY <1>13 DEF Restart
  <2> QED
      BY <2>1 DEF Moves, Active
<1>14. CASE SweepSelect \/ SweepRemove \/ SweepBegins \/ UNCHANGED vars
    BY <1>2, <1>14 DEF SweepSelect, SweepRemove, SweepBegins, vars
<1>15. ASSUME NEW c \in Clients, RequestFails(c) \/ \E ttl \in Ttls : RequestFetch(c, ttl) PROVE Moves(i)
    BY <1>2, <1>15 DEF RequestFails, RequestFetch
<1> QED
    BY <1>3, <1>4, <1>5, <1>6, <1>7, <1>8, <1>9, <1>10, <1>11, <1>12, <1>13, <1>14, <1>15
       DEF Next, RequestStep, AdminStep, AdminCall

-----------------------------------------------------------------------------
(* Every step preserves the invariant.  What it leaves alone stays good: *)
Same(i) ==
    /\ row'[i].status = row[i].status /\ row'[i].playable = row[i].playable
    /\ folder'[i] = folder[i]
    /\ dl'[i].pc = dl[i].pc /\ dl'[i].cancel = dl[i].cancel
    /\ i \in deleting' <=> i \in deleting
    /\ i \in expiring' <=> i \in expiring

NoBetter ==
    /\ Calm' => Calm
    /\ faults' = 0 => faults = 0

Around == sweep' = sweep /\ clear' = clear /\ abandoned \subseteq abandoned' /\ NoBetter

LEMMA SameKeeps ==
    ASSUME NEW i \in Items, Good(i), Same(i), Around
    PROVE  Good(i)'
<1> USE DEF Same, Around, NoBetter
<1>1. /\ Alive(i)' <=> Alive(i)
      /\ Removed(i)' <=> Removed(i)
      /\ Taken(i)' <=> Taken(i)
      /\ Doomed(i)' <=> Doomed(i)
    BY DEF Alive, Removed, Taken, Doomed
<1>2. Phase(i)'
    BY <1>1 DEF Good, Phase
<1>3. Folder(i)'
    BY <1>1 DEF Good, Folder
<1>4. Plays(i)'
    BY DEF Good, Plays
<1>5. Honest(i)'
    BY <1>1 DEF Good, Honest
<1>6. Attended(i)'
    BY <1>1 DEF Good, Attended
<1> QED
    BY <1>2, <1>3, <1>4, <1>5, <1>6 DEF Good

(* Nothing that went wrong is put right. *)
LEMMA NextNoBetter == ASSUME LInv, [Next]_vars PROVE NoBetter
<1>1. faults \in Nat /\ restarts \in Nat
    BY DEF LInv, TypeOK
<1>2. faults' \in Nat /\ (faults' = 0 => faults = 0)
  <2>1. \/ \E X : CommitFails(X)
        \/ faults' = faults
      BY DEF Next, RequestStep, RequestFetch, RequestExtend, RequestCreate, RequestFails,
             DownloadStep, TakeSlot, LoadItem, Begin, BeginFails, Fetched, Ready, Fail, FailCommit,
             FailCommitFails, Cancelled, BecomesPlayable, DeleteBegins, DeleteStep, DeleteCommit, DeleteFails,
             Tick, ExpireStep, ExpireSelect, ExpireCommit, ExpireFails, AdminStep, SweepSelect, SweepRemove,
             ClearRows, AdminCall, SweepBegins, ForgetFinished, ClearBegins, CancelAll, Restart, vars, boundVars
  <2> QED
      BY <1>1, <2>1, FaultTypes DEF LInv
<1>3. restarts' = 0 => restarts = 0
  <2>1. restarts' = restarts \/ restarts' = restarts + 1
      BY DEF Next, RequestStep, RequestFetch, RequestExtend, RequestCreate, RequestFails,
             DownloadStep, TakeSlot, LoadItem, Begin, BeginFails, Fetched, Ready, Fail, FailCommit,
             FailCommitFails, Cancelled, BecomesPlayable, DeleteBegins, DeleteStep, DeleteCommit, DeleteFails,
             Tick, ExpireStep, ExpireSelect, ExpireCommit, ExpireFails, AdminStep, SweepSelect, SweepRemove,
             ClearRows, AdminCall, SweepBegins, ForgetFinished, ClearBegins, CancelAll, Restart, vars, boundVars
  <2> QED
      BY <1>1, <2>1
<1>4. With({"forgotten"})' = {} => With({"forgotten"}) = {}
    BY NextMoves DEF With, Moves
<1> QED
    BY <1>2, <1>3, <1>4 DEF NoBetter, Calm

LEMMA RequestKeeps ==
    ASSUME LInv, NoBetter, NEW i \in Items,
           NEW c \in Clients, RequestStep(c) \/ \E ttl \in Ttls : RequestFetch(c, ttl)
    PROVE  Good(i)'
<1>1. Good(i) /\ row \in [Items -> RowType] /\ dl \in [Items -> DlType] /\ folder \in [Items -> {"none", "part", "whole"}]
    BY DEF LInv, TypeOK, RowType, DlType
<1>2. ASSUME row' = row \/ RequestExtend(c), ~RequestCreate(c) PROVE Good(i)'
  <2>1. row'[i].status = row[i].status /\ row'[i].playable = row[i].playable
      BY <1>1, <1>2 DEF RequestExtend, RowType
  <2>2. Same(i) /\ Around
      BY <1>2, <2>1 DEF Same, Around, RequestStep, RequestFetch, RequestExtend, RequestFails, boundVars
  <2> QED
      BY <1>1, <2>2, SameKeeps
<1>3. CASE RequestCreate(c)
  <2>1. PICK j \in With({"none"}) :
          /\ row' = [row EXCEPT ![j] = [status |-> "queued", ttl |-> rq[c].ttl, left |-> 0, playable |-> FALSE]]
          /\ folder' = [folder EXCEPT ![j] = "part"]
          /\ dl' = [dl EXCEPT ![j] = [NoDownload EXCEPT !.pc = "wait"]]
      BY <1>3 DEF RequestCreate
  <2>2. UNCHANGED <<deleting, expiring, sweep, clear, faults, restarts, abandoned>>
      BY <1>3 DEF RequestCreate, boundVars
  <2>3. CASE i # j
    <3>1. row'[i] = row[i] /\ folder'[i] = folder[i] /\ dl'[i] = dl[i]
        BY <1>1, <2>1, <2>3
    <3>2. Same(i) /\ Around
        BY <2>2, <3>1 DEF Same, Around
    <3> QED
        BY <1>1, <3>2, SameKeeps
  <2>4. CASE i = j
    <3>1. row'[i].status = "queued" /\ row'[i].playable = FALSE /\ dl'[i].pc = "wait" /\ dl'[i].cancel = FALSE
        BY <1>1, <2>1, <2>4 DEF NoDownload
    <3>2. ~Removed(i)'
        BY <1>1, <2>2, <2>4 DEF With, Good, Phase, Removed
    <3>3. Alive(i)'
        BY <3>1 DEF Alive
    <3> QED
        BY <3>1, <3>2, <3>3 DEF Good, Phase, Folder, Plays, Honest, Attended
  <2> QED
      BY <2>3, <2>4
<1> QED
    BY <1>2, <1>3 DEF RequestStep, RequestFetch, RequestFails

(* A download's own step ... *)
LEMMA OwnStepKeeps ==
    ASSUME LInv, NoBetter, NEW i \in Items, DownloadStep(i)
    PROVE  Good(i)'
<1> USE DEF Alive, Removed, Taken, Doomed
<1>1. /\ Good(i) /\ row \in [Items -> RowType] /\ dl \in [Items -> DlType]
      /\ folder \in [Items -> {"none", "part", "whole"}] /\ faults \in Nat
    BY DEF LInv, TypeOK, RowType, DlType
<1>2. (Calm' => Calm) /\ (faults' = 0 => faults = 0)
    BY DEF NoBetter
<1>3. CASE TakeSlot(i)
  <2>1. /\ row' = row
        /\ folder' = folder
        /\ dl[i].pc = "wait" /\ ~dl[i].cancel
        /\ dl'[i].pc = "load" /\ dl'[i].cancel = dl[i].cancel
        /\ UNCHANGED <<deleting, expiring, sweep, clear, abandoned>>
      BY <1>1, <1>3 DEF TakeSlot, Runs, DlType, boundVars
  <2> QED
      BY <1>1, <1>2, <2>1 DEF Good, Phase, Folder, Plays, Honest, Attended, Active, Exists
<1>4. CASE LoadItem(i)
  <2>1. /\ row' = row
        /\ folder' = folder
        /\ dl[i].pc = "load" /\ ~dl[i].cancel
        /\ dl'[i].cancel = FALSE
        /\ dl'[i].pc = IF row[i].status = "queued" THEN "begin" ELSE "none"
        /\ UNCHANGED <<deleting, expiring, sweep, clear, abandoned>>
      BY <1>1, <1>4 DEF LoadItem, Runs, DlType, NoDownload, boundVars
  <2> QED
      BY <1>1, <1>2, <2>1 DEF Good, Phase, Folder, Plays, Honest, Attended, Active, Exists
<1>5. CASE Begin(i)
  <2>1. /\ dl[i].pc = "begin" /\ ~dl[i].cancel
        /\ sweep.pc # "remove" \/ i \in sweep.keep
        /\ row'[i].status = "downloading" /\ row'[i].playable = row[i].playable
        /\ folder'[i] = "part"
        /\ dl'[i].pc = "fetch" /\ dl'[i].cancel = dl[i].cancel
        /\ UNCHANGED <<deleting, expiring, sweep, clear, abandoned>>
      BY <1>1, <1>5 DEF Begin, Runs, Exists, RowType, DlType, boundVars
  <2> QED
      BY <1>1, <1>2, <2>1 DEF Good, Phase, Folder, Plays, Honest, Attended, Active, Exists
<1>6. CASE BeginFails(i)
  <2>1. /\ row' = row
        /\ folder' = folder
        /\ dl[i].pc = "begin" /\ ~dl[i].cancel
        /\ dl'[i].pc = "none" /\ dl'[i].cancel = FALSE
        /\ faults' # 0 \/ row[i].status \in {"none", "forgotten"}
        /\ UNCHANGED <<deleting, expiring, sweep, clear, abandoned>>
      BY <1>1, <1>6 DEF BeginFails, CommitFails, Exists, Runs, NoDownload, boundVars
  <2> QED
      BY <1>1, <1>2, <2>1 DEF Good, Phase, Folder, Plays, Honest, Attended, Active, Exists
<1>7. CASE Fetched(i)
  <2>1. /\ row' = row
        /\ dl[i].pc = "fetch" /\ ~dl[i].cancel
        /\ folder'[i] = "whole"
        /\ dl'[i].pc = "store" /\ dl'[i].cancel = dl[i].cancel
        /\ UNCHANGED <<deleting, expiring, sweep, clear, abandoned>>
      BY <1>1, <1>7 DEF Fetched, Runs, DlType, boundVars
  <2> QED
      BY <1>1, <1>2, <2>1 DEF Good, Phase, Folder, Plays, Honest, Attended, Active, Exists
<1>8. CASE Ready(i)
  <2>1. /\ folder' = folder
        /\ dl[i].pc = "store" /\ ~dl[i].cancel /\ Exists(i)
        /\ row'[i].status = "ready"
        /\ dl'[i].pc = "none" /\ dl'[i].cancel = FALSE
        /\ UNCHANGED <<deleting, expiring, sweep, clear, abandoned>>
      BY <1>1, StoredFacts, <1>8 DEF Ready, Runs, NoDownload, boundVars, LInv
  <2> QED
      BY <1>1, <1>2, <2>1 DEF Good, Phase, Folder, Plays, Honest, Attended, Active, Exists
<1>9. CASE Fail(i)
  <2>1. /\ row' = row
        /\ dl[i].pc \in {"fetch", "store"} /\ ~dl[i].cancel
        /\ folder'[i] = "none"
        /\ dl'[i].pc = "failing" /\ dl'[i].cancel = dl[i].cancel
        /\ UNCHANGED <<deleting, expiring, sweep, clear, abandoned>>
      BY <1>1, <1>9 DEF Fail, Runs, Without, DlType, boundVars
  <2> QED
      BY <1>1, <1>2, <2>1 DEF Good, Phase, Folder, Plays, Honest, Attended, Active, Exists
<1>10. CASE FailCommit(i)
  <2>1. /\ folder' = folder
        /\ dl[i].pc = "failing" /\ ~dl[i].cancel
        /\ IF Exists(i) THEN row'[i].status = "failed" /\ row'[i].playable = FALSE ELSE row'[i] = row[i]
        /\ dl'[i].pc = "none" /\ dl'[i].cancel = FALSE
        /\ UNCHANGED <<deleting, expiring, sweep, clear, abandoned>>
      BY <1>1, StoredFacts, <1>10 DEF FailCommit, Runs, NoDownload, boundVars, LInv
  <2> QED
      BY <1>1, <1>2, <2>1 DEF Good, Phase, Folder, Plays, Honest, Attended, Active, Exists
<1>11. CASE FailCommitFails(i)
  <2>1. /\ row' = row
        /\ folder' = folder
        /\ dl[i].pc = "failing" /\ ~dl[i].cancel /\ faults' # 0
        /\ dl'[i].pc = "none" /\ dl'[i].cancel = FALSE
        /\ UNCHANGED <<deleting, expiring, sweep, clear, abandoned>>
      BY <1>1, <1>11 DEF FailCommitFails, CommitFails, Runs, NoDownload, boundVars
  <2> QED
      BY <1>1, <1>2, <2>1 DEF Good, Phase, Folder, Plays, Honest, Attended, Active, Exists
<1>12. CASE Cancelled(i)
  <2>1. /\ row' = row
        /\ dl[i].cancel
        /\ IF dl[i].pc \in {"fetch", "store"} THEN folder'[i] = "none" ELSE folder'[i] = folder[i]
        /\ dl'[i].pc = "none" /\ dl'[i].cancel = FALSE
        /\ UNCHANGED <<deleting, expiring, sweep, clear, abandoned>>
      BY <1>1, <1>12 DEF Cancelled, Without, NoDownload, boundVars
  <2> QED
      BY <1>1, <1>2, <2>1 DEF Good, Phase, Folder, Plays, Honest, Attended, Active, Exists
<1> QED
    BY <1>3, <1>4, <1>5, <1>6, <1>7, <1>8, <1>9, <1>10, <1>11, <1>12 DEF DownloadStep

(* ... disturbs no other item. *)
LEMMA OtherStepKeeps ==
    ASSUME LInv, NoBetter, NEW i \in Items, NEW k \in Items \ {i}, DownloadStep(k)
    PROVE  Good(i)'
<1>1. /\ Good(i) /\ row \in [Items -> RowType] /\ dl \in [Items -> DlType]
      /\ folder \in [Items -> {"none", "part", "whole"}]
    BY DEF LInv, TypeOK, RowType, DlType
<1>2. row'[i] = row[i]
    BY <1>1 DEF DownloadStep, TakeSlot, LoadItem, Begin, BeginFails, Fetched, Ready, Fail, FailCommit,
                FailCommitFails, Cancelled
<1>3. folder'[i] = folder[i]
    BY <1>1 DEF DownloadStep, TakeSlot, LoadItem, Begin, BeginFails, Fetched, Ready, Fail, FailCommit,
                FailCommitFails, Cancelled, Without
<1>4. dl'[i] = dl[i]
    BY <1>1 DEF DownloadStep, TakeSlot, LoadItem, Begin, BeginFails, Fetched, Ready, Fail, FailCommit,
                FailCommitFails, Cancelled
<1>5. UNCHANGED <<deleting, expiring, sweep, clear, abandoned>>
    BY DEF DownloadStep, TakeSlot, LoadItem, Begin, BeginFails, Fetched, Ready, Fail, FailCommit,
           FailCommitFails, Cancelled, boundVars
<1>6. Same(i) /\ Around
    BY <1>2, <1>3, <1>4, <1>5 DEF Same, Around
<1> QED
    BY <1>1, <1>6, SameKeeps

(* An item whose download is cancelled, with the folder taken (DELETE), all rows about to go     *)
(* (clear_history), or by cancel_downloads.                                                      *)
LEMMA CancelKeeps ==
    ASSUME LInv, NoBetter, NEW i \in Items, NEW X, CancelDownloads(X),
           sweep' = sweep, abandoned \subseteq abandoned',
           expiring' = expiring, i \in deleting => i \in deleting',
           clear.on => clear'.on,
           i \in deleting' /\ i \notin deleting => i \in X /\ folder'[i] = "none" /\ Exists(i),
           folder'[i] \in {folder[i], "none"},
           folder'[i] # folder[i] => i \in deleting',
           i \in X /\ dl[i].pc # "none" => i \in deleting' \/ clear'.on \/ i \in abandoned'
    PROVE  Good(i)'
<1> USE DEF Alive, Removed, Taken, Doomed
<1>1. Good(i) /\ TypeOK /\ dl[i] \in DlType
    BY DEF LInv, TypeOK, DlType
<1>2. (Calm' => Calm) /\ (faults' = 0 => faults = 0)
    BY DEF NoBetter
<1>3. dl'[i].pc = dl[i].pc /\ dl'[i].cancel = (dl[i].cancel \/ (i \in X /\ dl[i].pc # "none"))
    BY <1>1, CancelFacts
<1>4. CASE row'[i] = row[i]
  <2>1. Phase(i)'
      BY <1>1, <1>3, <1>4 DEF Good, Phase, Exists
  <2>2. Folder(i)'
      BY <1>1, <1>3, <1>4 DEF Good, Folder
  <2>3. Plays(i)'
      BY <1>1, <1>4 DEF Good, Plays
  <2>4. Honest(i)'
      BY <1>1, <1>2, <1>3, <1>4 DEF Good, Honest
  <2>5. Attended(i)'
      BY <1>1, <1>2, <1>3, <1>4 DEF Good, Attended
  <2> QED
      BY <2>1, <2>2, <2>3, <2>4, <2>5 DEF Good
<1>5. CASE row'[i] # row[i]
  <2>1. /\ i \in X /\ ~dl[i].cancel /\ dl[i].pc \in {"begin", "store", "failing"} /\ Exists(i)
        /\ row'[i] = Stored(i)
      BY <1>1, <1>5, CancelFacts
  <2>2. /\ dl[i].pc = "begin" => row'[i].status = "downloading" /\ row'[i].playable = row[i].playable
        /\ dl[i].pc = "store" => row'[i].status = "ready"
        /\ dl[i].pc = "failing" => row'[i].status = "failed" /\ row'[i].playable = FALSE
      BY <1>1, <2>1, StoredFacts
  <2>3. dl'[i].cancel /\ (i \in deleting' \/ clear'.on \/ i \in abandoned')
      BY <1>3, <2>1
  <2>4. Phase(i)'
      BY <1>1, <1>3, <2>1, <2>2, <2>3 DEF Good, Phase, Exists
  <2>5. Folder(i)'
      BY <1>1, <1>3, <2>1, <2>2, <2>3 DEF Good, Folder, Exists, Phase
  <2>6. Plays(i)'
      BY <1>1, <2>1, <2>2 DEF Good, Plays, Phase
  <2>7. Honest(i)'
      BY <1>1, <1>2, <1>3, <2>1, <2>2, <2>3 DEF Good, Honest, Folder, Phase, Exists
  <2>8. Attended(i)'
      BY <2>3 DEF Attended
  <2> QED
      BY <2>4, <2>5, <2>6, <2>7, <2>8 DEF Good
<1> QED
    BY <1>4, <1>5

LEMMA DeleteKeeps ==
    ASSUME LInv, NoBetter, NEW i \in Items,
           NEW k \in Items, BecomesPlayable(k) \/ DeleteBegins(k) \/ DeleteStep(k)
    PROVE  Good(i)'
<1>1. /\ Good(i) /\ row \in [Items -> RowType] /\ row[i] \in RowType
      /\ folder \in [Items -> {"none", "part", "whole"}] /\ faults \in Nat
    BY DEF LInv, TypeOK, RowType
<1>2. (Calm' => Calm) /\ (faults' = 0 => faults = 0)
    BY DEF NoBetter
<1>3. CASE BecomesPlayable(k)
  <2>1. UNCHANGED <<folder, dl, deleting, expiring, sweep, clear, abandoned>>
      BY <1>3 DEF BecomesPlayable, boundVars
  <2>2. CASE i # k
    <3>1. row'[i] = row[i]
        BY <1>1, <1>3, <2>2 DEF BecomesPlayable
    <3>2. Same(i) /\ Around
        BY <2>1, <3>1 DEF Same, Around
    <3> QED
        BY <1>1, <3>2, SameKeeps
  <2>3. CASE i = k
    <3>1. dl[i].pc = "fetch" /\ ~dl[i].cancel /\ Exists(i)
        BY <1>3, <2>3 DEF BecomesPlayable, Runs
    <3>2. row[i].status = "downloading"
        BY <1>1, <3>1 DEF Good, Phase, Alive, Exists
    <3>3. row'[i].status = row[i].status
        BY <1>1, <1>3, <2>3 DEF BecomesPlayable, RowType
    <3> QED
        BY <1>1, <1>2, <2>1, <3>2, <3>3
           DEF Good, Phase, Folder, Plays, Honest, Attended, Alive, Removed, Taken, Doomed
  <2> QED
      BY <2>2, <2>3
<1>4. CASE DeleteBegins(k)
  <2>1. CancelDownloads({k}) /\ folder' = Without({k}) /\ deleting' = deleting \cup {k} /\ Exists(k)
      BY <1>4 DEF DeleteBegins
  <2>2. UNCHANGED <<expiring, sweep, clear, abandoned>>
      BY <1>4 DEF DeleteBegins, boundVars
  <2>3. folder'[i] = IF i = k THEN "none" ELSE folder[i]
      BY <2>1 DEF Without
  <2> QED
      BY <2>1, <2>2, <2>3, CancelKeeps
<1>5. CASE DeleteCommit(k)
  <2>1. /\ UNCHANGED <<folder, dl, expiring, sweep, clear, abandoned>>
        /\ deleting' = deleting \ {k} /\ k \in deleting /\ Exists(k)
      BY <1>5 DEF DeleteCommit, boundVars
  <2>2. CASE i # k
    <3>1. row'[i] = row[i]
        BY <1>1, <1>5, <2>2 DEF DeleteCommit
    <3>2. Same(i) /\ Around
        BY <2>1, <2>2, <3>1 DEF Same, Around
    <3> QED
        BY <1>1, <3>2, SameKeeps
  <2>3. CASE i = k
    <3>1. row'[i].status = "deleted" /\ row'[i].playable = FALSE
        BY <1>1, <1>5, <2>3 DEF DeleteCommit, RowType
    <3>2. folder[i] = "none" /\ ~Alive(i)
        BY <1>1, <2>1, <2>3 DEF Good, Phase, Folder, Removed
    <3> QED
        BY <1>1, <1>2, <2>1, <3>1, <3>2
           DEF Good, Phase, Folder, Plays, Honest, Attended, Alive, Removed, Taken, Doomed, Active
  <2> QED
      BY <2>2, <2>3
<1>6. CASE DeleteFails(k)
  <2>1. /\ UNCHANGED <<row, folder, dl, expiring, sweep, clear, abandoned>>
        /\ deleting' = deleting \ {k} /\ k \in deleting
        /\ faults' # 0 \/ row[k].status \in {"none", "forgotten"}
      BY <1>1, <1>6 DEF DeleteFails, CommitFails, Exists
  <2>2. CASE i # k
    <3>1. Same(i) /\ Around
        BY <2>1, <2>2 DEF Same, Around
    <3> QED
        BY <1>1, <3>1, SameKeeps
  <2>3. CASE i = k
    <3>1. faults' # 0 \/ row[i].status = "forgotten"
        BY <1>1, <2>1, <2>3 DEF Good, Phase, Removed
    <3>2. ~Calm'
        BY <3>1, <2>1 DEF Calm, With
    <3> QED
        BY <1>1, <1>2, <2>1, <3>1, <3>2
           DEF Good, Phase, Folder, Plays, Honest, Attended, Alive, Removed, Taken, Doomed, Active
  <2> QED
      BY <2>2, <2>3
<1> QED
    BY <1>3, <1>4, <1>5, <1>6 DEF DeleteStep

LEMMA CleanupKeeps ==
    ASSUME LInv, NoBetter, NEW i \in Items, Tick \/ ExpireStep
    PROVE  Good(i)'
<1>1. Good(i) /\ row[i] \in RowType /\ dl[i] \in DlType /\ faults \in Nat /\ expiring \subseteq Items
    BY DEF LInv, TypeOK, RowType, DlType
<1>2. (Calm' => Calm) /\ (faults' = 0 => faults = 0)
    BY DEF NoBetter
<1>3. CASE Tick
  <2>1. row'[i].status = row[i].status /\ row'[i].playable = row[i].playable
      BY <1>1, <1>3 DEF Tick, RowType
  <2>2. Same(i) /\ Around
      BY <1>3, <2>1 DEF Same, Around, Tick, boundVars
  <2> QED
      BY <1>1, <2>2, SameKeeps
<1>4. CASE ExpireSelect
  <2>1. /\ UNCHANGED <<row, dl, deleting, sweep, clear, abandoned>> /\ expiring = {}
        /\ i \in expiring' => row[i].status = "ready"
        /\ folder'[i] = IF i \in expiring' THEN "none" ELSE folder[i]
      BY <1>4 DEF ExpireSelect, Without, boundVars
  <2>2. CASE i \notin expiring'
    <3>1. Same(i) /\ Around
        BY <2>1, <2>2 DEF Same, Around
    <3> QED
        BY <1>1, <3>1, SameKeeps
  <2>3. CASE i \in expiring'
    <3>1. row[i].status = "ready" /\ folder'[i] = "none" /\ ~Alive(i)
        BY <1>1, <2>1, <2>3 DEF Good, Phase, Alive, DlType
    <3> QED
        BY <1>1, <1>2, <2>1, <2>3, <3>1
           DEF Good, Phase, Folder, Plays, Honest, Attended, Alive, Removed, Taken, Doomed, Active
  <2> QED
      BY <2>2, <2>3
<1>5. CASE ExpireCommit
  <2>1. /\ UNCHANGED <<folder, dl, deleting, sweep, clear, abandoned>> /\ expiring' = {}
        /\ row'[i] = IF i \in expiring THEN [row[i] EXCEPT !.status = "expired", !.playable = FALSE] ELSE row[i]
      BY <1>5 DEF ExpireCommit, boundVars
  <2>2. CASE i \notin expiring
    <3>1. Same(i) /\ Around
        BY <2>1, <2>2 DEF Same, Around
    <3> QED
        BY <1>1, <3>1, SameKeeps
  <2>3. CASE i \in expiring
    <3>1. row'[i].status = "expired" /\ row'[i].playable = FALSE
        BY <1>1, <2>1, <2>3 DEF RowType
    <3>2. folder[i] = "none" /\ ~Alive(i)
        BY <1>1, <2>3 DEF Good, Phase, Folder, Removed
    <3> QED
        BY <1>1, <1>2, <2>1, <3>1, <3>2
           DEF Good, Phase, Folder, Plays, Honest, Attended, Alive, Removed, Taken, Doomed, Active
  <2> QED
      BY <2>2, <2>3
<1>6. CASE ExpireFails
  <2>1. /\ UNCHANGED <<row, folder, dl, deleting, sweep, clear, abandoned>> /\ expiring' = {}
        /\ faults' # 0 \/ \E k \in expiring : row[k].status \in {"none", "forgotten"}
      BY <1>1, <1>6 DEF ExpireFails, CommitFails, Exists
  <2>2. ~Calm'
    <3>1. ASSUME NEW k \in expiring PROVE row[k].status # "none"
        BY <1>1 DEF LInv, Good, Phase, Removed
    <3> QED
        BY <1>1, <2>1, <3>1 DEF Calm, With
  <2>3. ~Alive(i) \/ i \notin expiring
      BY <1>1 DEF Good, Phase, Removed
  <2> QED
      BY <1>1, <1>2, <2>1, <2>2, <2>3
         DEF Good, Phase, Folder, Plays, Honest, Attended, Alive, Removed, Taken, Doomed, Active
<1> QED
    BY <1>3, <1>4, <1>5, <1>6 DEF ExpireStep

LEMMA SweepKeeps ==
    ASSUME LInv, NoBetter, NEW i \in Items, SweepBegins \/ SweepSelect \/ SweepRemove
    PROVE  Good(i)'
<1>1. Good(i)
    BY DEF LInv
<1>2. (Calm' => Calm) /\ (faults' = 0 => faults = 0)
    BY DEF NoBetter
<1>3. CASE SweepBegins \/ SweepSelect
  <2>1. UNCHANGED <<row, folder, dl, deleting, expiring, clear, abandoned>>
      BY <1>3 DEF SweepBegins, SweepSelect, boundVars
  <2>2. /\ Doomed(i) /\ row[i].status \in {"failed", "expired", "deleted", "forgotten"} => Doomed(i)'
        /\ Taken(i)' => row[i].status \notin {"queued", "downloading", "ready"}
    <3>1. CASE SweepBegins
      <4>1. sweep.pc = "off" /\ sweep'.pc = "select"
          BY <3>1 DEF SweepBegins, LInv, TypeOK
      <4> QED
          BY <4>1 DEF Doomed, Taken
    <3>2. CASE SweepSelect
      <4>1. /\ sweep'.pc = "remove"
            /\ i \in sweep'.keep <=> row[i].status \in {"queued", "downloading", "ready"}
          BY <3>2 DEF SweepSelect, With, Active
      <4> QED
          BY <4>1 DEF Doomed, Taken
    <3> QED
        BY <1>3, <3>1, <3>2
  <2> QED
      BY <1>1, <1>2, <2>1, <2>2 DEF Good, Phase, Folder, Plays, Honest, Attended, Alive, Removed
<1>4. CASE SweepRemove
  <2>1. /\ UNCHANGED <<row, dl, deleting, expiring, clear, abandoned>>
        /\ ~Doomed(i)' /\ ~Taken(i)'
        /\ folder'[i] = IF Taken(i) THEN "none" ELSE folder[i]
        /\ Doomed(i) => Taken(i)
      BY <1>4 DEF SweepRemove, Doomed, Taken, Without, boundVars
  <2> QED
      BY <1>1, <1>2, <2>1 DEF Good, Phase, Folder, Plays, Honest, Attended, Alive, Removed, Calm, With
<1> QED
    BY <1>3, <1>4

LEMMA AdminKeeps ==
    ASSUME LInv, NoBetter, NEW i \in Items, ClearRows \/ ForgetFinished \/ ClearBegins \/ CancelAll
    PROVE  Good(i)'
<1>1. Good(i) /\ row[i] \in RowType /\ dl[i] \in DlType
    BY DEF LInv, TypeOK, RowType, DlType
<1>2. (Calm' => Calm) /\ (faults' = 0 => faults = 0)
    BY DEF NoBetter
<1>3. CASE ClearRows
  <2>1. /\ UNCHANGED <<dl, deleting, expiring, abandoned>>
        /\ sweep'.pc = "select"
        /\ folder'[i] \in {"none", folder[i]}
        /\ IF Exists(i) THEN row'[i].status = "forgotten" /\ row'[i].playable = FALSE ELSE row'[i] = row[i]
    <3>1. sweep'.pc = "select"
        BY <1>3 DEF ClearRows, LInv, TypeOK
    <3> QED
        BY <1>3, <3>1 DEF ClearRows, Without, NoRow, boundVars
  <2>2. row'[i].status \in {"none", "forgotten"}
      BY <2>1 DEF Exists
  <2>3. row'[i].status = "none" => row[i].status = "none"
      BY <2>1
  <2>4. dl[i].cancel => ~Calm'
    <3>1. row[i].status = "none" => ~dl[i].cancel
        BY <1>1 DEF Good, Phase
    <3> QED
        BY <2>2, <2>3, <3>1 DEF Calm, With
  <2> QED
      BY <1>1, <1>2, <2>1, <2>2, <2>3, <2>4
         DEF Good, Phase, Folder, Plays, Honest, Attended, Alive, Removed, Taken, Doomed, Active
<1>4. CASE ForgetFinished
  <2>1. /\ UNCHANGED <<folder, dl, deleting, expiring, sweep, clear, abandoned>>
        /\ IF row[i].status \in {"failed", "expired", "deleted"}
           THEN row'[i].status = "forgotten" /\ row'[i].playable = FALSE ELSE row'[i] = row[i]
      BY <1>4 DEF ForgetFinished, NoRow, boundVars
  <2>2. CASE row'[i] = row[i]
    <3>1. Same(i) /\ Around
        BY <2>1, <2>2 DEF Same, Around
    <3> QED
        BY <1>1, <3>1, SameKeeps
  <2>3. CASE row'[i] # row[i]
    <3>1. ~Calm'
        BY <2>1, <2>3 DEF Calm, With
    <3> QED
        BY <1>1, <1>2, <2>1, <2>3, <3>1
           DEF Good, Phase, Folder, Plays, Honest, Attended, Alive, Removed, Taken, Doomed, Active
  <2> QED
      BY <2>2, <2>3
<1>5. CASE ClearBegins
  <2>1. /\ CancelDownloads(clear'.ids) /\ clear'.on
        /\ UNCHANGED <<folder, deleting, expiring, sweep, abandoned>>
      BY <1>5 DEF ClearBegins, boundVars
  <2> QED
      BY <2>1, CancelKeeps
<1>6. CASE CancelAll
  <2>1. /\ CancelDownloads(Items)
        /\ abandoned' = abandoned \cup {k \in Items : dl[k].pc # "none"}
        /\ UNCHANGED <<folder, deleting, expiring, sweep, clear>>
      BY <1>6 DEF CancelAll
  <2> QED
      BY <2>1, CancelKeeps
<1> QED
    BY <1>3, <1>4, <1>5, <1>6

LEMMA RestartKeeps == ASSUME LInv, Restart, NEW i \in Items PROVE Good(i)'
<1>1. Good(i) /\ row[i] \in RowType /\ restarts \in Nat
    BY DEF LInv, TypeOK, RowType
<1>2. /\ dl'[i].pc = "none" /\ dl'[i].cancel = FALSE
      /\ deleting' = {} /\ expiring' = {} /\ sweep'.pc = "off"
      /\ folder'[i] = IF row[i].status = "ready" THEN folder[i] ELSE "none"
      /\ restarts' = restarts + 1
    BY DEF Restart, NoDownload, Without, With
<1>3. IF row[i].status \in Active THEN row'[i].status = "failed" /\ row'[i].playable = FALSE
                                  ELSE row'[i] = row[i]
    BY <1>1 DEF Restart, RowType
<1>4. ~Calm'
    BY <1>1, <1>2 DEF Calm
<1> QED
    BY <1>1, <1>2, <1>3, <1>4
       DEF Good, Phase, Folder, Plays, Honest, Attended, Alive, Removed, Taken, Doomed, Active

-----------------------------------------------------------------------------
LEMMA LInvInit == Init => LInv
<1> SUFFICES ASSUME Init PROVE LInv
    OBVIOUS
<1>1. ASSUME NEW i \in Items PROVE Good(i)
  <2>1. /\ row[i].status = "none" /\ row[i].playable = FALSE /\ dl[i].pc = "none" /\ dl[i].cancel = FALSE
        /\ deleting = {} /\ expiring = {} /\ sweep.pc = "off"
      BY DEF Init, NoRow, NoDownload
  <2> QED
      BY <2>1 DEF Good, Phase, Folder, Plays, Honest, Attended, Alive, Removed, Taken, Doomed, Active
<1> QED
    BY <1>1, TypeInit DEF LInv

LEMMA LInvNext == LInv /\ [Next]_vars => LInv'
<1> SUFFICES ASSUME LInv, [Next]_vars PROVE LInv'
    OBVIOUS
<1>1. TypeOK' /\ NoBetter
    BY TypeNext, NextNoBetter DEF LInv
<1>2. ASSUME NEW i \in Items PROVE Good(i)'
  <2>1. ASSUME NEW k \in Items, DownloadStep(k) PROVE Good(i)'
      BY <1>1, <2>1, OwnStepKeeps, OtherStepKeeps
  <2>2. CASE UNCHANGED vars
    <3>1. Good(i) /\ Same(i) /\ Around
        BY <1>1, <2>2 DEF LInv, Same, Around, vars, boundVars
    <3> QED
        BY <3>1, SameKeeps
  <2> QED
      BY <1>1, <2>1, <2>2, RequestKeeps, DeleteKeeps, CleanupKeeps, SweepKeeps, AdminKeeps, RestartKeeps
         DEF Next, AdminStep, AdminCall
<1> QED
    BY <1>1, <1>2 DEF LInv

LEMMA LibraryHolds == Spec => []LInv
<1> QED
    BY LInvInit, LInvNext, PTL DEF Spec

(* What the API tells of an item: a ready one has its file, one that plays grows or is complete, *)
(* whatever requests, downloads, DELETE, the cleanup loop and the admin's jobs do in between.    *)
THEOREM ItemsAreServable == Spec => []Servable
<1>1. LInv => ReadyHasFile
  <2> SUFFICES ASSUME LInv, faults + restarts = 0, With({"forgotten"}) = {},
                      NEW i \in With({"ready"}) \ abandoned
               PROVE  folder[i] = "whole" \/ i \in deleting \cup expiring \/ clear.on
      BY DEF ReadyHasFile
  <2>1. faults = 0 /\ restarts = 0
      BY DEF LInv, TypeOK
  <2>2. i \in Items /\ row[i].status = "ready"
      BY DEF With
  <2> QED
      BY <2>1, <2>2 DEF LInv, Good, Honest, Calm, Removed
<1>2. LInv => PlayableIsLive
    BY DEF LInv, Good, Plays, PlayableIsLive
<1>3. LInv => Servable
    BY <1>1, <1>2 DEF Servable
<1> QED
    BY <1>3, LibraryHolds, PTL

(* No folder outlives its item, unless a download or a sweep is about to take it.                *)
THEOREM FoldersGo == Spec => []NoFolderLeft
<1>1. LInv => NoFolderLeft
  <2> SUFFICES ASSUME LInv, NEW i \in Items,
                      row[i].status \in {"failed", "expired", "deleted", "forgotten"}
               PROVE  folder[i] = "none" \/ dl[i].pc # "none" \/ sweep.pc # "off"
      BY DEF NoFolderLeft, With
  <2> QED
      BY DEF LInv, Good, Folder, Doomed, Taken
<1> QED
    BY <1>1, LibraryHolds, PTL

(* An item that waits or downloads is being worked on.                                           *)
THEOREM ActiveIsAttended == Spec => []ActiveHasDownload
<1>1. LInv => ActiveHasDownload
    BY DEF LInv, Good, Attended, Alive, ActiveHasDownload, With
<1> QED
    BY <1>1, LibraryHolds, PTL

(* What was deleted stays deleted, whatever was still on its way when it was.                    *)
THEOREM DeletedIsFinal == Spec => DeletedStays
<1>1. LInv /\ [Next]_vars
        => [\A i \in Items : row[i].status = "deleted"
                                => row'[i].status \in {"deleted", "expired", "forgotten"}]_vars
    BY NextMoves DEF Moves
<1> QED
    BY <1>1, LibraryHolds, PTL DEF Spec, DeletedStays

-----------------------------------------------------------------------------
(* The disk clean.  What an item becomes after the clean has read the live ones is safe because  *)
(* its folder is then younger than the folders the clean goes for, and what the clean goes for   *)
(* cannot come to life again.                                                                    *)
CleanTyped ==
    /\ item \in [LibItems -> {"none", "active", "ended", "forgotten"}]
    /\ dir \in [LibItems -> {"none", "fresh", "old"}]
    /\ clean \in [pc : {"idle", "tidy", "look", "select", "delete"},
                  live : SUBSET LibItems, cands : SUBSET LibItems]

CleanSafe(i) ==
    /\ item[i] = "none" => dir[i] = "none"
    /\ clean.pc = "select" /\ i \notin clean.live /\ item[i] = "active" => dir[i] # "old"
    /\ clean.pc = "delete" /\ i \in clean.cands => item[i] \in {"ended", "forgotten"}

CInv == CleanTyped /\ spoiled = {} /\ \A i \in LibItems : CleanSafe(i)

LEMMA CInvInit == CleanInit => CInv
    BY DEF CleanInit, CInv, CleanTyped, CleanSafe, NoClean

LEMMA LibraryStepSafe ==
    ASSUME CInv, NEW k \in LibItems, ItemRequested(k) \/ ItemWrites(k) \/ ItemEnds(k)
    PROVE  CInv'
<1>1. clean' = clean /\ spoiled' = spoiled
    BY DEF ItemRequested, ItemWrites, ItemEnds
<1>2. CleanTyped'
    BY DEF CInv, CleanTyped, ItemRequested, ItemWrites, ItemEnds
<1>3. ASSUME NEW i \in LibItems PROVE CleanSafe(i)'
  <2>1. CASE i # k
    <3>1. item'[i] = item[i] /\ dir'[i] = dir[i]
        BY <2>1 DEF CInv, CleanTyped, ItemRequested, ItemWrites, ItemEnds
    <3> QED
        BY <1>1, <3>1 DEF CInv, CleanSafe
  <2>2. CASE i = k
    <3>1. \/ item[i] = "none" /\ item'[i] = "active" /\ dir'[i] = dir[i]
          \/ item[i] = "active" /\ item'[i] = "active" /\ dir'[i] = "fresh"
          \/ item[i] = "active" /\ item'[i] = "ended"
        BY <2>2 DEF CInv, CleanTyped, ItemRequested, ItemWrites, ItemEnds
    <3> QED
        BY <1>1, <3>1 DEF CInv, CleanSafe
  <2> QED
      BY <2>1, <2>2
<1> QED
    BY <1>1, <1>2, <1>3 DEF CInv

LEMMA CleanStepSafe ==
    ASSUME CInv, CleanSteps \/ CleanBegins \/ CleanFails \/ CleanTick
    PROVE  CInv'
<1>1. clean \in [pc : {"idle", "tidy", "look", "select", "delete"},
                 live : SUBSET LibItems, cands : SUBSET LibItems]
    BY DEF CInv, CleanTyped
<1>2. CASE CleanTick
  <2>1. clean' = clean /\ item' = item /\ spoiled' = spoiled /\ clean.pc # "select"
        /\ dir' = [i \in LibItems |-> IF dir[i] = "fresh" THEN "old" ELSE dir[i]]
      BY <1>2 DEF CleanTick
  <2> QED
      BY <2>1 DEF CInv, CleanTyped, CleanSafe
<1>3. CASE CleanBegins \/ CleanFails \/ CleanEnds
  <2>1. /\ clean'.pc \in {"tidy", "idle"} /\ UNCHANGED <<item, dir, spoiled>>
        /\ clean' \in [pc : {"idle", "tidy", "look", "select", "delete"},
                       live : SUBSET LibItems, cands : SUBSET LibItems]
      BY <1>3 DEF CleanBegins, CleanFails, CleanEnds, NoClean, libraryVars
  <2> QED
      BY <2>1 DEF CInv, CleanTyped, CleanSafe
<1>4. CASE Tidy
  <2>1. /\ clean'.pc = "look" /\ UNCHANGED <<dir, spoiled>>
        /\ clean' \in [pc : {"idle", "tidy", "look", "select", "delete"},
                       live : SUBSET LibItems, cands : SUBSET LibItems]
      BY <1>1, <1>4 DEF Tidy
  <2>2. /\ item' \in [LibItems -> {"none", "active", "ended", "forgotten"}]
        /\ \A i \in LibItems : item'[i] = "none" => item[i] = "none"
      BY <1>4 DEF Tidy, CInv, CleanTyped
  <2> QED
      BY <2>1, <2>2 DEF CInv, CleanTyped, CleanSafe
<1>5. CASE SelectLive
  <2>1. /\ clean'.pc = "select" /\ clean'.live = Live /\ UNCHANGED <<item, dir, spoiled>>
        /\ clean' \in [pc : {"idle", "tidy", "look", "select", "delete"},
                       live : SUBSET LibItems, cands : SUBSET LibItems]
      BY <1>1, <1>5 DEF SelectLive, Live, libraryVars
  <2> QED
      BY <2>1 DEF CInv, CleanTyped, CleanSafe, Live
<1>6. CASE Scan
  <2>1. /\ clean.pc = "select" /\ clean'.pc = "delete" /\ clean'.cands = Orphans(clean.live)
        /\ UNCHANGED <<item, dir, spoiled>>
        /\ clean' \in [pc : {"idle", "tidy", "look", "select", "delete"},
                       live : SUBSET LibItems, cands : SUBSET LibItems]
      BY <1>1, <1>6 DEF Scan, Orphans, libraryVars
  <2> QED
      BY <2>1 DEF CInv, CleanTyped, CleanSafe, Orphans
<1>7. ASSUME NEW k \in LibItems, DeleteOne(k) PROVE CInv'
  <2>1. item[k] \in {"ended", "forgotten"}
      BY <1>7 DEF DeleteOne, CInv, CleanSafe
  <2>2. /\ clean'.pc = clean.pc /\ clean'.cands = clean.cands \ {k} /\ clean.pc = "delete"
        /\ spoiled' = spoiled /\ item' = item
        /\ dir' = [dir EXCEPT ![k] = "none"]
        /\ clean' \in [pc : {"idle", "tidy", "look", "select", "delete"},
                       live : SUBSET LibItems, cands : SUBSET LibItems]
      BY <1>1, <1>7, <2>1 DEF DeleteOne
  <2> QED
      BY <2>2 DEF CInv, CleanTyped, CleanSafe
<1> QED
    BY <1>2, <1>3, <1>4, <1>5, <1>6, <1>7 DEF CleanSteps

LEMMA CInvNext == CInv /\ [CleanNext]_cleanVars => CInv'
<1> SUFFICES ASSUME CInv, [CleanNext]_cleanVars PROVE CInv'
    OBVIOUS
<1>1. CASE PanelAsks \/ AgentTakes \/ AgentDone \/ UNCHANGED cleanVars
  <2>1. UNCHANGED <<item, dir, clean, spoiled>>
      BY <1>1 DEF PanelAsks, AgentTakes, AgentDone, libraryVars, cleanVars
  <2> QED
      BY <2>1 DEF CInv, CleanTyped, CleanSafe
<1> QED
    BY <1>1, LibraryStepSafe, CleanStepSafe
       DEF CleanNext, LibraryStep, ManualClean, AutomaticClean

(* diskjob.run: no clean takes the folder of a live item, although it reads which are live, lists *)
(* the folders and deletes them in three steps, and the library goes on between them.            *)
THEOREM CleansAreSafe == CleanSpec => []CleanSparesLive
<1>1. CInv => CleanSparesLive
    BY DEF CInv, CleanSparesLive
<1> QED
    BY <1>1, CInvInit, CInvNext, PTL DEF CleanSpec
=============================================================================
