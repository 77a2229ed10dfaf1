--------------------------- MODULE TaskRunProofs ----------------------------
(***************************************************************************)
(* Theorems about TaskRun.tla and TaskWait.tla, for any sources, ranking,  *)
(* clients, waiters, faults and restarts, and with or without PromptTail,  *)
(* which SomebodyIsAtWork alone needs.                                     *)
(***************************************************************************)
EXTENDS TaskWait, TLAPS, FiniteSetTheorems, WellFoundedInduction

-----------------------------------------------------------------------------
(* Types *)

LEMMA CountIsNat ==
    ASSUME NEW S \in SUBSET Sources
    PROVE  Cardinality(S) \in Nat
BY SourcesAssumption, FS_Subset, FS_CardinalityType

LEMMA IdleType == Idle \in JobType
BY DEF Idle, JobType

(* run_ranked's inner loop only turns candidates into sources that were asked. *)
LEMMA StartMoreFacts ==
    ASSUME NEW b \in JobType
    PROVE  /\ StartMore(b) \in JobType
           /\ StartMore(b).pc \in {"fan", "final"}
           /\ StartMore(b).saving = b.saving
           /\ \A s \in Sources : \/ StartMore(b).phase[s] = b.phase[s]
                                 \/ b.phase[s] = "candidate" /\ StartMore(b).phase[s] = "asked"
<1> DEFINE waiting == {s \in Sources : b.phase[s] = "candidate"}
           running == {s \in Sources : b.phase[s] \in {"asked", "answered"}}
           starts  == {s \in waiting : \/ b.wanted = 0
                                       \/ b.found + Cardinality(running)
                                            + Cardinality(waiting \cap Before[s]) < b.wanted}
           phase   == [s \in Sources |-> IF s \in starts THEN "asked" ELSE b.phase[s]]
           next    == IF running \cup starts = {} THEN "final" ELSE "fan"
<1>1. StartMore(b) = [b EXCEPT !.phase = phase, !.pc = next]
    BY DEF StartMore
<1>2. starts \subseteq waiting
    OBVIOUS
<1>3. next \in {"fan", "final"}
    OBVIOUS
<1> HIDE DEF starts, next
<1>4. /\ phase \in [Sources -> {"no", "candidate", "asked", "answered", "batch", "saving", "saved"}]
      /\ \A s \in Sources : phase[s] = b.phase[s] \/ (b.phase[s] = "candidate" /\ phase[s] = "asked")
    BY <1>2 DEF JobType
<1> HIDE DEF phase
<1> DEFINE r == [b EXCEPT !.phase = phase, !.pc = next]
<1>5. r \in JobType
    BY <1>3, <1>4 DEF JobType
<1>6. r.phase = phase /\ r.pc = next /\ r.saving = b.saving
    BY DEF JobType
<1> HIDE DEF r
<1>7. StartMore(b) = r
    BY <1>1 DEF r
<1> QED BY <1>3, <1>4, <1>5, <1>6, <1>7

(* The signals of a task concern its waiters only. *)
SignalsOK == event \in BOOLEAN /\ armed \in SUBSET Waiters /\ fired \in SUBSET Waiters

LEMMA SignalsType ==
    ASSUME SignalsOK, Register \/ Notify \/ Unregister \/ UNCHANGED signalVars
    PROVE  SignalsOK'
BY DEF SignalsOK, Register, Notify, Unregister, signalVars

RowType == [status : Statuses, version : Nat, wanted : Nat, fresh : BOOLEAN, total : Nat, starred : Nat]
ReqType == [op : {"none", "more", "refresh"}, version : Nat, wanted : Nat, chosen : SUBSET Sources]
CleanupType == [on : BOOLEAN, version : Nat, seen : SUBSET Sources, stale : BOOLEAN]
RunsType == [Sources -> Outcomes \cup {"none"}]
BoundsOK == faults \in Nat /\ toggles \in Nat /\ restarts \in Nat

LEMMA TypeParts ==
    TypeOK <=> /\ row \in RowType
               /\ runs \in RunsType
               /\ links \in SUBSET Sources
               /\ enabled \in SUBSET Sources
               /\ job \in [Jobs -> JobType]
               /\ known \in Jobs \cup {NoJob}
               /\ SignalsOK
               /\ req \in ReqType
               /\ cleanup \in CleanupType
               /\ BoundsOK
BY DEF TypeOK, RowType, RunsType, SignalsOK, ReqType, CleanupType, BoundsOK

LEMMA TypePartsNext ==
    ASSUME row' \in RowType, runs' \in RunsType, links' \in SUBSET Sources, enabled' \in SUBSET Sources,
           job' \in [Jobs -> JobType], known' \in Jobs \cup {NoJob}, SignalsOK', req' \in ReqType,
           cleanup' \in CleanupType, BoundsOK'
    PROVE  TypeOK'
BY DEF TypeOK, RowType, RunsType, SignalsOK, ReqType, CleanupType, BoundsOK

(* One lemma per kind of step: every variable it writes keeps its type. *)
LEMMA QueueStepType ==
    ASSUME TypeOK, NEW j \in Jobs, QueueRead(j) \/ QueueCommit(j) \/ QueueFails(j)
    PROVE  TypeOK'
<1> DEFINE x == [job[j] EXCEPT !.pc = IF row.status = "pending" THEN "queueing" ELSE "queued",
                               !.version = row.version]
           y == [job[j] EXCEPT !.pc = "queued"]
<1>1. /\ row \in RowType /\ runs \in RunsType /\ links \in SUBSET Sources /\ enabled \in SUBSET Sources
      /\ job \in [Jobs -> JobType] /\ known \in Jobs \cup {NoJob} /\ SignalsOK /\ req \in ReqType
      /\ cleanup \in CleanupType /\ BoundsOK
    BY TypeParts
<1>2. x \in JobType /\ y \in JobType
    <2>1. job[j] \in JobType /\ row.version \in Nat
        BY <1>1 DEF RowType
    <2> QED BY <2>1 DEF JobType
<1>3. job' = [job EXCEPT ![j] = x] \/ job' = [job EXCEPT ![j] = y]
    BY <1>1 DEF QueueRead, QueueCommit, QueueFails, JobType
<1>4. job' \in [Jobs -> JobType]
    <2> HIDE DEF x, y
    <2> QED BY <1>1, <1>2, <1>3
<1>5. row' \in RowType
    <2>1. job[j].version + 1 \in Nat /\ "queued" \in Statuses
        BY <1>1 DEF JobType, Statuses, InFlight
    <2>2. [row EXCEPT !.status = "queued", !.version = job[j].version + 1] \in RowType
        BY <1>1, <2>1 DEF RowType
    <2> QED BY <2>2, <1>1 DEF QueueRead, QueueCommit, QueueFails, rowVars
<1>6. SignalsOK' /\ BoundsOK'
    BY <1>1, SignalsType DEF QueueRead, QueueCommit, QueueFails, CommitFails, boundVars, BoundsOK
<1>7. UNCHANGED <<runs, links, enabled, known, req, cleanup>>
    BY DEF QueueRead, QueueCommit, QueueFails, rowVars
<1> QED BY <1>1, <1>4, <1>5, <1>6, <1>7, TypePartsNext

LEMMA LoadType ==
    ASSUME TypeOK, NEW j \in Jobs, Load(j)
    PROVE  TypeOK'
<1> DEFINE p == [s \in Sources |-> IF s \in (enabled \cap job[j].only) \ Tried THEN "candidate" ELSE "no"]
           w == IF job[j].refresh THEN 0 ELSE row.wanted
           x == [job[j] EXCEPT !.pc = "announce", !.version = row.version, !.wanted = w,
                               !.found = PriorFound, !.anyOk = PriorOk, !.phase = p]
           y == [job[j] EXCEPT !.pc = "close"]
<1>1. /\ row \in RowType /\ runs \in RunsType /\ links \in SUBSET Sources /\ enabled \in SUBSET Sources
      /\ job \in [Jobs -> JobType] /\ known \in Jobs \cup {NoJob} /\ SignalsOK /\ req \in ReqType
      /\ cleanup \in CleanupType /\ BoundsOK
    BY TypeParts
<1>2. PriorFound \in Nat /\ PriorOk \in BOOLEAN
    BY CountIsNat DEF PriorFound, PriorOk
<1>3. p \in [Sources -> {"no", "candidate", "asked", "answered", "batch", "saving", "saved"}]
    OBVIOUS
<1>4. w \in Nat
    BY <1>1 DEF RowType
<1>5. job' = [job EXCEPT ![j] = x] \/ job' = [job EXCEPT ![j] = y]
    BY <1>1 DEF Load, LoadWith
<1>6. x \in JobType
    <2>1. job[j] \in JobType /\ row.version \in Nat
        BY <1>1 DEF RowType
    <2> HIDE DEF p, w
    <2> QED BY <2>1, <1>2, <1>3, <1>4 DEF JobType
<1>7. y \in JobType
    BY <1>1, SMTT(30) DEF JobType
<1>8. job' \in [Jobs -> JobType]
    <2> HIDE DEF x, y
    <2> QED BY <1>1, <1>5, <1>6, <1>7
<1>9. UNCHANGED <<rowVars, enabled, known, signalVars, req, cleanup, boundVars>>
    BY DEF Load, LoadWith
<1>10. SignalsOK' /\ BoundsOK'
    BY <1>1, <1>9, SignalsType DEF boundVars, BoundsOK
<1> QED BY <1>1, <1>8, <1>9, <1>10, TypePartsNext DEF rowVars

LEMMA AnnounceType ==
    ASSUME TypeOK, NEW j \in Jobs, Announce(j)
    PROVE  TypeOK'
<1> DEFINE n == Cardinality(Tried) + Cardinality(In(j, {"candidate"}))
           m == Cardinality(Starred \cap (Tried \cup In(j, {"candidate"})))
           x == [row EXCEPT !.total = n, !.starred = m, !.status = "done", !.version = job[j].version + 1]
           y == [row EXCEPT !.total = n, !.starred = m, !.status = "running"]
           z == [job[j] EXCEPT !.pc = "close"]
<1>1. /\ row \in RowType /\ runs \in RunsType /\ links \in SUBSET Sources /\ enabled \in SUBSET Sources
      /\ job \in [Jobs -> JobType] /\ known \in Jobs \cup {NoJob} /\ SignalsOK /\ req \in ReqType
      /\ cleanup \in CleanupType /\ BoundsOK
    BY TypeParts
<1>2. n \in Nat /\ m \in Nat
    <2>1. Tried \in SUBSET Sources /\ In(j, {"candidate"}) \in SUBSET Sources
          /\ Starred \cap (Tried \cup In(j, {"candidate"})) \in SUBSET Sources
        BY SourcesAssumption DEF Tried, In
    <2>2. Cardinality(Tried) \in Nat /\ Cardinality(In(j, {"candidate"})) \in Nat /\ m \in Nat
        BY <2>1, CountIsNat
    <2> QED BY <2>2
<1>3. \/ row' = x /\ job' = [job EXCEPT ![j] = z]
      \/ row' = y /\ job' = [job EXCEPT ![j] = StartMore(job[j])]
    BY <1>1 DEF Announce, RowType
<1>4. row' \in RowType
    <2> HIDE DEF n, m
    <2>1. job[j].version + 1 \in Nat /\ "done" \in Statuses /\ "running" \in Statuses
        BY <1>1 DEF JobType, Statuses, InFlight
    <2>2. x \in RowType /\ y \in RowType
        BY <1>1, <1>2, <2>1 DEF RowType
    <2> HIDE DEF x, y
    <2> QED BY <1>3, <2>2
<1>5. job' \in [Jobs -> JobType]
    <2>1. z \in JobType /\ StartMore(job[j]) \in JobType
        BY <1>1, StartMoreFacts, SMTT(30) DEF JobType
    <2> HIDE DEF z
    <2> QED BY <1>1, <1>3, <2>1
<1>6. UNCHANGED <<runs, links, enabled, known, signalVars, req, cleanup, boundVars>>
    BY DEF Announce
<1>7. SignalsOK' /\ BoundsOK'
    BY <1>1, <1>6, SignalsType DEF boundVars, BoundsOK
<1> QED BY <1>1, <1>4, <1>5, <1>6, <1>7, TypePartsNext

LEMMA ResultStepType ==
    ASSUME TypeOK, NEW j \in Jobs, NEW s \in Sources,
           \/ \E o \in Outcomes : Answer(j, s, o)
           \/ Wake(j)
           \/ TakeResult(j, s)
    PROVE  TypeOK'
<1>1. /\ row \in RowType /\ runs \in RunsType /\ links \in SUBSET Sources /\ enabled \in SUBSET Sources
      /\ job \in [Jobs -> JobType] /\ known \in Jobs \cup {NoJob} /\ SignalsOK /\ req \in ReqType
      /\ cleanup \in CleanupType /\ BoundsOK
    BY TypeParts
<1>2. job' \in [Jobs -> JobType]
    <2>1. ASSUME NEW o \in Outcomes, Answer(j, s, o)
          PROVE  job' \in [Jobs -> JobType]
        <3> DEFINE p == [job[j].phase EXCEPT ![s] = "answered"]
                   q == [job[j].out EXCEPT ![s] = o]
                   x == [job[j] EXCEPT !.phase = p, !.out = q]
        <3>1. job' = [job EXCEPT ![j] = x]
            BY <1>1, <2>1 DEF Answer, JobType
        <3>2. p \in [Sources -> {"no", "candidate", "asked", "answered", "batch", "saving", "saved"}]
            BY <1>1 DEF JobType
        <3>3. q \in [Sources -> Outcomes \cup {"none"}]
            BY <1>1 DEF JobType
        <3>4. x \in JobType
            <4>1. job[j] \in JobType
                BY <1>1
            <4> HIDE DEF p, q
            <4> QED BY <4>1, <3>2, <3>3 DEF JobType
        <3> HIDE DEF x
        <3> QED BY <1>1, <3>1, <3>4
    <2>2. CASE Wake(j)
        <3> DEFINE p == [u \in Sources |-> IF job[j].phase[u] = "answered" THEN "batch" ELSE job[j].phase[u]]
                   x == [job[j] EXCEPT !.phase = p]
        <3>1. job' = [job EXCEPT ![j] = x]
            BY <1>1, <2>2 DEF Wake, JobType
        <3>2. p \in [Sources -> {"no", "candidate", "asked", "answered", "batch", "saving", "saved"}]
            BY <1>1 DEF JobType
        <3>3. x \in JobType
            <4>1. job[j] \in JobType
                BY <1>1
            <4> HIDE DEF p
            <4> QED BY <4>1, <3>2 DEF JobType
        <3> HIDE DEF x
        <3> QED BY <1>1, <3>1, <3>3
    <2>3. CASE TakeResult(j, s)
        <3> DEFINE f == IF job[j].out[s] = "ok" THEN job[j].found + 1 ELSE job[j].found
                   a == job[j].anyOk \/ job[j].out[s] # "error"
                   x == [job[j] EXCEPT !.pc = "save", !.saving = {s}, !.phase[s] = "saving",
                                       !.found = f, !.anyOk = a]
        <3>1. job' = [job EXCEPT ![j] = x]
            BY <1>1, <2>3 DEF TakeResult
        <3>2. f \in Nat /\ a \in BOOLEAN
            BY <1>1 DEF JobType
        <3>3. x \in JobType
            <4>1. job[j] \in JobType
                BY <1>1
            <4> HIDE DEF f, a
            <4> QED BY <4>1, <3>2 DEF JobType
        <3> HIDE DEF x
        <3> QED BY <1>1, <3>1, <3>3
    <2> QED BY <2>1, <2>2, <2>3
<1>3. UNCHANGED <<rowVars, enabled, known, signalVars, req, cleanup, boundVars>>
    BY DEF Answer, Wake, TakeResult
<1>4. SignalsOK' /\ BoundsOK'
    BY <1>1, <1>3, SignalsType DEF boundVars, BoundsOK
<1> QED BY <1>1, <1>2, <1>3, <1>4, TypePartsNext DEF rowVars

LEMMA SaveResultType ==
    ASSUME TypeOK, NEW j \in Jobs, SaveResult(j)
    PROVE  TypeOK'
<1>1. /\ row \in RowType /\ runs \in RunsType /\ links \in SUBSET Sources /\ enabled \in SUBSET Sources
      /\ job \in [Jobs -> JobType] /\ known \in Jobs \cup {NoJob} /\ SignalsOK /\ req \in ReqType
      /\ cleanup \in CleanupType /\ BoundsOK
    BY TypeParts
<1>2. PICK s \in job[j].saving :
        /\ runs' = [runs EXCEPT ![s] = job[j].out[s]]
        /\ links' = IF job[j].out[s] = "ok" THEN links \cup {s} ELSE links \ {s}
        /\ row' = [row EXCEPT !.version = job[j].version + 1]
        /\ LET b == [job[j] EXCEPT !.pc = "fan", !.saving = {}, !.version = @ + 1, !.phase[s] = "saved"]
           IN  job' = [job EXCEPT ![j] = IF \E u \in Sources : b.phase[u] = "batch" THEN b ELSE StartMore(b)]
    BY DEF SaveResult
<1> DEFINE b == [job[j] EXCEPT !.pc = "fan", !.saving = {}, !.version = @ + 1, !.phase[s] = "saved"]
<1>3. /\ job[j] \in JobType
      /\ s \in Sources
      /\ job[j].out \in [Sources -> Outcomes \cup {"none"}]
      /\ job[j].version \in Nat
    BY <1>1 DEF JobType
<1>4. b \in JobType
    <2> DEFINE p == [job[j].phase EXCEPT ![s] = "saved"]
               v == job[j].version + 1
    <2>1. /\ p \in [Sources -> {"no", "candidate", "asked", "answered", "batch", "saving", "saved"}]
          /\ v \in Nat
        BY <1>3 DEF JobType
    <2>2. b = [job[j] EXCEPT !.pc = "fan", !.saving = {}, !.version = v, !.phase = p]
        BY <1>3 DEF JobType
    <2>3. [job[j] EXCEPT !.pc = "fan", !.saving = {}, !.version = v, !.phase = p] \in JobType
        <3> HIDE DEF p, v
        <3>1. job[j] \in JobType
            BY <1>3
        <3> QED BY <3>1, <2>1 DEF JobType
    <2> QED BY <2>2, <2>3
<1>5. job' \in [Jobs -> JobType]
    <2>1. StartMore(b) \in JobType
        <3> HIDE DEF b
        <3> QED BY <1>4, StartMoreFacts
    <2> HIDE DEF b
    <2>2. job' = [job EXCEPT ![j] = b] \/ job' = [job EXCEPT ![j] = StartMore(b)]
        BY <1>2 DEF b
    <2> QED BY <1>1, <1>4, <2>1, <2>2
<1>6. row' \in RowType
    BY <1>1, <1>2, <1>3 DEF RowType
<1>7. runs' \in RunsType /\ links' \in SUBSET Sources
    BY <1>1, <1>2, <1>3 DEF RunsType
<1>8. SignalsOK' /\ BoundsOK' /\ UNCHANGED <<enabled, known, req, cleanup>>
    BY <1>1, SignalsType DEF SaveResult, boundVars, BoundsOK
<1> QED BY <1>1, <1>5, <1>6, <1>7, <1>8, TypePartsNext

LEMMA EndStepType ==
    ASSUME TypeOK, NEW j \in Jobs,
           Finish(j) \/ Crash(j) \/ RecordCrash(j) \/ RecordCrashFails(j) \/ Close(j) \/ DoneCallback(j)
    PROVE  TypeOK'
<1>1. /\ row \in RowType /\ runs \in RunsType /\ links \in SUBSET Sources /\ enabled \in SUBSET Sources
      /\ job \in [Jobs -> JobType] /\ known \in Jobs \cup {NoJob} /\ SignalsOK /\ req \in ReqType
      /\ cleanup \in CleanupType /\ BoundsOK
    BY TypeParts
<1>2. \E x \in JobType : job' = [job EXCEPT ![j] = x]
    <2>1. /\ [job[j] EXCEPT !.pc = "close"] \in JobType
          /\ [job[j] EXCEPT !.pc = "ended"] \in JobType
          /\ [Idle EXCEPT !.pc = "crash"] \in JobType
        <3>1. job[j] \in JobType
            BY <1>1
        <3> QED BY <3>1, IdleType DEF JobType
    <2>2. \/ job' = [job EXCEPT ![j] = [job[j] EXCEPT !.pc = "close"]]
          \/ job' = [job EXCEPT ![j] = [job[j] EXCEPT !.pc = "ended"]]
          \/ job' = [job EXCEPT ![j] = [Idle EXCEPT !.pc = "crash"]]
          \/ job' = [job EXCEPT ![j] = Idle]
        BY <1>1 DEF Finish, Crash, RecordCrash, RecordCrashFails, Close, DoneCallback
    <2> QED BY <2>1, <2>2, IdleType
<1>3. job' \in [Jobs -> JobType]
    BY <1>1, <1>2
<1>4. row' \in RowType
    <2>1. "done" \in Statuses /\ "failed" \in Statuses /\ job[j].version + 1 \in Nat /\ row.version + 1 \in Nat
        BY <1>1 DEF Statuses, InFlight, JobType, RowType
    <2>2. /\ [row EXCEPT !.status = "done", !.version = job[j].version + 1] \in RowType
          /\ [row EXCEPT !.status = "failed", !.version = job[j].version + 1] \in RowType
          /\ [row EXCEPT !.status = "failed", !.version = row.version + 1] \in RowType
        BY <1>1, <2>1 DEF RowType
    <2>3. \/ row' = [row EXCEPT !.status = "done", !.version = job[j].version + 1]
          \/ row' = [row EXCEPT !.status = "failed", !.version = job[j].version + 1]
          \/ row' = [row EXCEPT !.status = "failed", !.version = row.version + 1]
          \/ row' = row
        BY DEF Finish, Crash, RecordCrash, RecordCrashFails, Close, DoneCallback, rowVars
    <2> QED BY <1>1, <2>2, <2>3
<1>5. known' \in Jobs \cup {NoJob}
    BY <1>1 DEF Finish, Crash, RecordCrash, RecordCrashFails, Close, DoneCallback
<1>6. SignalsOK'
    BY <1>1, SignalsType DEF Finish, Crash, RecordCrash, RecordCrashFails, Close, DoneCallback
<1>7. BoundsOK'
    BY <1>1 DEF Finish, Crash, RecordCrash, RecordCrashFails, Close, DoneCallback, CommitFails, boundVars, BoundsOK
<1>8. UNCHANGED <<runs, links, enabled, req, cleanup>>
    BY DEF Finish, Crash, RecordCrash, RecordCrashFails, Close, DoneCallback, rowVars
<1> QED BY <1>1, <1>3, <1>4, <1>5, <1>6, <1>7, <1>8, TypePartsNext

LEMMA StartTaskType ==
    ASSUME TypeOK, NEW refresh \in BOOLEAN, NEW only \in SUBSET Sources, StartTask(refresh, only)
    PROVE  job' \in [Jobs -> JobType] /\ known' \in Jobs /\ SignalsOK'
<1>1. /\ row \in RowType /\ runs \in RunsType /\ links \in SUBSET Sources /\ enabled \in SUBSET Sources
      /\ job \in [Jobs -> JobType] /\ known \in Jobs \cup {NoJob} /\ SignalsOK /\ req \in ReqType
      /\ cleanup \in CleanupType /\ BoundsOK
    BY TypeParts
<1>2. PICK j \in Jobs : /\ job' = [job EXCEPT ![j] = [Idle EXCEPT !.pc = "start", !.refresh = refresh, !.only = only]]
                        /\ known' = j
    BY DEF StartTask
<1>3. [Idle EXCEPT !.pc = "start", !.refresh = refresh, !.only = only] \in JobType
    BY IdleType DEF JobType
<1>4. job' \in [Jobs -> JobType]
    BY <1>1, <1>2, <1>3
<1>5. SignalsOK'
    BY <1>1, SignalsType DEF StartTask
<1> QED BY <1>2, <1>4, <1>5

LEMMA ClientType ==
    ASSUME TypeOK, Client
    PROVE  TypeOK'
<1>1. /\ row \in RowType /\ runs \in RunsType /\ links \in SUBSET Sources /\ enabled \in SUBSET Sources
      /\ job \in [Jobs -> JobType] /\ known \in Jobs \cup {NoJob} /\ SignalsOK /\ req \in ReqType
      /\ cleanup \in CleanupType /\ BoundsOK
    BY TypeParts
<1>2. ASSUME NEW w \in Wants, Resolve(w)
      PROVE  TypeOK'
    <2>1. job' \in [Jobs -> JobType] /\ known' \in Jobs /\ SignalsOK'
        BY <1>2, StartTaskType DEF Resolve
    <2>2. row' \in RowType
        <3>1. w \in Nat /\ "pending" \in Statuses
            BY WantsAssumption DEF Statuses, InFlight
        <3> QED BY <1>1, <1>2, <3>1 DEF Resolve, RowType
    <2>3. UNCHANGED <<runs, links, enabled, req, cleanup>> /\ BoundsOK'
        BY <1>1, <1>2 DEF Resolve, boundVars, BoundsOK
    <2> QED BY <1>1, <2>1, <2>2, <2>3, TypePartsNext
<1>3. ASSUME UNCHANGED <<rowVars, enabled, job, known, signalVars, cleanup, boundVars>>, req' \in ReqType
      PROVE  TypeOK'
    <2>1. SignalsOK' /\ BoundsOK'
        BY <1>1, <1>3, SignalsType DEF boundVars, BoundsOK
    <2> QED BY <1>1, <1>3, <2>1, TypePartsNext DEF rowVars
<1>4. ASSUME NEW count \in 1..Cardinality(Sources), MoreFetch(count)
      PROVE  TypeOK'
    <2>1. Cardinality({s \in Sources : runs[s] = "ok"}) \in Nat /\ Cardinality(Sources) \in Nat
        BY CountIsNat
    <2>2. Cardinality({s \in Sources : runs[s] = "ok"}) + count \in Nat /\ row.version \in Nat
        BY <1>1, <2>1 DEF RowType
    <2>3. req' \in ReqType
        BY <1>4, <2>2 DEF MoreFetch, ReqType
    <2> QED BY <1>3, <1>4, <2>3 DEF MoreFetch
<1>5. ASSUME NEW chosen \in SUBSET Sources, RefreshFetch(chosen)
      PROVE  TypeOK'
    <2>1. req' \in ReqType
        BY <1>1, <1>5 DEF RefreshFetch, ReqType, RowType
    <2> QED BY <1>3, <1>5, <2>1 DEF RefreshFetch
<1> QED BY <1>2, <1>4, <1>5 DEF Client

LEMMA EndpointType ==
    ASSUME TypeOK, Endpoint
    PROVE  TypeOK'
<1>1. /\ row \in RowType /\ runs \in RunsType /\ links \in SUBSET Sources /\ enabled \in SUBSET Sources
      /\ job \in [Jobs -> JobType] /\ known \in Jobs \cup {NoJob} /\ SignalsOK /\ req \in ReqType
      /\ cleanup \in CleanupType /\ BoundsOK
    BY TypeParts
<1>2. NoRequest \in ReqType
    BY DEF NoRequest, ReqType
<1>3. CASE RequestCommit
    <2>1. req.chosen \in SUBSET Sources /\ req.version + 1 \in Nat /\ req.wanted \in Nat
        BY <1>1 DEF ReqType
    <2>2. job' \in [Jobs -> JobType] /\ known' \in Jobs /\ SignalsOK'
        <3> DEFINE refresh == req.op = "refresh"
                   only == IF req.op = "refresh" THEN req.chosen ELSE Sources
        <3>1. refresh \in BOOLEAN /\ only \in SUBSET Sources
            BY <2>1
        <3>2. StartTask(refresh, only)
            BY <1>3 DEF RequestCommit
        <3> HIDE DEF refresh, only
        <3> QED BY <3>1, <3>2, StartTaskType
    <2>3. row' \in RowType
        <3> DEFINE f == row.fresh \/ req.op = "refresh"
        <3>1. "pending" \in Statuses /\ f \in BOOLEAN
            BY <1>1 DEF Statuses, InFlight, RowType
        <3>2. row' = [row EXCEPT !.status = "pending", !.version = req.version + 1, !.wanted = req.wanted, !.fresh = f]
            BY <1>3 DEF RequestCommit
        <3> HIDE DEF f
        <3> QED BY <1>1, <2>1, <3>1, <3>2 DEF RowType
    <2>4. runs' \in RunsType /\ links' \in SUBSET Sources
        BY <1>1, <1>3 DEF RequestCommit, RunsType
    <2>5. cleanup' \in CleanupType
        BY <1>1, <1>3 DEF RequestCommit, CleanupType
    <2>6. req' \in ReqType /\ enabled' = enabled /\ BoundsOK'
        BY <1>1, <1>2, <1>3 DEF RequestCommit, boundVars, BoundsOK
    <2> QED BY <1>1, <2>2, <2>3, <2>4, <2>5, <2>6, TypePartsNext
<1>4. CASE RequestFails
    <2>1. req' \in ReqType /\ UNCHANGED <<rowVars, enabled, job, known, signalVars, cleanup>>
        BY <1>2, <1>4 DEF RequestFails
    <2>2. SignalsOK' /\ BoundsOK'
        BY <1>1, <1>4, <2>1, SignalsType DEF RequestFails, BoundsOK
    <2> QED BY <1>1, <2>1, <2>2, TypePartsNext DEF rowVars
<1> QED BY <1>3, <1>4 DEF Endpoint

LEMMA CleanupStepType ==
    ASSUME TypeOK, CleanupStep
    PROVE  TypeOK'
<1>1. /\ row \in RowType /\ runs \in RunsType /\ links \in SUBSET Sources /\ enabled \in SUBSET Sources
      /\ job \in [Jobs -> JobType] /\ known \in Jobs \cup {NoJob} /\ SignalsOK /\ req \in ReqType
      /\ cleanup \in CleanupType /\ BoundsOK
    BY TypeParts
<1>2. NoCleanup \in CleanupType
    BY DEF NoCleanup, CleanupType
<1>3. cleanup' \in CleanupType
    <2>1. [on |-> TRUE, version |-> row.version, seen |-> Tried, stale |-> FALSE] \in CleanupType
        BY <1>1 DEF CleanupType, RowType, Tried
    <2> QED BY <1>2, <2>1 DEF CleanupStep, ExpireSelect, ExpireCommit, ExpireFails
<1>4. row' \in RowType /\ links' \in SUBSET Sources
    <2>1. "expired" \in Statuses /\ cleanup.version + 1 \in Nat
        BY <1>1 DEF Statuses, CleanupType
    <2>2. [row EXCEPT !.status = "expired", !.version = cleanup.version + 1] \in RowType
        BY <1>1, <2>1 DEF RowType
    <2> QED BY <1>1, <2>2 DEF CleanupStep, ExpireSelect, ExpireCommit, ExpireFails, rowVars
<1>5. UNCHANGED <<runs, enabled, job, known, signalVars, req>>
    BY DEF CleanupStep, ExpireSelect, ExpireCommit, ExpireFails, rowVars
<1>6. SignalsOK' /\ BoundsOK'
    BY <1>1, <1>5, SignalsType DEF CleanupStep, ExpireSelect, ExpireCommit, ExpireFails, CommitFails, BoundsOK, boundVars
<1> QED BY <1>1, <1>3, <1>4, <1>5, <1>6, TypePartsNext

LEMMA EnvironmentType ==
    ASSUME TypeOK, Environment
    PROVE  TypeOK'
<1>1. /\ row \in RowType /\ runs \in RunsType /\ links \in SUBSET Sources /\ enabled \in SUBSET Sources
      /\ job \in [Jobs -> JobType] /\ known \in Jobs \cup {NoJob} /\ SignalsOK /\ req \in ReqType
      /\ cleanup \in CleanupType /\ BoundsOK
    BY TypeParts
<1>2. row' \in RowType
    <2>1. "gone" \in Statuses /\ "failed" \in Statuses
        BY DEF Statuses
    <2>2. /\ [row EXCEPT !.fresh = FALSE] \in RowType
          /\ [row EXCEPT !.status = "gone"] \in RowType
          /\ [row EXCEPT !.status = "failed"] \in RowType
        BY <1>1, <2>1 DEF RowType
    <2> QED BY <1>1, <2>2 DEF Environment, TimePasses, Purge, Toggle, Restart, rowVars
<1>3. runs' \in RunsType /\ links' \in SUBSET Sources
    <2>1. [s \in Sources |-> "none"] \in RunsType
        BY DEF RunsType
    <2> QED BY <1>1, <2>1 DEF Environment, TimePasses, Purge, Toggle, Restart, rowVars
<1>4. enabled' \in SUBSET Sources
    BY <1>1 DEF Environment, TimePasses, Purge, Toggle, Restart
<1>5. job' \in [Jobs -> JobType] /\ known' \in Jobs \cup {NoJob}
    BY <1>1, IdleType DEF Environment, TimePasses, Purge, Toggle, Restart
<1>6. SignalsOK'
    BY <1>1, SignalsType DEF Environment, TimePasses, Purge, Toggle, Restart, SignalsOK
<1>7. req' \in ReqType /\ cleanup' \in CleanupType
    <2>1. NoRequest \in ReqType /\ NoCleanup \in CleanupType
        BY DEF NoRequest, NoCleanup, ReqType, CleanupType
    <2> QED BY <1>1, <2>1 DEF Environment, TimePasses, Purge, Toggle, Restart
<1>8. BoundsOK'
    BY <1>1 DEF Environment, TimePasses, Purge, Toggle, Restart, BoundsOK, boundVars
<1> QED BY <1>2, <1>3, <1>4, <1>5, <1>6, <1>7, <1>8, TypePartsNext

LEMMA InitType == Init => TypeOK
<1> SUFFICES ASSUME Init PROVE TypeOK
    OBVIOUS
<1>1. row \in RowType /\ runs \in RunsType
    BY DEF Init, RowType, RunsType, Statuses
<1>2. job \in [Jobs -> JobType]
    BY IdleType DEF Init
<1>3. req \in ReqType /\ cleanup \in CleanupType
    BY DEF Init, NoRequest, NoCleanup, ReqType, CleanupType
<1>4. /\ links \in SUBSET Sources /\ enabled \in SUBSET Sources /\ known \in Jobs \cup {NoJob}
      /\ SignalsOK /\ BoundsOK
    BY DEF Init, SignalsOK, BoundsOK
<1> QED BY <1>1, <1>2, <1>3, <1>4, TypeParts

LEMMA NextType == TypeOK /\ [Next]_vars => TypeOK'
<1> SUFFICES ASSUME TypeOK, [Next]_vars PROVE TypeOK'
    OBVIOUS
<1>1. CASE UNCHANGED vars
    BY <1>1 DEF vars, rowVars, TypeOK
<1>2. ASSUME NEW j \in Jobs, JobStep(j)
      PROVE  TypeOK'
    <2>1. CASE Wake(j)
        <3>1. CASE Sources = {}
            BY <3>1, <2>1 DEF Wake, In
        <3>2. CASE Sources # {}
            BY <3>2, <2>1, ResultStepType
        <3> QED BY <3>1, <3>2
    <2>2. ASSUME NEW s \in Sources, TakeResult(j, s)
          PROVE  TypeOK'
        BY <2>2, ResultStepType
    <2> QED BY <1>2, <2>1, <2>2, QueueStepType, LoadType, AnnounceType, SaveResultType, EndStepType DEF JobStep
<1>3. ASSUME NEW j \in Jobs, SomeAnswer(j)
      PROVE  TypeOK'
    BY <1>3, ResultStepType DEF SomeAnswer
<1> QED BY <1>1, <1>2, <1>3, ClientType, EndpointType, CleanupStepType, EnvironmentType DEF Next

(* Every variable of a task keeps its type; in particular its status is always one of the eight *)
(* the code knows.                                                                              *)
THEOREM TaskTypeCorrect == Spec => []TypeOK
BY InitType, NextType, PTL DEF Spec

-----------------------------------------------------------------------------
(* One search at a time *)

(* The phases of a source whose result this search has still to save. *)
Todo == {"candidate", "asked", "answered", "batch", "saving"}

(* Who has settled the task is out of the way of the next search. *)
SettledHasNoJob == Flying # {} => row.status \notin {"absent", "done", "failed"}

(* Between its fetch and its commit a request has the task to itself. *)
RequestHasNoJob == req.op # "none" => Flying = {}

(* What a search is about to ask or to save has no result yet. *)
TodoIsNew == \A j \in Flying : \A s \in Sources : job[j].phase[s] \in Todo => runs[s] = "none"

SavingIsTaken == \A j \in Jobs : job[j].pc = "save" => \A s \in job[j].saving : job[j].phase[s] = "saving"

SInv == SingleFlight /\ SettledHasNoJob /\ RequestHasNoJob /\ TodoIsNew /\ SavingIsTaken

(* A step of one job keeps SInv if it does not wake a dead job up, settles the task only by      *)
(* leaving it, and touches what it has still to save only by saving it.                          *)
LEMMA JobMoves ==
    ASSUME TypeOK, SInv, NEW j \in Jobs, NEW x \in JobType,
           job' = [job EXCEPT ![j] = x],
           req' = req,
           j \in Flying \/ runs' = runs,
           x.pc \notin {"idle", "close", "ended"} => j \in Flying,
           \/ row'.status = row.status
           \/ row'.status \notin {"absent", "done", "failed"}
           \/ j \in Flying /\ x.pc \in {"idle", "close", "ended"},
           x.pc \notin {"idle", "close", "ended"}
                => \A s \in Sources : x.phase[s] \in Todo => runs'[s] = "none",
           x.pc = "save" => \A s \in x.saving : x.phase[s] = "saving"
    PROVE  SInv'
<1>1. job \in [Jobs -> JobType]
    BY DEF TypeOK
<1>2. /\ \A i \in Jobs : i # j => job'[i] = job[i]
      /\ job'[j] = x
    BY <1>1
<1>3. Flying' \subseteq Flying
    BY <1>2 DEF Flying
<1>4. SingleFlight'
    BY <1>3 DEF SInv, SingleFlight
<1>5. SettledHasNoJob'
    <2>1. ASSUME j \in Flying, x.pc \in {"idle", "close", "ended"}
          PROVE  Flying' = {}
        BY <2>1, <1>2, <1>3 DEF SInv, SingleFlight, Flying
    <2> QED BY <1>3, <2>1 DEF SInv, SettledHasNoJob
<1>6. RequestHasNoJob'
    BY <1>3 DEF SInv, RequestHasNoJob
<1>7. TodoIsNew'
    <2> SUFFICES ASSUME NEW i \in Flying', NEW s \in Sources, job'[i].phase[s] \in Todo
                 PROVE  runs'[s] = "none"
        BY DEF TodoIsNew
    <2>1. CASE i = j
        BY <2>1, <1>2 DEF Flying
    <2>2. CASE i # j
        <3>1. i \in Flying /\ i \in Jobs
            BY <1>3 DEF Flying
        <3>2. j \notin Flying
            BY <3>1, <2>2 DEF SInv, SingleFlight
        <3>3. runs' = runs /\ job'[i] = job[i]
            BY <3>1, <3>2, <2>2, <1>2
        <3> QED BY <3>1, <3>3 DEF SInv, TodoIsNew
    <2> QED BY <2>1, <2>2
<1>8. SavingIsTaken'
    BY <1>2 DEF SInv, SavingIsTaken
<1> QED BY <1>4, <1>5, <1>6, <1>7, <1>8 DEF SInv

(* A search that starts finds the task free: it is the only one, with everything still to ask. *)
LEMMA StartKeeps ==
    ASSUME TypeOK, SInv, Flying = {}, NEW refresh, NEW only, StartTask(refresh, only),
           row'.status = "pending", req'.op = "none"
    PROVE  SInv'
<1>1. job \in [Jobs -> JobType]
    BY DEF TypeOK
<1>2. PICK j \in Jobs : job' = [job EXCEPT ![j] = [Idle EXCEPT !.pc = "start", !.refresh = refresh, !.only = only]]
    BY DEF StartTask
<1>3. /\ job'[j].pc = "start"
      /\ \A s \in Sources : job'[j].phase[s] = "no"
      /\ \A i \in Jobs : i # j => job'[i] = job[i]
    BY <1>1, <1>2 DEF Idle
<1>4. Flying' = {j}
    BY <1>3 DEF Flying
<1>5. SingleFlight' /\ SettledHasNoJob' /\ RequestHasNoJob'
    BY <1>4 DEF SingleFlight, SettledHasNoJob, RequestHasNoJob
<1>6. TodoIsNew'
    BY <1>3, <1>4 DEF TodoIsNew, Todo
<1>7. SavingIsTaken'
    BY <1>3 DEF SInv, SavingIsTaken
<1> QED BY <1>5, <1>6, <1>7 DEF SInv

(* A step that leaves the jobs alone keeps SInv unless it settles the task or adds a result. *)
LEMMA OthersKeep ==
    ASSUME SInv, job' = job,
           req'.op = req.op \/ req'.op = "none" \/ Flying = {},
           row'.status = row.status \/ row'.status \notin {"absent", "done", "failed"},
           \A s \in Sources : runs'[s] = runs[s] \/ runs'[s] = "none"
    PROVE  SInv'
<1>1. Flying' = Flying
    BY DEF Flying
<1>2. SingleFlight' /\ SettledHasNoJob' /\ RequestHasNoJob' /\ SavingIsTaken'
    BY <1>1 DEF SInv, SingleFlight, SettledHasNoJob, RequestHasNoJob, SavingIsTaken
<1>3. TodoIsNew'
    BY <1>1 DEF SInv, TodoIsNew
<1> QED BY <1>2, <1>3 DEF SInv

LEMMA ClientKeeps ==
    ASSUME TypeOK, SInv, Client
    PROVE  SInv'
<1>0. row \in RowType /\ req \in ReqType
    BY TypeParts
<1>1. ASSUME NEW w \in Wants, Resolve(w)
      PROVE  SInv'
    <2>1. Flying = {}
        BY <1>1 DEF SInv, SettledHasNoJob, Resolve
    <2>2. row'.status = "pending" /\ req'.op = "none" /\ StartTask(FALSE, Sources)
        BY <1>0, <1>1 DEF Resolve, RowType
    <2> QED BY <2>1, <2>2, StartKeeps
<1>2. ASSUME Restartable, job' = job, UNCHANGED rowVars
      PROVE  SInv'
    <2>1. Flying = {}
        BY <1>2 DEF SInv, SettledHasNoJob, Restartable, EffectiveStatus
    <2>2. row' = row /\ runs' = runs
        BY <1>2 DEF rowVars
    <2> QED BY <1>2, <2>1, <2>2, OthersKeep
<1>3. ASSUME NEW count, MoreFetch(count)
      PROVE  SInv'
    BY <1>2, <1>3 DEF MoreFetch
<1>4. ASSUME NEW chosen, RefreshFetch(chosen)
      PROVE  SInv'
    BY <1>2, <1>4 DEF RefreshFetch
<1> QED BY <1>1, <1>3, <1>4 DEF Client

LEMMA EndpointKeeps ==
    ASSUME TypeOK, SInv, Endpoint
    PROVE  SInv'
<1>0. row \in RowType
    BY TypeParts
<1>1. CASE RequestCommit
    <2> DEFINE refresh == req.op = "refresh"
               only == IF req.op = "refresh" THEN req.chosen ELSE Sources
    <2>1. Flying = {}
        BY <1>1 DEF SInv, RequestHasNoJob, RequestCommit
    <2>2. row'.status = "pending" /\ req'.op = "none" /\ StartTask(refresh, only)
        BY <1>0, <1>1 DEF RequestCommit, RowType, NoRequest
    <2> HIDE DEF refresh, only
    <2> QED BY <2>1, <2>2, StartKeeps
<1>2. CASE RequestFails
    <2>1. job' = job /\ row' = row /\ runs' = runs /\ req'.op = "none"
        BY <1>2 DEF RequestFails, rowVars, NoRequest
    <2> QED BY <2>1, OthersKeep
<1> QED BY <1>1, <1>2 DEF Endpoint

LEMMA CleanupKeeps ==
    ASSUME TypeOK, SInv, CleanupStep
    PROVE  SInv'
<1>1. row \in RowType
    BY TypeParts
<1>2. job' = job /\ req' = req /\ runs' = runs
    BY DEF CleanupStep, ExpireSelect, ExpireCommit, ExpireFails, rowVars
<1>3. row'.status = row.status \/ row'.status = "expired"
    BY <1>1 DEF CleanupStep, ExpireSelect, ExpireCommit, ExpireFails, rowVars, RowType
<1> QED BY <1>2, <1>3, OthersKeep

LEMMA EnvironmentKeeps ==
    ASSUME TypeOK, SInv, Environment
    PROVE  SInv'
<1>0. row \in RowType
    BY TypeParts
<1>1. CASE Restart
    <2>1. \A j \in Jobs : job'[j].pc = "idle"
        BY <1>1 DEF Restart, Idle
    <2>2. Flying' = {}
        BY <2>1 DEF Flying
    <2>3. TodoIsNew' /\ SingleFlight' /\ SettledHasNoJob' /\ RequestHasNoJob'
        BY <2>2 DEF TodoIsNew, SingleFlight, SettledHasNoJob, RequestHasNoJob
    <2>4. SavingIsTaken'
        BY <2>1 DEF SavingIsTaken
    <2> QED BY <2>3, <2>4 DEF SInv
<1>2. CASE TimePasses \/ Purge \/ \E s \in Sources : Toggle(s)
    <2>1. job' = job /\ req' = req
        BY <1>2 DEF TimePasses, Purge, Toggle
    <2>2. row'.status = row.status \/ row'.status = "gone"
        BY <1>0, <1>2 DEF TimePasses, Purge, Toggle, rowVars, RowType
    <2>3. \A s \in Sources : runs'[s] = runs[s] \/ runs'[s] = "none"
        BY <1>2 DEF TimePasses, Purge, Toggle, rowVars
    <2> QED BY <2>1, <2>2, <2>3, OthersKeep
<1> QED BY <1>1, <1>2 DEF Environment

LEMMA QueueStepKeeps ==
    ASSUME TypeOK, SInv, NEW j \in Jobs, QueueRead(j) \/ QueueCommit(j) \/ QueueFails(j)
    PROVE  SInv'
<1> DEFINE x == [job[j] EXCEPT !.pc = IF row.status = "pending" THEN "queueing" ELSE "queued",
                               !.version = row.version]
           y == [job[j] EXCEPT !.pc = "queued"]
<1>1. row \in RowType /\ job \in [Jobs -> JobType] /\ job[j] \in JobType
    BY TypeParts
<1>2. j \in Flying
    BY DEF QueueRead, QueueCommit, QueueFails, Flying
<1>3. /\ x \in JobType /\ x.pc \in {"queueing", "queued"} /\ x.phase = job[j].phase
      /\ y \in JobType /\ y.pc = "queued" /\ y.phase = job[j].phase
    <2>1. job[j] \in JobType /\ row.version \in Nat
        BY <1>1 DEF RowType
    <2> QED BY <2>1 DEF JobType
<1>4. job' = [job EXCEPT ![j] = x] \/ job' = [job EXCEPT ![j] = y]
    BY <1>1 DEF QueueRead, QueueCommit, QueueFails, JobType
<1>5. row'.status = row.status \/ row'.status = "queued"
    BY <1>1 DEF QueueRead, QueueCommit, QueueFails, rowVars, RowType
<1>6. req' = req /\ runs' = runs
    BY DEF QueueRead, QueueCommit, QueueFails, rowVars
<1>7. \A s \in Sources : job[j].phase[s] \in Todo => runs[s] = "none"
    BY <1>2 DEF SInv, TodoIsNew
<1> HIDE DEF x, y
<1> QED BY <1>2, <1>3, <1>4, <1>5, <1>6, <1>7, JobMoves

LEMMA LoadKeeps ==
    ASSUME TypeOK, SInv, NEW j \in Jobs, Load(j)
    PROVE  SInv'
<1> DEFINE p == [s \in Sources |-> IF s \in (enabled \cap job[j].only) \ Tried THEN "candidate" ELSE "no"]
           x == [job[j] EXCEPT !.pc = "announce", !.version = row.version,
                               !.wanted = IF job[j].refresh THEN 0 ELSE row.wanted,
                               !.found = PriorFound, !.anyOk = PriorOk, !.phase = p]
           y == [job[j] EXCEPT !.pc = "close"]
<1>1. job \in [Jobs -> JobType] /\ job[j] \in JobType /\ job' \in [Jobs -> JobType]
    BY TypeParts, LoadType DEF TypeOK
<1>2. j \in Flying /\ req' = req /\ runs' = runs /\ row' = row
    BY DEF Load, LoadWith, Flying, rowVars
<1>3. job' = [job EXCEPT ![j] = x] \/ job' = [job EXCEPT ![j] = y]
    BY <1>1 DEF Load, LoadWith
<1>4. CASE job' = [job EXCEPT ![j] = x]
    <2>1. x = job'[j] /\ x \in JobType
        BY <1>1, <1>4
    <2>2. x.pc = "announce" /\ x.phase = p
        BY <1>1 DEF JobType
    <2>3. \A s \in Sources : p[s] \in Todo => runs[s] = "none"
        BY DEF Todo, Tried
    <2> HIDE DEF x, p
    <2> QED BY <1>2, <1>4, <2>1, <2>2, <2>3, JobMoves
<1>5. CASE job' = [job EXCEPT ![j] = y]
    <2>1. y \in JobType /\ y.pc = "close"
        BY <1>1 DEF JobType
    <2> HIDE DEF y
    <2> QED BY <1>2, <1>5, <2>1, JobMoves
<1> QED BY <1>3, <1>4, <1>5

LEMMA AnnounceKeeps ==
    ASSUME TypeOK, SInv, NEW j \in Jobs, Announce(j)
    PROVE  SInv'
<1>1. row \in RowType /\ job \in [Jobs -> JobType] /\ job[j] \in JobType
    BY TypeParts
<1>2. j \in Flying /\ req' = req /\ runs' = runs
    BY DEF Announce, Flying
<1>3. \/ row'.status = "done" /\ job' = [job EXCEPT ![j] = [job[j] EXCEPT !.pc = "close"]]
      \/ row'.status = "running" /\ job' = [job EXCEPT ![j] = StartMore(job[j])]
    BY <1>1 DEF Announce, RowType
<1>4. CASE row'.status = "done" /\ job' = [job EXCEPT ![j] = [job[j] EXCEPT !.pc = "close"]]
    <2> DEFINE x == [job[j] EXCEPT !.pc = "close"]
    <2>1. x \in JobType /\ x.pc = "close" /\ job' = [job EXCEPT ![j] = x]
        BY <1>1, <1>4 DEF JobType
    <2> HIDE DEF x
    <2> QED BY <1>2, <2>1, JobMoves
<1>5. CASE row'.status = "running" /\ job' = [job EXCEPT ![j] = StartMore(job[j])]
    <2> DEFINE x == StartMore(job[j])
    <2>1. /\ x \in JobType
          /\ x.pc \in {"fan", "final"}
          /\ \A s \in Sources : x.phase[s] = job[j].phase[s]
                                \/ (job[j].phase[s] = "candidate" /\ x.phase[s] = "asked")
        BY <1>1, StartMoreFacts
    <2>2. \A s \in Sources : x.phase[s] \in Todo => runs[s] = "none"
        BY <1>2, <2>1 DEF SInv, TodoIsNew, Todo
    <2>3. job' = [job EXCEPT ![j] = x]
        BY <1>5
    <2> HIDE DEF x
    <2> QED BY <1>2, <1>5, <2>1, <2>2, <2>3, JobMoves
<1> QED BY <1>3, <1>4, <1>5

LEMMA ResultStepKeeps ==
    ASSUME TypeOK, SInv, NEW j \in Jobs, NEW s \in Sources,
           \/ \E o \in Outcomes : Answer(j, s, o)
           \/ Wake(j)
           \/ TakeResult(j, s)
    PROVE  SInv'
<1>1. job \in [Jobs -> JobType] /\ job[j] \in JobType /\ job' \in [Jobs -> JobType] /\ job'[j] \in JobType
    BY TypeParts, ResultStepType DEF TypeOK
<1>2. req' = req /\ runs' = runs /\ row' = row
    BY DEF Answer, Wake, TakeResult, rowVars
<1>3. job' = [job EXCEPT ![j] = job'[j]]
    BY <1>1 DEF Answer, Wake, TakeResult
<1> DEFINE Tame == /\ \A u \in Sources : job'[j].phase[u] \in Todo => job[j].phase[u] \in Todo
                   /\ job'[j].pc = job[j].pc \/ (job[j].pc = "fan" /\ job'[j].pc = "save")
                   /\ job'[j].pc = "save" => \A u \in job'[j].saving : job'[j].phase[u] = "saving"
<1>4. Tame
    <2>1. ASSUME NEW o \in Outcomes, Answer(j, s, o)
          PROVE  Tame
        <3> DEFINE p == [job[j].phase EXCEPT ![s] = "answered"]
        <3>1. job[j] \in JobType /\ job[j].phase[s] = "asked"
            BY <1>1, <2>1 DEF Answer
        <3>2. /\ job'[j].pc = job[j].pc
              /\ job'[j].saving = job[j].saving
              /\ job'[j].phase = p
            <4>1. job' = [job EXCEPT ![j].phase[s] = "answered", ![j].out[s] = o]
                BY <2>1 DEF Answer
            <4> QED BY <1>1, <4>1 DEF JobType
        <3>3. \A u \in Sources : p[u] = IF u = s THEN "answered" ELSE job[j].phase[u]
            BY <3>1 DEF JobType
        <3>4. job[j].pc = "save" => \A u \in job[j].saving : u \in Sources /\ u # s /\ p[u] = "saving"
            BY <3>1, <3>3 DEF SInv, SavingIsTaken, JobType
        <3> HIDE DEF p
        <3> QED BY <3>1, <3>2, <3>3, <3>4 DEF Todo
    <2>2. CASE Wake(j)
        <3>1. job[j] \in JobType /\ job[j].pc = "fan"
            BY <1>1, <2>2 DEF Wake
        <3>2. job' = [job EXCEPT ![j].phase =
                        [u \in Sources |-> IF @[u] = "answered" THEN "batch" ELSE @[u]]]
            BY <2>2 DEF Wake
        <3>3. job'[j] = [job[j] EXCEPT !.phase =
                        [u \in Sources |-> IF @[u] = "answered" THEN "batch" ELSE @[u]]]
            BY <1>1, <3>2
        <3>4. /\ job'[j].pc = "fan"
              /\ \A u \in Sources : job'[j].phase[u] =
                    IF job[j].phase[u] = "answered" THEN "batch" ELSE job[j].phase[u]
            BY <3>1, <3>3 DEF JobType
        <3> QED BY <3>1, <3>4 DEF Todo
    <2>3. CASE TakeResult(j, s)
        <3> DEFINE f == IF job[j].out[s] = "ok" THEN job[j].found + 1 ELSE job[j].found
                   a == job[j].anyOk \/ job[j].out[s] # "error"
                   p == [job[j].phase EXCEPT ![s] = "saving"]
                   x == [job[j] EXCEPT !.pc = "save", !.saving = {s}, !.phase = p, !.found = f, !.anyOk = a]
        <3>1. job[j] \in JobType /\ job[j].pc = "fan" /\ job[j].phase[s] = "batch"
            BY <1>1, <2>3 DEF TakeResult
        <3>2. job'[j] = x
            BY <1>1, <2>3 DEF TakeResult
        <3>3. x.pc = "save" /\ x.saving = {s} /\ x.phase = p
            <4> HIDE DEF p, f, a
            <4> QED BY <3>1 DEF JobType
        <3>4. \A u \in Sources : p[u] = IF u = s THEN "saving" ELSE job[j].phase[u]
            BY <3>1 DEF JobType
        <3> HIDE DEF x, p, f, a
        <3> QED BY <3>1, <3>2, <3>3, <3>4 DEF Todo
    <2> QED BY <2>1, <2>2, <2>3
<1>5. job'[j].pc \in {job[j].pc, "save"} /\ (job'[j].pc # job[j].pc => j \in Flying)
    BY <1>4 DEF Flying
<1>6. job'[j].pc \notin {"idle", "close", "ended"} => j \in Flying
    BY <1>4, <1>5 DEF Flying
<1>7. job'[j].pc \notin {"idle", "close", "ended"}
        => \A u \in Sources : job'[j].phase[u] \in Todo => runs'[u] = "none"
    BY <1>2, <1>4, <1>6 DEF SInv, TodoIsNew
<1> QED BY <1>1, <1>2, <1>3, <1>4, <1>6, <1>7, JobMoves

(* The result that is saved is that of a source with no result, and nobody else is after it. *)
LEMMA SaveResultKeeps ==
    ASSUME TypeOK, SInv, NEW j \in Jobs, SaveResult(j)
    PROVE  /\ SInv'
           /\ \A s \in Sources : runs[s] # "none" => runs'[s] = runs[s]
<1>1. /\ row \in RowType /\ runs \in RunsType /\ job \in [Jobs -> JobType] /\ job[j] \in JobType
      /\ job' \in [Jobs -> JobType] /\ job'[j] \in JobType
    BY TypeParts, SaveResultType DEF TypeOK
<1>2. PICK s \in job[j].saving :
        /\ runs' = [runs EXCEPT ![s] = job[j].out[s]]
        /\ row' = [row EXCEPT !.version = job[j].version + 1]
        /\ LET b == [job[j] EXCEPT !.pc = "fan", !.saving = {}, !.version = @ + 1, !.phase[s] = "saved"]
           IN  job' = [job EXCEPT ![j] = IF \E u \in Sources : b.phase[u] = "batch" THEN b ELSE StartMore(b)]
    BY DEF SaveResult
<1> DEFINE b == [job[j] EXCEPT !.pc = "fan", !.saving = {}, !.version = @ + 1, !.phase[s] = "saved"]
<1>3. j \in Flying /\ job[j].pc = "save" /\ s \in Sources
    BY <1>1 DEF SaveResult, Flying, JobType
<1>4. runs[s] = "none"
    BY <1>2, <1>3 DEF SInv, SavingIsTaken, TodoIsNew, Todo
<1>5. /\ b.pc = "fan" /\ b.saving = {}
      /\ \A u \in Sources : b.phase[u] = IF u = s THEN "saved" ELSE job[j].phase[u]
    BY <1>1, <1>3 DEF JobType
<1>6. b \in JobType
    <2> DEFINE p == [job[j].phase EXCEPT ![s] = "saved"]
               v == job[j].version + 1
    <2>1. /\ p \in [Sources -> {"no", "candidate", "asked", "answered", "batch", "saving", "saved"}]
          /\ v \in Nat
        BY <1>1, <1>3 DEF JobType
    <2>2. b = [job[j] EXCEPT !.pc = "fan", !.saving = {}, !.version = v, !.phase = p]
        BY <1>1, <1>3 DEF JobType
    <2>3. [job[j] EXCEPT !.pc = "fan", !.saving = {}, !.version = v, !.phase = p] \in JobType
        <3> HIDE DEF p, v
        <3>1. job[j] \in JobType
            BY <1>1
        <3> QED BY <3>1, <2>1 DEF JobType
    <2> QED BY <2>2, <2>3
<1>7. /\ job'[j].pc \in {"fan", "final"}
      /\ \A u \in Sources : job'[j].phase[u] = b.phase[u]
                            \/ (b.phase[u] = "candidate" /\ job'[j].phase[u] = "asked")
    <2>1. job'[j] = b \/ job'[j] = StartMore(b)
        BY <1>1, <1>2
    <2> HIDE DEF b
    <2> QED BY <2>1, <1>5, <1>6, StartMoreFacts
<1> HIDE DEF b
<1>8. \A u \in Sources : job'[j].phase[u] \in Todo => u # s /\ job[j].phase[u] \in Todo
    BY <1>5, <1>7 DEF Todo
<1>9. \A u \in Sources : job'[j].phase[u] \in Todo => runs'[u] = "none"
    BY <1>1, <1>2, <1>3, <1>8 DEF SInv, TodoIsNew, RunsType
<1>10. job' = [job EXCEPT ![j] = job'[j]]
    BY <1>1, <1>2
<1>11. row'.status = row.status /\ req' = req
    BY <1>1, <1>2 DEF SaveResult, RowType
<1>12. SInv'
    BY <1>1, <1>3, <1>7, <1>9, <1>10, <1>11, JobMoves
<1>13. \A u \in Sources : runs[u] # "none" => runs'[u] = runs[u]
    BY <1>1, <1>2, <1>4 DEF RunsType
<1> QED BY <1>12, <1>13

LEMMA EndStepKeeps ==
    ASSUME TypeOK, SInv, NEW j \in Jobs,
           Finish(j) \/ Crash(j) \/ RecordCrash(j) \/ RecordCrashFails(j) \/ Close(j) \/ DoneCallback(j)
    PROVE  SInv'
<1>1. /\ row \in RowType /\ job \in [Jobs -> JobType] /\ job[j] \in JobType
      /\ job' \in [Jobs -> JobType] /\ job'[j] \in JobType
    BY TypeParts, EndStepType DEF TypeOK
<1>2. job' = [job EXCEPT ![j] = job'[j]]
    BY <1>1 DEF Finish, Crash, RecordCrash, RecordCrashFails, Close, DoneCallback
<1>3. req' = req /\ runs' = runs
    BY DEF Finish, Crash, RecordCrash, RecordCrashFails, Close, DoneCallback, rowVars
<1>4. /\ Finish(j) \/ RecordCrash(j) \/ RecordCrashFails(j) \/ Close(j) \/ DoneCallback(j)
            => job'[j].pc \in {"idle", "close", "ended"}
      /\ Crash(j) => job'[j].pc = "crash" /\ \A s \in Sources : job'[j].phase[s] = "no"
    <2>1. /\ [job[j] EXCEPT !.pc = "close"].pc = "close"
          /\ [job[j] EXCEPT !.pc = "ended"].pc = "ended"
        <3>1. job[j] \in JobType
            BY <1>1
        <3> QED BY <3>1 DEF JobType
    <2>2. /\ Idle.pc = "idle"
          /\ [Idle EXCEPT !.pc = "crash"].pc = "crash"
          /\ \A s \in Sources : [Idle EXCEPT !.pc = "crash"].phase[s] = "no"
        BY DEF Idle
    <2>3. Crash(j) => job'[j] = [Idle EXCEPT !.pc = "crash"]
        BY <1>1 DEF Crash
    <2>4. Finish(j) \/ RecordCrash(j) \/ RecordCrashFails(j) => job'[j] = [job[j] EXCEPT !.pc = "close"]
        BY <1>1 DEF Finish, RecordCrash, RecordCrashFails
    <2>5. Close(j) => job'[j] = [job[j] EXCEPT !.pc = "ended"]
        BY <1>1 DEF Close
    <2>6. DoneCallback(j) => job'[j] = Idle
        BY <1>1 DEF DoneCallback
    <2> QED BY <2>1, <2>2, <2>3, <2>4, <2>5, <2>6
<1>5. \/ row'.status = row.status
      \/ j \in Flying /\ job'[j].pc \in {"idle", "close", "ended"}
    <2>1. Finish(j) \/ RecordCrash(j) => j \in Flying
        BY DEF Finish, RecordCrash, Flying
    <2>2. Crash(j) \/ RecordCrashFails(j) \/ Close(j) \/ DoneCallback(j) => row' = row
        BY DEF Crash, RecordCrashFails, Close, DoneCallback, rowVars
    <2> QED BY <1>4, <2>1, <2>2
<1>6. Crash(j) => j \in Flying
    BY DEF Crash, Flying
<1> QED BY <1>1, <1>2, <1>3, <1>4, <1>5, <1>6, JobMoves DEF Todo

LEMMA InitSInv == Init => SInv
<1> SUFFICES ASSUME Init PROVE SInv
    OBVIOUS
<1>1. \A j \in Jobs : job[j].pc = "idle"
    BY DEF Init, Idle
<1>2. Flying = {}
    BY <1>1 DEF Flying
<1> QED BY <1>1, <1>2 DEF SInv, SingleFlight, SettledHasNoJob, RequestHasNoJob, TodoIsNew, SavingIsTaken

LEMMA NextKeepsSInv == TypeOK /\ SInv /\ [Next]_vars => SInv'
<1> SUFFICES ASSUME TypeOK, SInv, [Next]_vars PROVE SInv'
    OBVIOUS
<1>1. CASE UNCHANGED vars
    BY <1>1, OthersKeep DEF vars, rowVars
<1>2. ASSUME NEW j \in Jobs, JobStep(j)
      PROVE  SInv'
    <2>1. CASE Wake(j)
        <3>1. Sources # {}
            BY <2>1 DEF Wake, In
        <3> QED BY <3>1, <2>1, ResultStepKeeps
    <2>2. ASSUME NEW s \in Sources, TakeResult(j, s)
          PROVE  SInv'
        BY <2>2, ResultStepKeeps
    <2> QED BY <1>2, <2>1, <2>2, QueueStepKeeps, LoadKeeps, AnnounceKeeps, SaveResultKeeps, EndStepKeeps
            DEF JobStep
<1>3. ASSUME NEW j \in Jobs, SomeAnswer(j)
      PROVE  SInv'
    BY <1>3, ResultStepKeeps DEF SomeAnswer
<1> QED BY <1>1, <1>2, <1>3, ClientKeeps, EndpointKeeps, CleanupKeeps, EnvironmentKeeps DEF Next

(* "Two quick calls must not start two searches" (the comment at _create_lock): whatever clients,  *)
(* the cleanup job and a crash do, at most one run of _scheduled can still write to the task.      *)
THEOREM OneSearchAtATime == Spec => []SingleFlight
<1>1. TypeOK /\ SInv => SingleFlight
    BY DEF SInv
<1> QED BY <1>1, InitType, NextType, InitSInv, NextKeepsSInv, PTL DEF Spec

(* A source that has answered is not asked again (`tried` in _run), and only refresh_sources and   *)
(* the purge of old tasks take a saved run away: on_result never overwrites one.                   *)
THEOREM AskedOnceHolds == Spec => AskedOnce
<1> DEFINE Kept == \A s \in Sources : runs[s] # "none" => runs'[s] \in {runs[s], "none"}
<1>1. TypeOK /\ SInv /\ [Next]_vars => [Kept]_vars
    <2> SUFFICES ASSUME TypeOK, SInv, Next PROVE Kept
        OBVIOUS
    <2>1. ASSUME NEW j \in Jobs, JobStep(j) \/ SomeAnswer(j)
          PROVE  Kept
        <3>1. CASE SaveResult(j)
            BY <3>1, SaveResultKeeps
        <3>2. CASE ~SaveResult(j)
            <4>1. runs' = runs
                BY <2>1, <3>2 DEF JobStep, SomeAnswer, QueueRead, QueueCommit, QueueFails, Load, LoadWith, Announce,
                   Answer, Wake, TakeResult, Finish, Crash, RecordCrash, RecordCrashFails, Close,
                   DoneCallback, rowVars
            <4> QED BY <4>1
        <3> QED BY <3>1, <3>2
    <2>2. ASSUME Client
          PROVE  Kept
        BY <2>2 DEF Client, Resolve, MoreFetch, RefreshFetch, rowVars
    <2>3. ASSUME Endpoint
          PROVE  Kept
        BY <2>3 DEF Endpoint, RequestCommit, RequestFails, rowVars
    <2>4. ASSUME CleanupStep
          PROVE  Kept
        BY <2>4 DEF CleanupStep, ExpireSelect, ExpireCommit, ExpireFails, rowVars
    <2>5. ASSUME Environment
          PROVE  Kept
        BY <2>5 DEF Environment, TimePasses, Purge, Toggle, Restart, rowVars
    <2> QED BY <2>1, <2>2, <2>3, <2>4, <2>5 DEF Next
<1> QED BY <1>1, InitType, NextType, InitSInv, NextKeepsSInv, PTL DEF Spec, AskedOnce

-----------------------------------------------------------------------------
(* What the steps of a job do, field by field *)

Pc(j) == job[j].pc

(* Only the job j moves. *)
Moves(j) ==
    /\ job' \in [Jobs -> JobType]
    /\ \A i \in Jobs : i # j => job'[i] = job[i]

(* Nothing unforeseen has happened so far. *)
Calm == faults = 0 /\ restarts = 0 /\ toggles = 0 /\ Sources # {}

(* What no step of a job touches, but the done callback ... *)
Untouched == UNCHANGED <<enabled, known, req, cleanup, toggles, restarts>>

(* ... and the event that stays in the table. *)
Told == event' = event

SameSearch(j) ==
    /\ job'[j].phase = job[j].phase
    /\ job'[j].only = job[j].only

LEMMA TypeFacts ==
    ASSUME TypeOK
    PROVE  /\ row \in RowType /\ runs \in RunsType /\ enabled \in SUBSET Sources
           /\ job \in [Jobs -> JobType] /\ \A j \in Jobs : job[j] \in JobType
           /\ req \in ReqType /\ cleanup \in CleanupType
           /\ faults \in Nat /\ toggles \in Nat /\ restarts \in Nat
BY TypeParts DEF BoundsOK

(* Changing the control state, or the version with it, keeps the search. *)
LEMMA NewPc ==
    ASSUME TypeOK, NEW j \in Jobs, NEW pc, job' = [job EXCEPT ![j].pc = pc]
    PROVE  /\ \A i \in Jobs : i # j => job'[i] = job[i]
           /\ job'[j].pc = pc /\ SameSearch(j)
           /\ job'[j].version = job[j].version
<1>1. job[j] \in JobType /\ job \in [Jobs -> JobType]
    BY TypeFacts
<1>2. job'[j] = [job[j] EXCEPT !.pc = pc]
    BY <1>1
<1> QED BY <1>1, <1>2 DEF JobType, SameSearch

LEMMA NotifyFacts == ASSUME Notify PROVE event' = event
BY DEF Notify

LEMMA QueueReadFacts ==
    ASSUME TypeOK, NEW j \in Jobs, QueueRead(j)
    PROVE  /\ Moves(j) /\ Untouched /\ Told /\ SameSearch(j)
           /\ Pc(j) = "start"
           /\ \/ row.status = "pending" /\ job'[j].pc = "queueing"
              \/ row.status # "pending" /\ job'[j].pc = "queued"
           /\ job'[j].version = row.version
           /\ UNCHANGED <<row, runs, faults>>
<1>1. job[j] \in JobType /\ job \in [Jobs -> JobType] /\ TypeOK'
    BY TypeFacts, QueueStepType
<1> DEFINE pc == IF row.status = "pending" THEN "queueing" ELSE "queued"
<1>2. job'[j] = [job[j] EXCEPT !.pc = pc, !.version = row.version] /\ \A i \in Jobs : i # j => job'[i] = job[i]
    BY <1>1 DEF QueueRead
<1> HIDE DEF pc
<1>3. job'[j].pc = pc /\ SameSearch(j) /\ job'[j].version = row.version
    BY <1>1, <1>2 DEF JobType, SameSearch
<1>4. Untouched /\ Told /\ UNCHANGED <<row, runs, faults>> /\ Pc(j) = "start"
    BY NotifyFacts DEF QueueRead, Untouched, Told, rowVars, signalVars, boundVars, Pc
<1>5. job' \in [Jobs -> JobType]
    BY <1>1 DEF TypeOK
<1> QED BY <1>2, <1>3, <1>4, <1>5 DEF Moves, pc

LEMMA QueueCommitFacts ==
    ASSUME TypeOK, NEW j \in Jobs, QueueCommit(j)
    PROVE  /\ Moves(j) /\ Untouched /\ Told /\ SameSearch(j)
           /\ Pc(j) = "queueing" /\ job'[j].pc = "queued" /\ Exists
           /\ row' = [row EXCEPT !.status = "queued", !.version = job[j].version + 1]
           /\ UNCHANGED <<runs, faults>>
<1>1. job' \in [Jobs -> JobType]
    BY QueueStepType DEF TypeOK
<1>2. Untouched /\ Told /\ UNCHANGED <<runs, faults>> /\ Pc(j) = "queueing" /\ Exists
    BY NotifyFacts DEF QueueCommit, Untouched, Told, boundVars, Pc
<1> QED BY <1>1, <1>2, NewPc DEF QueueCommit, Moves

LEMMA QueueFailsFacts ==
    ASSUME TypeOK, NEW j \in Jobs, QueueFails(j)
    PROVE  /\ Moves(j) /\ Untouched /\ Told /\ SameSearch(j)
           /\ Pc(j) = "queueing" /\ job'[j].pc = "queued"
           /\ UNCHANGED <<row, runs>>
           /\ faults' \in {faults, faults + 1}
<1>1. job' \in [Jobs -> JobType]
    BY QueueStepType DEF TypeOK
<1>2. Untouched /\ Told /\ UNCHANGED <<row, runs>> /\ Pc(j) = "queueing" /\ faults' \in {faults, faults + 1}
    BY DEF QueueFails, Untouched, Told, Pc, rowVars, signalVars, CommitFails
<1> QED BY <1>1, <1>2, NewPc DEF QueueFails, Moves

LEMMA LoadFacts ==
    ASSUME TypeOK, NEW j \in Jobs, Load(j)
    PROVE  /\ Moves(j) /\ Untouched /\ Told
           /\ Pc(j) \in {"start", "queued"}
           /\ UNCHANGED <<row, runs, faults>>
           /\ \/ row.status = "gone" /\ job'[j].pc = "close" /\ SameSearch(j)
              \/ /\ row.status # "gone" /\ job'[j].pc = "announce"
                 /\ job'[j].version = row.version
                 /\ job'[j].found = PriorFound
                 /\ job'[j].anyOk = PriorOk
                 /\ \A s \in Sources : job'[j].phase[s] = IF s \in (enabled \cap job[j].only) \ Tried
                                                          THEN "candidate" ELSE "no"
<1>1. job[j] \in JobType /\ job \in [Jobs -> JobType] /\ job' \in [Jobs -> JobType]
    BY TypeFacts, LoadType DEF TypeOK
<1>2. Untouched /\ Told /\ UNCHANGED <<row, runs, faults>> /\ Pc(j) \in {"start", "queued"}
    BY DEF Load, LoadWith, Untouched, Told, rowVars, signalVars, boundVars, Pc
<1>3. CASE row.status = "gone"
    <2>1. job' = [job EXCEPT ![j].pc = "close"]
        BY <1>3 DEF Load, LoadWith
    <2> QED BY <1>1, <1>2, <1>3, <2>1, NewPc DEF Moves
<1>4. CASE row.status # "gone"
    <2> DEFINE p == [s \in Sources |-> IF s \in (enabled \cap job[j].only) \ Tried THEN "candidate" ELSE "no"]
               w == IF job[j].refresh THEN 0 ELSE row.wanted
    <2>1. job'[j] = [job[j] EXCEPT !.pc = "announce", !.version = row.version, !.wanted = w,
                                   !.found = PriorFound, !.anyOk = PriorOk, !.phase = p]
          /\ \A i \in Jobs : i # j => job'[i] = job[i]
        BY <1>1, <1>4 DEF Load, LoadWith
    <2>2. \A s \in Sources : p[s] = IF s \in (enabled \cap job[j].only) \ Tried THEN "candidate" ELSE "no"
        OBVIOUS
    <2> HIDE DEF p, w
    <2>3. /\ job'[j].pc = "announce" /\ job'[j].version = row.version /\ job'[j].found = PriorFound
          /\ job'[j].anyOk = PriorOk /\ job'[j].phase = p
        BY <1>1, <2>1 DEF JobType
    <2> QED BY <1>1, <1>2, <1>4, <2>1, <2>2, <2>3 DEF Moves
<1> QED BY <1>3, <1>4

LEMMA AnnounceFacts ==
    ASSUME TypeOK, NEW j \in Jobs, Announce(j)
    PROVE  /\ Moves(j) /\ Untouched /\ Told
           /\ Pc(j) = "announce" /\ Exists
           /\ UNCHANGED <<runs, faults>>
           /\ row'.fresh = row.fresh
           /\ row'.total = Cardinality(Tried) + Cardinality(In(j, {"candidate"}))
           /\ row'.starred = Cardinality(Starred \cap (Tried \cup In(j, {"candidate"})))
           /\ \/ /\ In(j, {"candidate"}) = {} /\ row'.status = "done" /\ row'.version = job[j].version + 1
                 /\ job'[j].pc = "close" /\ SameSearch(j)
              \/ /\ In(j, {"candidate"}) # {} /\ row'.status = "running" /\ row'.version = row.version
                 /\ job'[j] = StartMore(job[j])
<1>1. /\ job[j] \in JobType /\ job \in [Jobs -> JobType] /\ job' \in [Jobs -> JobType] /\ row \in RowType
    BY TypeFacts, AnnounceType DEF TypeOK
<1>2. Untouched /\ Told /\ UNCHANGED <<runs, faults>> /\ Pc(j) = "announce" /\ Exists
    BY DEF Announce, Untouched, Told, signalVars, boundVars, Pc
<1> DEFINE candidates == In(j, {"candidate"})
           total == Cardinality(Tried) + Cardinality(candidates)
           starred == Cardinality(Starred \cap (Tried \cup candidates))
<1>3. IF candidates = {}
      THEN /\ row' = [row EXCEPT !.total = total, !.starred = starred, !.status = "done",
                                 !.version = job[j].version + 1]
           /\ job' = [job EXCEPT ![j].pc = "close"]
      ELSE /\ row' = [row EXCEPT !.total = total, !.starred = starred, !.status = "running"]
           /\ job' = [job EXCEPT ![j] = StartMore(@)]
    BY DEF Announce
<1> HIDE DEF total, starred
<1>4. CASE candidates = {}
    <2>1. row'.total = total /\ row'.starred = starred /\ row'.status = "done" /\ row'.version = job[j].version + 1 /\ row'.fresh = row.fresh
        BY <1>1, <1>3, <1>4 DEF RowType
    <2>2. job'[j].pc = "close" /\ SameSearch(j) /\ \A i \in Jobs : i # j => job'[i] = job[i]
        BY <1>3, <1>4, NewPc
    <2> QED BY <1>1, <1>2, <1>4, <2>1, <2>2 DEF Moves, total, starred
<1>5. CASE candidates # {}
    <2>1. row'.total = total /\ row'.starred = starred /\ row'.status = "running" /\ row'.version = row.version /\ row'.fresh = row.fresh
        BY <1>1, <1>3, <1>5 DEF RowType
    <2>2. job'[j] = StartMore(job[j]) /\ \A i \in Jobs : i # j => job'[i] = job[i]
        BY <1>1, <1>3, <1>5
    <2> QED BY <1>1, <1>2, <1>5, <2>1, <2>2 DEF Moves, total, starred
<1> QED BY <1>4, <1>5

(* What a search takes along from one step to the next: all but its control state and its phases. *)
SameCounts(x, y) ==
    /\ x.version = y.version /\ x.found = y.found /\ x.anyOk = y.anyOk /\ x.wanted = y.wanted
    /\ x.only = y.only /\ x.out = y.out

LEMMA StartMoreRest ==
    ASSUME NEW b \in JobType
    PROVE  SameCounts(StartMore(b), b)
<1> DEFINE waiting == {s \in Sources : b.phase[s] = "candidate"}
           running == {s \in Sources : b.phase[s] \in {"asked", "answered"}}
           starts  == {s \in waiting : \/ b.wanted = 0
                                       \/ b.found + Cardinality(running)
                                            + Cardinality(waiting \cap Before[s]) < b.wanted}
           phase   == [s \in Sources |-> IF s \in starts THEN "asked" ELSE b.phase[s]]
           next    == IF running \cup starts = {} THEN "final" ELSE "fan"
<1>1. StartMore(b) = [b EXCEPT !.phase = phase, !.pc = next]
    BY DEF StartMore
<1> HIDE DEF phase, next
<1> QED BY <1>1 DEF JobType, SameCounts

LEMMA AnswerFacts ==
    ASSUME TypeOK, NEW j \in Jobs, NEW s \in Sources, NEW o \in Outcomes, Answer(j, s, o)
    PROVE  /\ Moves(j) /\ Untouched /\ Told
           /\ UNCHANGED <<row, runs, faults>>
           /\ job[j].phase[s] = "asked" /\ job'[j].phase[s] = "answered" /\ job'[j].out[s] = o
           /\ \A u \in Sources : u # s => job'[j].phase[u] = job[j].phase[u] /\ job'[j].out[u] = job[j].out[u]
           /\ job'[j].pc = job[j].pc /\ job'[j].version = job[j].version /\ job'[j].found = job[j].found
           /\ job'[j].anyOk = job[j].anyOk /\ job'[j].wanted = job[j].wanted /\ job'[j].only = job[j].only
           /\ job'[j].saving = job[j].saving
<1>1. job[j] \in JobType /\ job \in [Jobs -> JobType] /\ job' \in [Jobs -> JobType]
    BY TypeFacts, ResultStepType DEF TypeOK
<1>2. Untouched /\ Told /\ UNCHANGED <<row, runs, faults>> /\ job[j].phase[s] = "asked"
    BY DEF Answer, Untouched, Told, rowVars, signalVars, boundVars
<1> DEFINE p == [job[j].phase EXCEPT ![s] = "answered"]
           q == [job[j].out EXCEPT ![s] = o]
<1>3. job'[j] = [job[j] EXCEPT !.phase = p, !.out = q] /\ \A i \in Jobs : i # j => job'[i] = job[i]
    BY <1>1 DEF Answer, JobType
<1>4. p[s] = "answered" /\ q[s] = o /\ \A u \in Sources : u # s => p[u] = job[j].phase[u] /\ q[u] = job[j].out[u]
    BY <1>1 DEF JobType
<1> HIDE DEF p, q
<1>5. /\ job'[j].phase = p /\ job'[j].out = q
      /\ job'[j].pc = job[j].pc /\ job'[j].version = job[j].version /\ job'[j].found = job[j].found
      /\ job'[j].anyOk = job[j].anyOk /\ job'[j].wanted = job[j].wanted /\ job'[j].only = job[j].only
      /\ job'[j].saving = job[j].saving
    BY <1>1, <1>3 DEF JobType
<1> QED BY <1>1, <1>2, <1>3, <1>4, <1>5 DEF Moves

LEMMA WakeFacts ==
    ASSUME TypeOK, NEW j \in Jobs, Wake(j)
    PROVE  /\ Moves(j) /\ Untouched /\ Told
           /\ UNCHANGED <<row, runs, faults>>
           /\ Pc(j) = "fan" /\ job'[j].pc = "fan"
           /\ In(j, {"batch"}) = {} /\ In(j, {"answered"}) # {}
           /\ \A u \in Sources : job'[j].phase[u] = IF job[j].phase[u] = "answered" THEN "batch" ELSE job[j].phase[u]
           /\ SameCounts(job'[j], job[j]) /\ job'[j].saving = job[j].saving
<1>1. job[j] \in JobType /\ job \in [Jobs -> JobType]
    BY TypeFacts
<1>2. Untouched /\ Told /\ UNCHANGED <<row, runs, faults>> /\ Pc(j) = "fan"
      /\ In(j, {"batch"}) = {} /\ In(j, {"answered"}) # {}
    BY DEF Wake, Untouched, Told, rowVars, signalVars, boundVars, Pc
<1>3. job' \in [Jobs -> JobType]
    <2>1. PICK s \in Sources : TRUE
        BY <1>2 DEF In
    <2> QED BY <2>1, ResultStepType DEF TypeOK
<1> DEFINE p == [u \in Sources |-> IF job[j].phase[u] = "answered" THEN "batch" ELSE job[j].phase[u]]
<1>4. job'[j] = [job[j] EXCEPT !.phase = p] /\ \A i \in Jobs : i # j => job'[i] = job[i]
    BY <1>1 DEF Wake, JobType
<1>5. \A u \in Sources : p[u] = IF job[j].phase[u] = "answered" THEN "batch" ELSE job[j].phase[u]
    OBVIOUS
<1> HIDE DEF p
<1>6. job'[j].phase = p /\ job'[j].pc = job[j].pc /\ SameCounts(job'[j], job[j]) /\ job'[j].saving = job[j].saving
    BY <1>1, <1>4 DEF JobType, SameCounts
<1> QED BY <1>2, <1>3, <1>4, <1>5, <1>6 DEF Moves, Pc

LEMMA TakeFacts ==
    ASSUME TypeOK, NEW j \in Jobs, NEW s \in Sources, TakeResult(j, s)
    PROVE  /\ Moves(j) /\ Untouched /\ Told
           /\ UNCHANGED <<row, runs, faults>>
           /\ Pc(j) = "fan" /\ job'[j].pc = "save" /\ job'[j].saving = {s}
           /\ job[j].phase[s] = "batch" /\ job'[j].phase[s] = "saving"
           /\ \A u \in Sources : u # s => job'[j].phase[u] = job[j].phase[u]
           /\ job'[j].found = IF job[j].out[s] = "ok" THEN job[j].found + 1 ELSE job[j].found
           /\ job'[j].anyOk = (job[j].anyOk \/ job[j].out[s] # "error")
           /\ job'[j].version = job[j].version /\ job'[j].wanted = job[j].wanted
           /\ job'[j].only = job[j].only /\ job'[j].out = job[j].out
<1>1. job[j] \in JobType /\ job \in [Jobs -> JobType] /\ job' \in [Jobs -> JobType]
    BY TypeFacts, ResultStepType DEF TypeOK
<1>2. Untouched /\ Told /\ UNCHANGED <<row, runs, faults>> /\ Pc(j) = "fan" /\ job[j].phase[s] = "batch"
    BY DEF TakeResult, Untouched, Told, rowVars, signalVars, boundVars, Pc
<1> DEFINE f == IF job[j].out[s] = "ok" THEN job[j].found + 1 ELSE job[j].found
           a == job[j].anyOk \/ job[j].out[s] # "error"
           p == [job[j].phase EXCEPT ![s] = "saving"]
           x == [job[j] EXCEPT !.pc = "save", !.saving = {s}, !.phase = p, !.found = f, !.anyOk = a]
<1>3. job'[j] = x /\ \A i \in Jobs : i # j => job'[i] = job[i]
    BY <1>1 DEF TakeResult
<1>4. p[s] = "saving" /\ \A u \in Sources : u # s => p[u] = job[j].phase[u]
    BY <1>1 DEF JobType
<1> HIDE DEF p, f, a
<1>5. /\ x.pc = "save" /\ x.saving = {s} /\ x.phase = p /\ x.found = f /\ x.anyOk = a
      /\ x.version = job[j].version /\ x.wanted = job[j].wanted
      /\ x.only = job[j].only /\ x.out = job[j].out
    BY <1>1 DEF JobType
<1> HIDE DEF x
<1> QED BY <1>1, <1>2, <1>3, <1>4, <1>5 DEF Moves, f, a

(* The search after its save, before it starts more scripts. *)
AfterSave(j, s, b) ==
    /\ b \in JobType /\ b.pc = "fan" /\ b.saving = {}
    /\ b.version = job[j].version + 1
    /\ \A u \in Sources : b.phase[u] = IF u = s THEN "saved" ELSE job[j].phase[u]
    /\ b.found = job[j].found /\ b.anyOk = job[j].anyOk /\ b.wanted = job[j].wanted /\ b.only = job[j].only
    /\ b.out = job[j].out

LEMMA SaveFacts ==
    ASSUME TypeOK, NEW j \in Jobs, SaveResult(j)
    PROVE  /\ Moves(j) /\ Untouched /\ Told
           /\ faults' = faults /\ Pc(j) = "save" /\ Exists
           /\ row' = [row EXCEPT !.version = job[j].version + 1]
           /\ \E s \in job[j].saving :
                /\ s \in Sources
                /\ runs' = [runs EXCEPT ![s] = job[j].out[s]]
                /\ \E b : /\ AfterSave(j, s, b)
                          /\ \/ job'[j] = b /\ \E u \in Sources : b.phase[u] = "batch"
                             \/ job'[j] = StartMore(b) /\ \A u \in Sources : b.phase[u] # "batch"
<1>1. job[j] \in JobType /\ job \in [Jobs -> JobType] /\ job' \in [Jobs -> JobType]
    BY TypeFacts, SaveResultType DEF TypeOK
<1>2. Untouched /\ Told /\ faults' = faults /\ Pc(j) = "save" /\ Exists
    BY NotifyFacts DEF SaveResult, Untouched, Told, boundVars, Pc
<1>3. PICK s \in job[j].saving :
        /\ runs' = [runs EXCEPT ![s] = job[j].out[s]]
        /\ row' = [row EXCEPT !.version = job[j].version + 1]
        /\ LET b == [job[j] EXCEPT !.pc = "fan", !.saving = {}, !.version = @ + 1, !.phase[s] = "saved"]
           IN  job' = [job EXCEPT ![j] = IF \E u \in Sources : b.phase[u] = "batch" THEN b ELSE StartMore(b)]
    BY DEF SaveResult
<1> DEFINE b == [job[j] EXCEPT !.pc = "fan", !.saving = {}, !.version = @ + 1, !.phase[s] = "saved"]
<1>4. s \in Sources
    BY <1>1 DEF JobType
<1>5. AfterSave(j, s, b)
    <2> DEFINE p == [job[j].phase EXCEPT ![s] = "saved"]
               v == job[j].version + 1
    <2>1. /\ p \in [Sources -> {"no", "candidate", "asked", "answered", "batch", "saving", "saved"}]
          /\ v \in Nat
          /\ \A u \in Sources : p[u] = IF u = s THEN "saved" ELSE job[j].phase[u]
        BY <1>1, <1>4 DEF JobType
    <2>2. b = [job[j] EXCEPT !.pc = "fan", !.saving = {}, !.version = v, !.phase = p]
        BY <1>1, <1>4 DEF JobType
    <2> HIDE DEF p, b
    <2>3. v = job[j].version + 1
        OBVIOUS
    <2> HIDE DEF v
    <2>4. b \in JobType
        BY <1>1, <2>1, <2>2 DEF JobType
    <2>5. /\ b.pc = "fan" /\ b.saving = {} /\ b.version = v /\ b.phase = p
          /\ b.found = job[j].found /\ b.anyOk = job[j].anyOk /\ b.wanted = job[j].wanted /\ b.only = job[j].only
          /\ b.out = job[j].out
        BY <1>1, <2>2 DEF JobType
    <2> QED BY <2>1, <2>3, <2>4, <2>5 DEF AfterSave
<1>6. job' = [job EXCEPT ![j] = IF \E u \in Sources : b.phase[u] = "batch" THEN b ELSE StartMore(b)]
    BY <1>3
<1> HIDE DEF b
<1>7. \/ job'[j] = b /\ \E u \in Sources : b.phase[u] = "batch"
      \/ job'[j] = StartMore(b) /\ \A u \in Sources : b.phase[u] # "batch"
    BY <1>1, <1>6
<1>8. Moves(j)
    BY <1>1, <1>6 DEF Moves
<1> QED BY <1>2, <1>3, <1>4, <1>5, <1>7, <1>8

LEMMA FinishFacts ==
    ASSUME TypeOK, NEW j \in Jobs, Finish(j)
    PROVE  /\ Moves(j) /\ Untouched /\ Told /\ SameSearch(j)
           /\ UNCHANGED <<runs, faults>>
           /\ Pc(j) = "final" /\ job'[j].pc = "close" /\ Exists
           /\ row'.status = IF job[j].anyOk THEN "done" ELSE "failed"
           /\ row'.version = job[j].version + 1 /\ row'.fresh = row.fresh /\ row'.total = row.total
<1>1. job' \in [Jobs -> JobType] /\ row \in RowType
    BY TypeFacts, EndStepType DEF TypeOK
<1>2. Untouched /\ Told /\ UNCHANGED <<runs, faults>> /\ Pc(j) = "final" /\ Exists
    BY NotifyFacts DEF Finish, Untouched, Told, boundVars, Pc
<1>3. job'[j].pc = "close" /\ SameSearch(j) /\ \A i \in Jobs : i # j => job'[i] = job[i]
    BY NewPc DEF Finish
<1> DEFINE st == IF job[j].anyOk THEN "done" ELSE "failed"
<1>4. row' = [row EXCEPT !.status = st, !.version = job[j].version + 1]
    BY DEF Finish
<1> HIDE DEF st
<1>5. row'.status = st /\ row'.version = job[j].version + 1 /\ row'.fresh = row.fresh /\ row'.total = row.total
    BY <1>1, <1>4 DEF RowType
<1> QED BY <1>1, <1>2, <1>3, <1>5 DEF Moves, st

LEMMA CrashFacts ==
    ASSUME TypeOK, NEW j \in Jobs, Crash(j)
    PROVE  /\ Moves(j) /\ Untouched /\ Told
           /\ UNCHANGED <<row, runs>>
           /\ Pc(j) \in {"announce", "save", "final"} /\ job'[j].pc = "crash"
           /\ \A s \in Sources : job'[j].phase[s] = "no"
           /\ faults' = faults + 1 \/ (row.status = "gone" /\ faults' = faults)
<1>1. job' \in [Jobs -> JobType] /\ job \in [Jobs -> JobType]
    BY TypeFacts, EndStepType DEF TypeOK
<1>2. Untouched /\ Told /\ UNCHANGED <<row, runs>> /\ Pc(j) \in {"announce", "save", "final"}
      /\ (faults' = faults + 1 \/ (row.status = "gone" /\ faults' = faults))
    BY DEF Crash, Untouched, Told, rowVars, signalVars, Pc, CommitFails
<1>3. job'[j] = [Idle EXCEPT !.pc = "crash"] /\ \A i \in Jobs : i # j => job'[i] = job[i]
    BY <1>1 DEF Crash
<1>4. job'[j].pc = "crash" /\ \A s \in Sources : job'[j].phase[s] = "no"
    BY <1>3 DEF Idle
<1> QED BY <1>1, <1>2, <1>3, <1>4 DEF Moves

LEMMA RecordCrashFacts ==
    ASSUME TypeOK, NEW j \in Jobs, RecordCrash(j) \/ RecordCrashFails(j)
    PROVE  /\ Moves(j) /\ Untouched /\ Told /\ SameSearch(j)
           /\ Pc(j) = "crash" /\ job'[j].pc = "close" /\ runs' = runs
           /\ \/ /\ Exists /\ row.status \notin {"done", "failed"} /\ faults' = faults
                 /\ row'.status = "failed" /\ row'.version = row.version + 1
                 /\ row'.fresh = row.fresh /\ row'.total = row.total
              \/ ~(Exists /\ row.status \notin {"done", "failed"}) /\ row' = row /\ faults' = faults
              \/ Exists /\ row' = row /\ faults' = faults + 1
<1>1. job' \in [Jobs -> JobType] /\ row \in RowType
    BY TypeFacts, EndStepType DEF TypeOK
<1>2. Untouched /\ Told /\ Pc(j) = "crash" /\ runs' = runs
    BY NotifyFacts DEF RecordCrash, RecordCrashFails, Untouched, Told, boundVars, Pc, rowVars
<1>3. job'[j].pc = "close" /\ SameSearch(j) /\ \A i \in Jobs : i # j => job'[i] = job[i]
    BY NewPc DEF RecordCrash, RecordCrashFails
<1>4. CASE RecordCrashFails(j)
    <2>1. Exists /\ row' = row /\ faults' = faults + 1
        BY <1>4 DEF RecordCrashFails, CommitFails, Exists, rowVars
    <2> QED BY <1>1, <1>2, <1>3, <2>1 DEF Moves
<1>5. CASE RecordCrash(j) /\ Exists /\ row.status \notin {"done", "failed"}
    <2>1. row' = [row EXCEPT !.status = "failed", !.version = row.version + 1] /\ faults' = faults
        BY <1>5 DEF RecordCrash, boundVars
    <2>2. /\ row'.status = "failed" /\ row'.version = row.version + 1
          /\ row'.fresh = row.fresh /\ row'.total = row.total
        BY <1>1, <2>1 DEF RowType
    <2> QED BY <1>1, <1>2, <1>3, <1>5, <2>1, <2>2 DEF Moves
<1>6. CASE RecordCrash(j) /\ ~(Exists /\ row.status \notin {"done", "failed"})
    <2>1. row' = row /\ faults' = faults
        BY <1>6 DEF RecordCrash, boundVars
    <2> QED BY <1>1, <1>2, <1>3, <1>6, <2>1 DEF Moves
<1> QED BY <1>4, <1>5, <1>6

LEMMA CloseFacts ==
    ASSUME TypeOK, NEW j \in Jobs, Close(j)
    PROVE  /\ Moves(j) /\ Untouched /\ SameSearch(j)
           /\ UNCHANGED <<row, runs, faults>>
           /\ Pc(j) = "close" /\ job'[j].pc = "ended"
<1>1. job' \in [Jobs -> JobType]
    BY EndStepType DEF TypeOK
<1>2. Untouched /\ UNCHANGED <<row, runs, faults>> /\ Pc(j) = "close"
    BY DEF Close, Untouched, boundVars, Pc, rowVars
<1> QED BY <1>1, <1>2, NewPc DEF Close, Moves

LEMMA DoneFacts ==
    ASSUME TypeOK, NEW j \in Jobs, DoneCallback(j)
    PROVE  /\ Moves(j) /\ Told
           /\ UNCHANGED <<row, runs, enabled, req, cleanup, faults, toggles, restarts>>
           /\ Pc(j) = "ended" /\ job'[j] = Idle
<1>1. job' \in [Jobs -> JobType] /\ job \in [Jobs -> JobType]
    BY TypeFacts, EndStepType DEF TypeOK
<1> QED BY <1>1 DEF DoneCallback, Moves, Told, rowVars, signalVars, boundVars, Pc

-----------------------------------------------------------------------------
(* Whose task it is *)

(* If a search is out of the way before the next one starts, there is one coroutine at a time, *)
(* it is the one registered, and it has its event until it is closed.                          *)
Alone == \A i, j \in Jobs : Pc(i) # "idle" /\ Pc(j) # "idle" => i = j
Registered == \A j \in Jobs : Pc(j) # "idle" => known = j
Heard == \A j \in Jobs : Pc(j) \notin {"idle", "ended"} => event = TRUE

NewIsFree == row.status = "absent" => \A j \in Jobs : Pc(j) = "idle"

(* The second commit that fails may be the record of a crash, which the first one caused. *)
Served == row.status \in InFlight /\ faults < 2 => Flying # {}
CrashCounted == \A j \in Jobs : Pc(j) = "crash" => faults >= 1 \/ row.status = "gone"

Owner ==
    /\ PromptTail => Alone /\ Registered /\ Heard
    /\ NewIsFree /\ Served /\ CrashCounted

(* A step that leaves every job where it is. *)
LEMMA OwnerStays ==
    ASSUME TypeOK, Owner, \A i \in Jobs : job'[i].pc = job[i].pc,
           event' = event, known' = known, faults' = faults \/ faults' = faults + 1,
           row'.status = row.status \/ row'.status \notin InFlight \cup {"absent"},
           row.status = "gone" => row'.status = "gone"
    PROVE  Owner'
<1>1. Flying' = Flying
    BY DEF Flying
<1>2. faults \in Nat
    BY TypeFacts
<1>3. (Alone => Alone') /\ (Registered => Registered') /\ (Heard => Heard')
    BY DEF Alone, Registered, Heard, Pc
<1>4. NewIsFree'
    BY DEF Owner, NewIsFree, Pc, InFlight
<1>5. Served'
    BY <1>1, <1>2 DEF Owner, Served
<1>6. CrashCounted'
    BY <1>2 DEF Owner, CrashCounted, Pc
<1> QED BY <1>3, <1>4, <1>5, <1>6 DEF Owner

(* A step of one job. *)
LEMMA OwnerMoves ==
    ASSUME TypeOK, Owner, NEW j \in Jobs, Moves(j), Pc(j) # "idle",
           event' = event \/ job'[j].pc \in {"idle", "ended"},
           known' = known \/ job'[j].pc = "idle",
           faults' = faults \/ faults' = faults + 1,
           row'.status # "absent",
           row.status = "gone" => row'.status = "gone",
           \/ job'[j].pc \notin {"idle", "close", "ended"}
           \/ row'.status \notin InFlight
           \/ faults' >= 2
           \/ j \notin Flying /\ row'.status = row.status,
           job'[j].pc = "crash" => faults' >= 1 \/ row'.status = "gone",
           Pc(j) = "ended" => job'[j].pc = "idle"
    PROVE  Owner'
<1>1. faults \in Nat /\ faults' \in Nat /\ faults' >= faults
    BY TypeFacts
<1>2. \A i \in Jobs : i # j => job'[i] = job[i]
    BY DEF Moves
<1>3. ASSUME Alone, Registered, Heard
      PROVE  Alone' /\ Registered' /\ Heard'
    <2>1. \A i \in Jobs : i # j => Pc(i) = "idle"
        BY <1>3 DEF Alone
    <2>2. \A i \in Jobs : i # j => job'[i].pc = "idle"
        BY <1>2, <2>1 DEF Pc
    <2>3. Alone'
        BY <2>2 DEF Alone, Pc
    <2>4. Registered'
        BY <1>3, <2>2 DEF Registered, Pc
    <2>5. Heard'
        <3>1. job'[j].pc \notin {"idle", "ended"} => event' = event
            OBVIOUS
        <3>2. SUFFICES ASSUME job'[j].pc \notin {"idle", "ended"} PROVE event = TRUE
            BY <2>2, <3>1 DEF Heard, Pc
        <3>3. Pc(j) \notin {"idle", "ended"}
            BY <3>2
        <3> QED BY <1>3, <3>3 DEF Heard
    <2> QED BY <2>3, <2>4, <2>5
<1>4. NewIsFree'
    BY DEF NewIsFree
<1>5. Served'
    <2> SUFFICES ASSUME row'.status \in InFlight, faults' < 2 PROVE Flying' # {}
        BY DEF Served
    <2>1. CASE job'[j].pc \notin {"idle", "close", "ended"}
        BY <2>1 DEF Flying
    <2>2. CASE j \notin Flying /\ row'.status = row.status
        <3>1. PICK i \in Flying : TRUE
            BY <1>1, <2>2 DEF Owner, Served
        <3> QED BY <1>2, <2>2, <3>1 DEF Flying
    <2> QED BY <1>1, <2>1, <2>2
<1>6. CrashCounted'
    BY <1>1, <1>2 DEF Owner, CrashCounted, Pc
<1> QED BY <1>3, <1>4, <1>5, <1>6 DEF Owner


(* A search that starts takes an idle job and registers it. *)
Starts(j, only) ==
    /\ Pc(j) = "idle" /\ known' = j /\ event' = TRUE
    /\ \A i \in Jobs : i # j => job'[i] = job[i]
    /\ job'[j].pc = "start" /\ job'[j].only = only
    /\ \A s \in Sources : job'[j].phase[s] = "no"

LEMMA StartFacts ==
    ASSUME TypeOK, NEW refresh, NEW only, StartTask(refresh, only)
    PROVE  \E j \in Jobs : Starts(j, only)
<1>1. job \in [Jobs -> JobType]
    BY TypeFacts
<1>2. PICK j \in Jobs : /\ job[j].pc = "idle" /\ known' = j
                        /\ job' = [job EXCEPT ![j] = [Idle EXCEPT !.pc = "start", !.refresh = refresh, !.only = only]]
    BY DEF StartTask
<1>3. /\ job'[j].pc = "start" /\ job'[j].only = only
      /\ \A s \in Sources : job'[j].phase[s] = "no"
      /\ \A i \in Jobs : i # j => job'[i] = job[i]
    BY <1>1, <1>2 DEF Idle
<1> QED BY <1>2, <1>3 DEF StartTask, Register, Pc, Starts

LEMMA OwnerStarts ==
    ASSUME TypeOK, Owner, PromptTail => \A j \in Jobs : Pc(j) = "idle",
           NEW refresh, NEW only, StartTask(refresh, only),
           row'.status = "pending", row.status # "gone", faults' = faults
    PROVE  Owner'
<1>1. PICK j \in Jobs : Starts(j, only)
    BY StartFacts
<1> USE DEF Starts
<1>2. ASSUME \A i \in Jobs : Pc(i) = "idle"
      PROVE  Alone' /\ Registered' /\ Heard'
    BY <1>1, <1>2 DEF Alone, Registered, Heard, Pc
<1>3. NewIsFree' /\ Served'
    BY <1>1 DEF NewIsFree, Served, Flying
<1>4. CrashCounted'
    BY <1>1 DEF Owner, CrashCounted, Pc
<1> QED BY <1>2, <1>3, <1>4 DEF Owner

LEMMA OwnerClient ==
    ASSUME TypeOK, Owner, Client
    PROVE  Owner'
<1>0. row \in RowType
    BY TypeFacts
<1>1. ASSUME NEW w \in Wants, Resolve(w)
      PROVE  Owner'
    <2>1. row.status = "absent" /\ row'.status = "pending" /\ faults' = faults /\ StartTask(FALSE, Sources)
        BY <1>0, <1>1 DEF Resolve, RowType, boundVars
    <2>2. \A j \in Jobs : Pc(j) = "idle"
        BY <2>1 DEF Owner, NewIsFree
    <2> QED BY <2>1, <2>2, OwnerStarts
<1>2. ASSUME NEW count, MoreFetch(count)
      PROVE  Owner'
    BY <1>2, OwnerStays DEF MoreFetch, rowVars, signalVars, boundVars
<1>3. ASSUME NEW chosen, RefreshFetch(chosen)
      PROVE  Owner'
    BY <1>3, OwnerStays DEF RefreshFetch, rowVars, signalVars, boundVars
<1> QED BY <1>1, <1>2, <1>3 DEF Client

LEMMA OwnerEndpoint ==
    ASSUME TypeOK, SInv, Owner, Endpoint
    PROVE  Owner'
<1>0. row \in RowType
    BY TypeFacts
<1>1. CASE RequestCommit
    <2> DEFINE refresh == req.op = "refresh"
               only == IF req.op = "refresh" THEN req.chosen ELSE Sources
    <2>1. row'.status = "pending" /\ row.status # "gone" /\ faults' = faults /\ StartTask(refresh, only)
        BY <1>0, <1>1 DEF RequestCommit, RowType, boundVars, Exists
    <2>2. PromptTail => \A j \in Jobs : Pc(j) = "idle"
        <3>1. Flying = {} /\ (PromptTail => Ending = {})
            BY <1>1 DEF SInv, RequestHasNoJob, RequestCommit
        <3> QED BY <3>1 DEF Flying, Ending, Pc
    <2> HIDE DEF refresh, only
    <2> QED BY <2>1, <2>2, OwnerStarts
<1>2. CASE RequestFails
    BY <1>2, OwnerStays DEF RequestFails, rowVars, signalVars
<1> QED BY <1>1, <1>2 DEF Endpoint

LEMMA OwnerCleanup ==
    ASSUME TypeOK, Owner, CleanupStep
    PROVE  Owner'
<1>0. row \in RowType
    BY TypeFacts
<1>1. /\ job' = job /\ known' = known /\ event' = event
      /\ faults' = faults \/ faults' = faults + 1
    BY DEF CleanupStep, ExpireSelect, ExpireCommit, ExpireFails, signalVars, boundVars, CommitFails
<1>2. row' = row \/ (row'.status = "expired" /\ row.status # "gone")
    BY <1>0 DEF CleanupStep, ExpireSelect, ExpireCommit, ExpireFails, rowVars, RowType, Exists
<1> QED BY <1>1, <1>2, OwnerStays DEF InFlight

LEMMA OwnerEnvironment ==
    ASSUME TypeOK, Owner, Environment
    PROVE  Owner'
<1>0. row \in RowType
    BY TypeFacts
<1>1. CASE Restart
    <2>1. \A j \in Jobs : job'[j].pc = "idle"
        BY <1>1 DEF Restart, Idle
    <2>2. row'.status \notin InFlight
        BY <1>0, <1>1 DEF Restart, RowType, InFlight
    <2>3. Alone' /\ Registered' /\ Heard' /\ NewIsFree' /\ CrashCounted'
        BY <2>1 DEF Alone, Registered, Heard, NewIsFree, CrashCounted, Pc
    <2> QED BY <2>2, <2>3 DEF Owner, Served
<1>2. CASE TimePasses \/ Purge \/ \E s \in Sources : Toggle(s)
    <2>1. job' = job /\ known' = known /\ event' = event /\ faults' = faults
        BY <1>2 DEF TimePasses, Purge, Toggle, signalVars, boundVars
    <2>2. row'.status = row.status \/ row'.status = "gone"
        BY <1>0, <1>2 DEF TimePasses, Purge, Toggle, rowVars, RowType
    <2> QED BY <2>1, <2>2, OwnerStays DEF InFlight
<1> QED BY <1>1, <1>2 DEF Environment

LEMMA OwnerJob ==
    ASSUME TypeOK, Owner, NEW j \in Jobs, JobStep(j)
    PROVE  Owner'
<1>0. row \in RowType /\ row.status \in Statuses /\ faults \in Nat
    BY TypeFacts DEF RowType
<1>1. Pc(j) # "idle" => row.status # "absent"
    BY DEF Owner, NewIsFree
<1> USE <1>1
<1>2. CASE QueueRead(j)
    BY <1>2, QueueReadFacts, OwnerMoves DEF Told, Untouched
<1>3. CASE QueueCommit(j)
    <2>1. row'.status = "queued"
        BY <1>0, <1>3, QueueCommitFacts DEF RowType
    <2> QED BY <1>3, <2>1, QueueCommitFacts, OwnerMoves DEF Told, Untouched, Exists
<1>4. CASE QueueFails(j)
    BY <1>4, QueueFailsFacts, OwnerMoves DEF Told, Untouched
<1>5. CASE Load(j)
    BY <1>5, LoadFacts, OwnerMoves DEF Told, Untouched, InFlight
<1>6. CASE Announce(j)
    <2>1. job'[j].pc \in {"fan", "final"} \/ (row'.status = "done" /\ job'[j].pc = "close")
        BY <1>6, AnnounceFacts, StartMoreFacts, TypeFacts
    <2>2. row'.status \in {"done", "running"}
        BY <1>6, AnnounceFacts
    <2> QED BY <1>6, <2>1, <2>2, AnnounceFacts, OwnerMoves DEF Told, Untouched, InFlight, Exists
<1>7. CASE Wake(j)
    BY <1>7, WakeFacts, OwnerMoves DEF Told, Untouched
<1>8. ASSUME NEW s \in Sources, TakeResult(j, s)
      PROVE  Owner'
    BY <1>8, TakeFacts, OwnerMoves DEF Told, Untouched
<1>9. CASE SaveResult(j)
    <2>1. job'[j].pc \in {"fan", "final"}
        BY <1>9, SaveFacts, StartMoreFacts DEF AfterSave
    <2>2. row'.status = row.status
        BY <1>0, <1>9, SaveFacts DEF RowType
    <2> QED BY <1>9, <2>1, <2>2, SaveFacts, OwnerMoves DEF Told, Untouched
<1>10. CASE Finish(j)
    BY <1>10, FinishFacts, OwnerMoves DEF Told, Untouched, InFlight, Exists
<1>11. CASE Crash(j)
    BY <1>0, <1>11, CrashFacts, OwnerMoves DEF Told, Untouched
<1>12. CASE RecordCrash(j) \/ RecordCrashFails(j)
    <2>1. faults >= 1 \/ row.status = "gone"
        BY <1>12, RecordCrashFacts DEF Owner, CrashCounted
    <2>2. row'.status \notin InFlight \/ faults' >= 2
        BY <1>0, <1>12, <2>1, RecordCrashFacts DEF InFlight, Exists, Statuses
    <2>3. row'.status # "absent" /\ (row.status = "gone" => row'.status = "gone")
        BY <1>12, RecordCrashFacts DEF Exists
    <2> QED BY <1>12, <2>2, <2>3, RecordCrashFacts, OwnerMoves DEF Told, Untouched
<1>13. CASE Close(j)
    BY <1>13, CloseFacts, OwnerMoves DEF Untouched, Flying, Pc
<1>14. CASE DoneCallback(j)
    <2>1. job'[j].pc = "idle"
        BY <1>14, DoneFacts DEF Idle
    <2> QED BY <1>14, <2>1, DoneFacts, OwnerMoves DEF Told, Flying, Pc
<1> QED BY <1>2, <1>3, <1>4, <1>5, <1>6, <1>7, <1>8, <1>9, <1>10, <1>11, <1>12, <1>13, <1>14 DEF JobStep

LEMMA OwnerNext == TypeOK /\ SInv /\ Owner /\ [Next]_vars => Owner'
<1> SUFFICES ASSUME TypeOK, SInv, Owner, [Next]_vars PROVE Owner'
    OBVIOUS
<1>1. CASE UNCHANGED vars
    BY <1>1, OwnerStays DEF vars
<1>2. ASSUME NEW j \in Jobs, SomeAnswer(j)
      PROVE  Owner'
    <2>1. PICK s \in Sources, o \in Outcomes : Answer(j, s, o)
        BY <1>2 DEF SomeAnswer
    <2>2. \A i \in Jobs : job'[i].pc = job[i].pc
        BY <2>1, AnswerFacts DEF Moves
    <2> QED BY <2>1, <2>2, AnswerFacts, OwnerStays DEF Told, Untouched
<1> QED BY <1>1, <1>2, OwnerClient, OwnerEndpoint, OwnerJob, OwnerCleanup, OwnerEnvironment DEF Next

LEMMA OwnerInit == Init => Owner
<1> SUFFICES ASSUME Init PROVE Owner
    OBVIOUS
<1>1. \A j \in Jobs : Pc(j) = "idle"
    BY DEF Init, Idle, Pc
<1>2. row.status = "absent"
    BY DEF Init
<1>3. Alone /\ Registered /\ Heard /\ NewIsFree /\ CrashCounted
    BY <1>1 DEF Alone, Registered, Heard, NewIsFree, CrashCounted
<1> QED BY <1>2, <1>3 DEF Owner, Served, InFlight

(* The cleanup job and every failure path leave a task in flight only to somebody who is at work on *)
(* it: resolve's `dup.id in running` and signals.get find the coroutine, unless start_task has run  *)
(* while the previous coroutine of the same task was still on its way out (PromptTail), or both the *)
(* commit of a search and that of its failure were refused.                                         *)
THEOREM SomebodyIsAtWork ==
    ASSUME PromptTail
    PROVE  Spec => []InFlightOwned
<1>1. SInv /\ Owner => InFlightOwned
    <2> SUFFICES ASSUME SInv, Owner, row.status \in InFlight, faults < 2
                 PROVE  (\E j \in Flying : known = j) /\ event
        BY DEF InFlightOwned
    <2>1. PICK j \in Flying : TRUE
        BY DEF Owner, Served
    <2>2. Pc(j) \notin {"idle", "close", "ended"} /\ j \in Jobs
        BY DEF Flying, Pc
    <2>3. known = j /\ event = TRUE
        BY <2>2 DEF Owner, Registered, Heard
    <2> QED BY <2>1, <2>3
<1> QED BY <1>1, InitType, NextType, InitSInv, NextKeepsSInv, OwnerInit, OwnerNext, PTL DEF Spec


-----------------------------------------------------------------------------
(* Versions *)

(* What a search, a request and the cleanup job carry across an await is never behind the row,  *)
(* nor ahead of it in the case of the cleanup job, as long as the results are live.              *)
Counting == {"queueing", "announce", "fan", "save", "final"}
SearchCounts == \A j \in Jobs : Pc(j) \in Counting /\ row.fresh = TRUE => row.version <= job[j].version
CleanupIsBehind == cleanup.on = TRUE /\ row.fresh = TRUE => cleanup.version < row.version
RequestCounts ==
    req.op # "none" /\ (row.fresh = TRUE \/ row.status \notin {"expired", "gone"}) => row.version <= req.version
RequestIsAhead == req.op # "none" /\ cleanup.on = TRUE => cleanup.version <= req.version

Versions == SearchCounts /\ CleanupIsBehind /\ RequestCounts /\ RequestIsAhead

Grows ==
    (row.fresh /\ row'.fresh /\ row'.status \notin {"gone", "expired"})
        => /\ row'.version >= row.version
           /\ runs' # runs => row'.version > row.version

LEMMA VersionsStay ==
    ASSUME TypeOK, Versions, UNCHANGED <<row, runs, req, cleanup>>,
           \A i \in Jobs : \/ job'[i].pc = job[i].pc /\ job'[i].version = job[i].version
                           \/ job'[i].pc \notin Counting
    PROVE  Versions' /\ Grows
<1>1. row.version \in Nat
    BY TypeFacts DEF RowType
<1>2. Grows
    BY <1>1 DEF Grows
<1>3. SearchCounts'
    BY DEF Versions, SearchCounts, Pc
<1>4. CleanupIsBehind' /\ RequestCounts' /\ RequestIsAhead'
    BY DEF Versions, CleanupIsBehind, RequestCounts, RequestIsAhead
<1> QED BY <1>2, <1>3, <1>4 DEF Versions

(* A step of the one search that may write: what it writes is not behind, and it counts along. *)
Ahead(j) ==
    /\ Moves(j) /\ j \in Flying
    /\ req' = req /\ cleanup' = cleanup /\ row'.fresh = row.fresh
    /\ row'.version \in Nat
    /\ row.fresh = TRUE => row.version <= row'.version
    /\ row.fresh = TRUE /\ runs' # runs => row.version < row'.version
    /\ row.fresh = TRUE /\ job'[j].pc \in Counting => row'.version <= job'[j].version

LEMMA VersionsMove ==
    ASSUME TypeOK, SInv, Versions, NEW j \in Jobs, Ahead(j)
    PROVE  Versions' /\ Grows
<1> USE DEF Ahead
<1>1. row.version \in Nat /\ cleanup.version \in Nat /\ row.fresh \in BOOLEAN
    BY TypeFacts DEF RowType, CleanupType
<1>2. Grows
    BY <1>1 DEF Grows
<1>3. SearchCounts'
    <2> SUFFICES ASSUME NEW i \in Jobs, job'[i].pc \in Counting, row'.fresh = TRUE
                 PROVE  row'.version <= job'[i].version
        BY DEF SearchCounts, Pc
    <2>1. CASE i = j
        BY <2>1
    <2>2. CASE i # j
        <3>1. job'[i].pc = job[i].pc
            BY <2>2 DEF Moves
        <3>2. i \in Flying
            BY <3>1 DEF Flying, Counting
        <3> QED BY <2>2, <3>2 DEF SInv, SingleFlight
    <2> QED BY <2>1, <2>2
<1>4. CleanupIsBehind'
    BY <1>1 DEF Versions, CleanupIsBehind
<1>5. req.op = "none"
    BY DEF SInv, RequestHasNoJob
<1> QED BY <1>2, <1>3, <1>4, <1>5 DEF Versions, RequestCounts, RequestIsAhead

LEMMA VersionsClient ==
    ASSUME TypeOK, SInv, Versions, Client
    PROVE  Versions' /\ Grows
<1>0. row \in RowType /\ row.version \in Nat /\ cleanup.version \in Nat
    BY TypeFacts DEF RowType, CleanupType
<1>1. ASSUME NEW w \in Wants, Resolve(w)
      PROVE  Versions' /\ Grows
    <2>1. /\ row'.version = row.version /\ row'.fresh = row.fresh /\ StartTask(FALSE, Sources)
          /\ UNCHANGED <<runs, req, cleanup>> /\ req.op = "none" /\ Flying = {}
        BY <1>0, <1>1 DEF Resolve, RowType, SInv, SettledHasNoJob
    <2>2. \A j \in Jobs : job'[j].pc \notin Counting
        BY <2>1, StartFacts DEF Starts, Flying, Counting
    <2>3. SearchCounts'
        BY <2>2 DEF SearchCounts, Pc
    <2> QED BY <1>0, <2>1, <2>3 DEF Versions, CleanupIsBehind, RequestCounts, RequestIsAhead, Grows
<1>2. ASSUME Restartable, UNCHANGED <<row, runs, job, cleanup>>, req'.version = row.version
      PROVE  Versions' /\ Grows
    <2>1. row.fresh = TRUE
        BY <1>0, <1>2 DEF Restartable, EffectiveStatus, RowType
    <2>2. SearchCounts' /\ CleanupIsBehind' /\ RequestCounts'
        BY <1>0, <1>2 DEF Versions, SearchCounts, CleanupIsBehind, RequestCounts, Pc
    <2>3. RequestIsAhead'
        BY <1>0, <1>2, <2>1 DEF Versions, CleanupIsBehind, RequestIsAhead
    <2> QED BY <1>0, <1>2, <2>2, <2>3 DEF Versions, Grows
<1>3. ASSUME NEW count, MoreFetch(count)
      PROVE  Versions' /\ Grows
    BY <1>2, <1>3 DEF MoreFetch, rowVars
<1>4. ASSUME NEW chosen, RefreshFetch(chosen)
      PROVE  Versions' /\ Grows
    BY <1>2, <1>4 DEF RefreshFetch, rowVars
<1> QED BY <1>1, <1>3, <1>4 DEF Client

LEMMA VersionsEndpoint ==
    ASSUME TypeOK, SInv, Versions, Endpoint
    PROVE  Versions' /\ Grows
<1>0. /\ row \in RowType /\ row.version \in Nat /\ cleanup.version \in Nat /\ req.version \in Nat
      /\ cleanup \in CleanupType
    BY TypeFacts DEF RowType, CleanupType, ReqType
<1>1. CASE RequestCommit
    <2> DEFINE refresh == req.op = "refresh"
               only == IF req.op = "refresh" THEN req.chosen ELSE Sources
    <2>1. /\ row'.version = req.version + 1 /\ StartTask(refresh, only)
          /\ row'.fresh = (row.fresh \/ req.op = "refresh")
          /\ req.op # "none" /\ req'.op = "none" /\ Flying = {}
        BY <1>0, <1>1 DEF RequestCommit, RowType, SInv, RequestHasNoJob, NoRequest
    <2>2. cleanup'.on = cleanup.on /\ cleanup'.version = cleanup.version
        BY <1>0, <1>1 DEF RequestCommit, CleanupType
    <2> HIDE DEF refresh, only
    <2>3. \A j \in Jobs : job'[j].pc \notin Counting
        BY <2>1, StartFacts DEF Starts, Flying, Counting
    <2>4. SearchCounts' /\ RequestCounts' /\ RequestIsAhead'
        BY <2>1, <2>3 DEF SearchCounts, RequestCounts, RequestIsAhead, Pc
    <2>5. CleanupIsBehind'
        BY <1>0, <2>1, <2>2 DEF Versions, RequestIsAhead, CleanupIsBehind
    <2>6. row.fresh = TRUE => row'.version > row.version
        BY <1>0, <2>1 DEF Versions, RequestCounts
    <2>7. row.fresh \in BOOLEAN
        BY <1>0 DEF RowType
    <2>8. Grows
        BY <1>0, <2>1, <2>6, <2>7 DEF Grows
    <2> QED BY <2>4, <2>5, <2>8 DEF Versions
<1>2. CASE RequestFails
    <2>1. UNCHANGED <<row, runs, job, cleanup>> /\ req'.op = "none"
        BY <1>2 DEF RequestFails, rowVars, NoRequest
    <2> QED BY <1>0, <2>1 DEF Versions, SearchCounts, CleanupIsBehind, RequestCounts, RequestIsAhead, Grows, Pc
<1> QED BY <1>1, <1>2 DEF Endpoint

LEMMA VersionsCleanup ==
    ASSUME TypeOK, SInv, Versions, CleanupStep
    PROVE  Versions' /\ Grows
<1>0. /\ row \in RowType /\ row.version \in Nat /\ cleanup.version \in Nat /\ req.version \in Nat
      /\ \A j \in Jobs : job[j].version \in Nat
    BY TypeFacts DEF RowType, CleanupType, ReqType, JobType
<1>1. CASE ExpireSelect
    <2>1. /\ UNCHANGED <<row, runs, job, req>> /\ row.fresh # TRUE /\ cleanup'.version = row.version
          /\ row.status \notin {"expired", "gone"}
        BY <1>1 DEF ExpireSelect, rowVars, Exists
    <2>2. SearchCounts' /\ CleanupIsBehind' /\ RequestCounts'
        BY <2>1 DEF Versions, SearchCounts, CleanupIsBehind, RequestCounts, Pc
    <2>3. RequestIsAhead'
        BY <2>1 DEF Versions, RequestCounts, RequestIsAhead
    <2> QED BY <1>0, <2>1, <2>2, <2>3 DEF Versions, Grows
<1>2. CASE ExpireCommit
    <2>1. /\ UNCHANGED <<runs, job, req>> /\ row'.fresh = row.fresh /\ row'.version = cleanup.version + 1
          /\ row'.status = "expired" /\ cleanup.on = TRUE /\ cleanup'.on = FALSE
        BY <1>0, <1>2, TypeFacts DEF ExpireCommit, RowType, NoCleanup, CleanupType
    <2>2. row.fresh = TRUE => row'.version <= row.version
        BY <1>0, <2>1 DEF Versions, CleanupIsBehind
    <2>3. SearchCounts'
        BY <1>0, <2>1, <2>2 DEF Versions, SearchCounts, Pc
    <2>4. RequestCounts'
        BY <1>0, <2>1, <2>2 DEF Versions, RequestCounts
    <2> QED BY <2>1, <2>3, <2>4 DEF Versions, CleanupIsBehind, RequestIsAhead, Grows
<1>3. CASE ExpireFails
    <2>1. UNCHANGED <<row, runs, job, req>> /\ cleanup'.on = FALSE
        BY <1>3 DEF ExpireFails, rowVars, NoCleanup
    <2> QED BY <1>0, <2>1 DEF Versions, SearchCounts, CleanupIsBehind, RequestCounts, RequestIsAhead, Grows, Pc
<1> QED BY <1>1, <1>2, <1>3 DEF CleanupStep

LEMMA VersionsEnvironment ==
    ASSUME TypeOK, SInv, Versions, Environment
    PROVE  Versions' /\ Grows
<1>0. row \in RowType /\ row.version \in Nat
    BY TypeFacts DEF RowType
<1>1. CASE Restart
    <2>1. /\ row'.version = row.version /\ runs' = runs /\ req'.op = "none" /\ cleanup'.on = FALSE
          /\ \A j \in Jobs : job'[j].pc = "idle"
        BY <1>0, <1>1 DEF Restart, RowType, NoRequest, NoCleanup, Idle
    <2> QED BY <1>0, <2>1 DEF Versions, SearchCounts, CleanupIsBehind, RequestCounts, RequestIsAhead, Grows,
                              Pc, Counting
<1>2. CASE TimePasses \/ Purge \/ \E s \in Sources : Toggle(s)
    <2>1. /\ UNCHANGED <<job, req, cleanup>> /\ row'.version = row.version
          /\ row'.fresh = TRUE => row.fresh = TRUE
          /\ row'.status = row.status \/ row'.status = "gone"
          /\ runs' = runs \/ row'.status = "gone"
        BY <1>0, <1>2 DEF TimePasses, Purge, Toggle, rowVars, RowType
    <2>2. SearchCounts' /\ CleanupIsBehind' /\ RequestCounts' /\ RequestIsAhead'
        BY <2>1 DEF Versions, SearchCounts, CleanupIsBehind, RequestCounts, RequestIsAhead, Pc
    <2> QED BY <1>0, <2>1, <2>2 DEF Versions, Grows
<1> QED BY <1>1, <1>2 DEF Environment

LEMMA VersionsJob ==
    ASSUME TypeOK, SInv, Versions, NEW j \in Jobs, JobStep(j)
    PROVE  Versions' /\ Grows
<1>0. row \in RowType /\ row.version \in Nat /\ job[j].version \in Nat
    BY TypeFacts DEF RowType, JobType
<1>1. Pc(j) \in Counting /\ row.fresh = TRUE => row.version <= job[j].version
    BY DEF Versions, SearchCounts
<1>2. Pc(j) \notin {"idle", "close", "ended"} => j \in Flying
    BY DEF Flying, Pc
<1>3. ASSUME QueueRead(j) PROVE Ahead(j)
    BY <1>0, <1>2, <1>3, QueueReadFacts DEF Ahead, Untouched
<1>4. ASSUME QueueCommit(j) PROVE Ahead(j)
    <2>1. row'.version = job[j].version + 1 /\ row'.fresh = row.fresh
        BY <1>0, <1>4, QueueCommitFacts DEF RowType
    <2>2. Pc(j) = "queueing" /\ job'[j].pc = "queued" /\ Moves(j) /\ Untouched /\ runs' = runs
        BY <1>4, QueueCommitFacts
    <2>3. row.fresh = TRUE => row.version <= row'.version
        BY <1>0, <1>1, <2>1, <2>2 DEF Counting
    <2> QED BY <1>0, <1>2, <2>1, <2>2, <2>3 DEF Ahead, Untouched, Counting
<1>5. ASSUME QueueFails(j) PROVE Ahead(j)
    BY <1>0, <1>2, <1>5, QueueFailsFacts DEF Ahead, Untouched, Counting
<1>6. ASSUME Load(j) PROVE Ahead(j)
    BY <1>0, <1>2, <1>6, LoadFacts DEF Ahead, Untouched, Counting
<1>7. ASSUME Announce(j) PROVE Ahead(j)
    <2>1. job'[j].pc = "close" \/ job'[j].version = job[j].version
        BY <1>7, AnnounceFacts, StartMoreRest, TypeFacts DEF SameCounts
    <2>2. /\ Pc(j) = "announce" /\ Moves(j) /\ Untouched /\ runs' = runs /\ row'.fresh = row.fresh
          /\ row'.version = row.version \/ row'.version = job[j].version + 1
        BY <1>7, AnnounceFacts
    <2>3. row.fresh = TRUE => row.version <= row'.version
        BY <1>0, <1>1, <2>2 DEF Counting
    <2>4. job'[j].pc = "close" \/ row'.version = row.version
        BY <1>7, AnnounceFacts
    <2> QED BY <1>0, <1>1, <1>2, <2>1, <2>2, <2>3, <2>4 DEF Ahead, Untouched, Counting
<1>8. ASSUME Wake(j) PROVE Ahead(j)
    BY <1>0, <1>1, <1>2, <1>8, WakeFacts DEF Ahead, Untouched, Counting, SameCounts
<1>9. ASSUME NEW s \in Sources, TakeResult(j, s) PROVE Ahead(j)
    BY <1>0, <1>1, <1>2, <1>9, TakeFacts DEF Ahead, Untouched, Counting
<1>10. ASSUME SaveResult(j) PROVE Ahead(j)
    <2>1. job'[j].version = job[j].version + 1
        BY <1>10, SaveFacts, StartMoreRest DEF AfterSave, SameCounts
    <2>2. row'.version = job[j].version + 1 /\ row'.fresh = row.fresh
        BY <1>0, <1>10, SaveFacts DEF RowType
    <2> QED BY <1>0, <1>1, <1>2, <1>10, <2>1, <2>2, SaveFacts DEF Ahead, Untouched, Counting
<1>11. ASSUME Finish(j) PROVE Ahead(j)
    BY <1>0, <1>1, <1>2, <1>11, FinishFacts DEF Ahead, Untouched, Counting
<1>12. ASSUME Crash(j) PROVE Ahead(j)
    BY <1>0, <1>2, <1>12, CrashFacts DEF Ahead, Untouched, Counting
<1>13. ASSUME RecordCrash(j) \/ RecordCrashFails(j) PROVE Ahead(j)
    BY <1>0, <1>2, <1>13, RecordCrashFacts DEF Ahead, Untouched, Counting
<1>14. CASE Close(j)
    BY <1>14, CloseFacts, VersionsStay DEF Untouched, Moves, Counting
<1>15. CASE DoneCallback(j)
    BY <1>15, DoneFacts, VersionsStay DEF Moves, Counting, Idle
<1> QED BY <1>3, <1>4, <1>5, <1>6, <1>7, <1>8, <1>9, <1>10, <1>11, <1>12, <1>13, <1>14, <1>15, VersionsMove
        DEF JobStep

LEMMA VersionsNext == TypeOK /\ SInv /\ Versions /\ Next => Versions' /\ Grows
<1> SUFFICES ASSUME TypeOK, SInv, Versions, Next PROVE Versions' /\ Grows
    OBVIOUS
<1>1. ASSUME NEW j \in Jobs, SomeAnswer(j)
      PROVE  Versions' /\ Grows
    <2>1. PICK s \in Sources, o \in Outcomes : Answer(j, s, o)
        BY <1>1 DEF SomeAnswer
    <2>2. \A i \in Jobs : job'[i].pc = job[i].pc /\ job'[i].version = job[i].version
        BY <2>1, AnswerFacts DEF Moves
    <2> QED BY <2>1, <2>2, AnswerFacts, VersionsStay DEF Untouched
<1> QED BY <1>1, VersionsClient, VersionsEndpoint, VersionsJob, VersionsCleanup, VersionsEnvironment DEF Next

LEMMA VersionsInit == Init => Versions
<1> SUFFICES ASSUME Init PROVE Versions
    OBVIOUS
<1>1. \A j \in Jobs : Pc(j) = "idle"
    BY DEF Init, Idle, Pc
<1>2. req.op = "none" /\ cleanup.on = FALSE
    BY DEF Init, NoRequest, NoCleanup
<1> QED BY <1>1, <1>2 DEF Versions, SearchCounts, CleanupIsBehind, RequestCounts, RequestIsAhead, Counting

(* on_result, mark_queued, _run, the two endpoints and expire_task_results each count the version   *)
(* from a copy of the row that an await has aged. As long as the results are live the row's version *)
(* never goes back, and a result saved or taken away always moves it: GET ?wait= misses nothing.    *)
THEOREM VersionsOnlyGrow == Spec => VersionGrows
<1> DEFINE A == (row.fresh /\ row'.fresh /\ row'.status \notin {"gone", "expired"})
                    => /\ row'.version >= row.version
                       /\ runs' # runs => row'.version > row.version
<1>1. TypeOK /\ SInv /\ Versions /\ [Next]_vars => Versions'
    <2>1. Versions /\ UNCHANGED vars => Versions'
        BY DEF vars, Versions, SearchCounts, CleanupIsBehind, RequestCounts, RequestIsAhead, Pc
    <2> QED BY <2>1, VersionsNext
<1>2. TypeOK /\ SInv /\ Versions /\ [Next]_vars => [A]_vars
    BY VersionsNext DEF Grows
<1> QED BY <1>1, <1>2, InitType, NextType, InitSInv, NextKeepsSInv, VersionsInit, PTL DEF Spec, VersionGrows


-----------------------------------------------------------------------------
(* The order and the number of the sources a search asks *)

LEMMA LeastNat ==
    ASSUME NEW S \in SUBSET Nat, S # {}
    PROVE  \E n \in S : \A m \in S : n <= m
<1>1. IsWellFoundedOn(OpToRel(<, Nat), Nat)
    BY NatLessThanWellFounded
<1>2. PICK n \in S : \A m \in Nat : <<m, n>> \in OpToRel(<, Nat) => m \notin S
    BY <1>1, WFMin
<1>3. \A m \in S : ~(m < n)
    BY <1>2 DEF OpToRel
<1> QED BY <1>3

LEMMA SmallerCount ==
    ASSUME NEW T \in SUBSET Sources, NEW S \in SUBSET T
    PROVE  /\ Cardinality(S) \in Nat /\ Cardinality(T) \in Nat /\ Cardinality(S) <= Cardinality(T)
           /\ S # T => Cardinality(S) < Cardinality(T)
<1>1. IsFiniteSet(T) /\ S \in SUBSET Sources
    BY SourcesAssumption, FS_Subset
<1> QED BY <1>1, CountIsNat, FS_Subset

(* Among some sources one is ranked first, and one last. *)
LEMMA FirstRanked ==
    ASSUME NEW S \in SUBSET Sources, S # {}
    PROVE  \E u \in S : S \cap Before[u] = {}
<1> DEFINE N == {Cardinality(Before[u]) : u \in S}
<1>1. N \in SUBSET Nat /\ N # {}
    BY SourcesAssumption, CountIsNat
<1>2. PICK n \in N : \A m \in N : n <= m
    <2> HIDE DEF N
    <2> QED BY <1>1, LeastNat
<1>3. PICK u \in S : \A v \in S : Cardinality(Before[u]) <= Cardinality(Before[v])
    BY <1>2
<1>4. ASSUME NEW v \in S \cap Before[u]
      PROVE  FALSE
    <2>1. Before[v] \subseteq Before[u] /\ v \notin Before[v] /\ Before[u] \in SUBSET Sources
        BY RankingAssumption, SourcesAssumption
    <2>2. Cardinality(Before[v]) < Cardinality(Before[u])
          /\ Cardinality(Before[v]) \in Nat /\ Cardinality(Before[u]) \in Nat
        BY <2>1, SmallerCount
    <2> QED BY <1>3, <2>2
<1> QED BY <1>4

LEMMA LastRanked ==
    ASSUME NEW S \in SUBSET Sources, S # {}
    PROVE  \E u \in S : S \ {u} \subseteq Before[u]
<1> DEFINE N == {Cardinality(Sources \ Before[u]) : u \in S}
<1>1. N \in SUBSET Nat /\ N # {}
    BY CountIsNat
<1>2. PICK n \in N : \A m \in N : n <= m
    <2> HIDE DEF N
    <2> QED BY <1>1, LeastNat
<1>3. PICK u \in S : \A v \in S : Cardinality(Sources \ Before[u]) <= Cardinality(Sources \ Before[v])
    BY <1>2
<1>4. ASSUME NEW v \in S \ {u}, v \notin Before[u]
      PROVE  FALSE
    <2>1. u \in Before[v]
        BY <1>4, RankingAssumption
    <2>2. Before[u] \subseteq Before[v] /\ u \notin Before[u]
        BY <2>1, RankingAssumption
    <2>3. (Sources \ Before[v]) \in SUBSET (Sources \ Before[u]) /\ Sources \ Before[v] # Sources \ Before[u]
        BY <2>1, <2>2
    <2>4. Cardinality(Sources \ Before[v]) < Cardinality(Sources \ Before[u])
          /\ Cardinality(Sources \ Before[v]) \in Nat /\ Cardinality(Sources \ Before[u]) \in Nat
        BY <2>3, SmallerCount
    <2> QED BY <1>3, <2>4
<1> QED BY <1>4

(* What holds of the locals of one search. *)
Of(b, phases) == {s \in Sources : b.phase[s] \in phases}
Started == {"asked", "answered", "batch", "saving", "saved"}

Phases(b) ==
    /\ b.pc \in {"idle", "start", "queueing", "queued", "crash"} => \A s \in Sources : b.phase[s] = "no"
    /\ b.pc = "announce" => \A s \in Sources : b.phase[s] \in {"no", "candidate"}
    /\ b.pc \in {"final", "close", "ended"} => \A s \in Sources : b.phase[s] \in {"no", "candidate", "saved"}
    /\ \A s \in Sources : b.phase[s] = "saving" => b.pc = "save" /\ b.saving = {s}
    /\ b.pc = "save" => \E s \in Sources : b.saving = {s} /\ b.phase[s] = "saving"
OutKnown(b) == \A s \in Sources : b.phase[s] \in {"answered", "batch", "saving"} => b.out[s] \in Outcomes
Ranked(b) ==
    \A s, u \in Sources : b.phase[s] = "candidate" /\ b.phase[u] \in Started => s \notin Before[u]

(* The sources whose answer is not counted yet, and those counted, are as many as are wanted. *)
Open == {"asked", "answered", "batch"}
Within(b) ==
    b.wanted > 0 => b.found + Cardinality(Of(b, Open)) <= b.wanted \/ Of(b, Open) = {}
Fits(b) == b.pc \in {"fan", "save"} => Within(b)

SearchOK(b) == Phases(b) /\ OutKnown(b) /\ Ranked(b) /\ Fits(b)

(* run_ranked's inner loop again: the sources it starts are those ranked first. *)
LEMMA StartMoreAsks ==
    ASSUME NEW b \in JobType, OutKnown(b), Ranked(b), Within(b),
           \A s \in Sources : b.phase[s] \notin {"batch", "saving"}
    PROVE  /\ SearchOK(StartMore(b))
           /\ b.found = 0 /\ Of(b, {"candidate"}) # {} => Of(StartMore(b), {"asked", "answered"}) # {}
<1> DEFINE waiting == {s \in Sources : b.phase[s] = "candidate"}
           running == {s \in Sources : b.phase[s] \in {"asked", "answered"}}
           starts  == {s \in waiting : \/ b.wanted = 0
                                       \/ b.found + Cardinality(running)
                                            + Cardinality(waiting \cap Before[s]) < b.wanted}
           phase   == [s \in Sources |-> IF s \in starts THEN "asked" ELSE b.phase[s]]
           next    == IF running \cup starts = {} THEN "final" ELSE "fan"
           c       == StartMore(b)
<1>1. c = [b EXCEPT !.phase = phase, !.pc = next]
    BY DEF StartMore
<1>2. /\ \A s \in Sources : phase[s] = IF s \in starts THEN "asked" ELSE b.phase[s]
      /\ starts \subseteq waiting /\ waiting \subseteq Sources /\ running \subseteq Sources
    OBVIOUS
<1>3. next = IF running \cup starts = {} THEN "final" ELSE "fan"
    OBVIOUS
<1>4. /\ c.phase = phase /\ c.pc = next
      /\ c.found = b.found /\ c.wanted = b.wanted /\ c.out = b.out
    <2> HIDE DEF phase, next, c
    <2> QED BY <1>1 DEF JobType
<1>5. b.found \in Nat /\ b.wanted \in Nat /\ Cardinality(running) \in Nat
      /\ \A s \in Sources : Cardinality(waiting \cap Before[s]) \in Nat
    BY CountIsNat DEF JobType
<1>6. Phases(c)
    <2>1. \A s \in Sources : c.phase[s] # "saving"
        BY <1>2, <1>4
    <2>2. ASSUME c.pc = "final", NEW s \in Sources
          PROVE  c.phase[s] \in {"no", "candidate", "saved"}
        <3>1. c.phase[s] = b.phase[s] \/ (b.phase[s] = "candidate" /\ c.phase[s] = "asked" /\ s \in starts)
            BY <1>2, <1>4
        <3>2. starts = {} /\ b.phase[s] \notin {"asked", "answered"}
            BY <1>3, <1>4, <2>2
        <3>3. b.phase[s] \in {"no", "candidate", "asked", "answered", "batch", "saving", "saved"}
            BY DEF JobType
        <3> QED BY <3>1, <3>2, <3>3
    <2> HIDE DEF c, phase, next
    <2> QED BY <1>3, <1>4, <2>1, <2>2 DEF Phases
<1>7. OutKnown(c)
    BY <1>2, <1>4 DEF OutKnown
<1>8. Ranked(c)
    <2> SUFFICES ASSUME NEW s \in Sources, NEW u \in Sources, c.phase[s] = "candidate",
                        c.phase[u] \in Started, s \in Before[u]
                 PROVE  FALSE
        BY DEF Ranked
    <2>1. s \in waiting /\ s \notin starts
        BY <1>2, <1>4
    <2>2. u \in starts
        BY <1>2, <1>4, <2>1 DEF Ranked
    <2>3. Before[s] \subseteq Before[u] /\ Before[u] \in SUBSET Sources
        BY RankingAssumption, SourcesAssumption
    <2>4. Cardinality(waiting \cap Before[s]) <= Cardinality(waiting \cap Before[u])
        BY <2>3, SmallerCount
    <2> QED BY <1>5, <2>1, <2>2, <2>4
<1>9. Of(c, Open) = running \cup starts
    BY <1>2, <1>4 DEF Of, Open
<1>10. Of(b, Open) = running
    BY DEF Of, Open
<1>11. Within(c)
    <2> SUFFICES ASSUME b.wanted > 0, running \cup starts # {}
                 PROVE  b.found + Cardinality(running \cup starts) <= b.wanted
        BY <1>4, <1>9 DEF Within
    <2>1. CASE starts = {}
        <3>1. running \cup starts = running
            BY <2>1
        <3> QED BY <1>10, <3>1 DEF Within
    <2>2. CASE starts # {}
        <3>1. PICK u \in starts : starts \ {u} \subseteq Before[u]
            <4> HIDE DEF starts
            <4> QED BY <1>2, <2>2, LastRanked
        <3>2. b.found + Cardinality(running) + Cardinality(waiting \cap Before[u]) < b.wanted
            BY <1>5, <3>1
        <3>3. Cardinality(starts \ {u}) <= Cardinality(waiting \cap Before[u])
              /\ Cardinality(starts \ {u}) \in Nat
            BY <1>2, <3>1, SmallerCount
        <3>4. Cardinality(starts) = Cardinality(starts \ {u}) + 1
            <4>1. IsFiniteSet(starts)
                BY <1>2, SourcesAssumption, FS_Subset
            <4>2. Cardinality(starts) \in Nat
                BY <1>2, CountIsNat
            <4> HIDE DEF starts
            <4>3. Cardinality(starts \ {u}) = Cardinality(starts) - 1
                BY <4>1, <3>1, FS_RemoveElement
            <4> QED BY <4>2, <4>3
        <3>5. Cardinality(running \cup starts) <= Cardinality(running) + Cardinality(starts)
            <4>1. IsFiniteSet(starts) /\ IsFiniteSet(running) /\ running \cap starts = {}
                BY <1>2, SourcesAssumption, FS_Subset
            <4> HIDE DEF starts, running
            <4>2. Cardinality(running \cup starts)
                    = Cardinality(running) + Cardinality(starts) - Cardinality(running \cap starts)
                BY <4>1, FS_Union
            <4>3. Cardinality(running \cap starts) = 0
                BY <4>1, FS_EmptySet
            <4>4. Cardinality(running) \in Nat /\ Cardinality(starts) \in Nat
                BY <4>1, FS_CardinalityType
            <4> QED BY <4>2, <4>3, <4>4
        <3>6. Cardinality(running \cup starts) \in Nat
            BY <1>2, CountIsNat
        <3> HIDE DEF starts, running, waiting
        <3> QED BY <1>2, <1>5, <3>1, <3>2, <3>3, <3>4, <3>5, <3>6
    <2> QED BY <2>1, <2>2
<1>12. ASSUME b.found = 0, Of(b, {"candidate"}) # {}
       PROVE  Of(c, {"asked", "answered"}) # {}
    <2>1. PICK u \in waiting : waiting \cap Before[u] = {}
        <3>1. waiting # {}
            BY <1>12 DEF Of
        <3> HIDE DEF waiting
        <3> QED BY <1>2, <3>1, FirstRanked
    <2>2. CASE running = {}
        <3>1. Cardinality(running) = 0 /\ Cardinality(waiting \cap Before[u]) = 0
            BY <2>1, <2>2, FS_EmptySet
        <3>2. u \in starts
            BY <1>5, <1>12, <3>1
        <3> QED BY <1>2, <1>4, <3>2 DEF Of
    <2>3. CASE running # {}
        <3>1. PICK s \in running : s \in Sources
            BY <2>3
        <3>2. c.phase[s] \in {"asked", "answered"}
            BY <1>2, <1>4, <3>1
        <3> QED BY <3>1, <3>2 DEF Of
    <2> QED BY <2>2, <2>3
<1> QED BY <1>6, <1>7, <1>8, <1>11, <1>12 DEF SearchOK, Fits


(* Nothing is open when a search has not begun to ask, or is through. *)
LEMMA NothingOpen ==
    ASSUME NEW c, Ranked(c),
           \/ c.pc # "save" /\ \A s \in Sources : c.phase[s] = "no"
           \/ c.pc = "announce" /\ \A s \in Sources : c.phase[s] \in {"no", "candidate"}
           \/ c.pc \in {"close", "ended"} /\ \A s \in Sources : c.phase[s] \in {"no", "candidate", "saved"}
    PROVE  SearchOK(c)
<1>1. \A s \in Sources : c.phase[s] \in {"no", "candidate", "saved"}
    OBVIOUS
<1>2. Of(c, Open) = {}
    BY <1>1 DEF Of, Open
<1>3. Phases(c)
    BY <1>1 DEF Phases
<1> QED BY <1>1, <1>2, <1>3 DEF SearchOK, OutKnown, Fits, Within

Searches == \A j \in Jobs : SearchOK(job[j])

LEMMA SearchesAnswer ==
    ASSUME TypeOK, Searches, NEW j \in Jobs, NEW s \in Sources, NEW o \in Outcomes, Answer(j, s, o)
    PROVE  Searches' /\ Pc(j) \in {"fan", "save"}
<1>1. /\ Phases(job[j]) /\ OutKnown(job[j]) /\ Ranked(job[j]) /\ Fits(job[j]) /\ job[j] \in JobType
    BY TypeFacts DEF Searches, SearchOK
<1>2. Pc(j) \in {"fan", "save"}
    BY <1>1, AnswerFacts DEF Phases, Pc, JobType
<1>3. Phases(job'[j])
    BY <1>1, <1>2, AnswerFacts DEF Phases, Pc
<1>4. OutKnown(job'[j])
    BY <1>1, AnswerFacts DEF OutKnown
<1>5. Ranked(job'[j])
    BY <1>1, AnswerFacts DEF Ranked, Started
<1>6. Of(job'[j], Open) = Of(job[j], Open)
    BY AnswerFacts DEF Of, Open
<1>7. Fits(job'[j])
    BY <1>1, <1>6, AnswerFacts DEF Fits, Within
<1>8. \A i \in Jobs : i # j => job'[i] = job[i]
    BY AnswerFacts DEF Moves
<1> QED BY <1>2, <1>3, <1>4, <1>5, <1>7, <1>8 DEF Searches, SearchOK

LEMMA SearchesJob ==
    ASSUME TypeOK, Searches, NEW j \in Jobs, JobStep(j)
    PROVE  Searches'
<1>1. /\ Phases(job[j]) /\ OutKnown(job[j]) /\ Ranked(job[j]) /\ Fits(job[j]) /\ job[j] \in JobType
    BY TypeFacts DEF Searches, SearchOK
<1>2. SUFFICES Moves(j) /\ SearchOK(job'[j])
    BY DEF Searches, Moves
<1>3. CASE QueueRead(j) \/ QueueCommit(j) \/ QueueFails(j)
    <2>1. Moves(j) /\ SameSearch(j) /\ Pc(j) \in {"start", "queueing"} /\ job'[j].pc \in {"queueing", "queued"}
        BY <1>3, QueueReadFacts, QueueCommitFacts, QueueFailsFacts
    <2>2. \A s \in Sources : job'[j].phase[s] = "no"
        BY <1>1, <2>1 DEF Phases, SameSearch, Pc
    <2> QED BY <2>1, <2>2, NothingOpen DEF Ranked
<1>4. CASE Load(j)
    <2>1. Moves(j) /\ job'[j].pc \in {"close", "announce"}
          /\ \A s \in Sources : job'[j].phase[s] \in {"no", "candidate"}
        BY <1>1, <1>4, LoadFacts DEF Phases, SameSearch, Pc
    <2> QED BY <2>1, NothingOpen DEF Ranked, Started
<1>5. CASE Announce(j)
    <2>1. \A s \in Sources : job[j].phase[s] \in {"no", "candidate"}
        BY <1>1, <1>5, AnnounceFacts DEF Phases, Pc
    <2>2. Of(job[j], Open) = {}
        BY <2>1 DEF Of, Open
    <2>3. SearchOK(StartMore(job[j]))
        BY <1>1, <2>1, <2>2, StartMoreAsks DEF Within
    <2>4. ASSUME job'[j].pc = "close", SameSearch(j)
          PROVE  SearchOK(job'[j])
        BY <1>1, <2>1, <2>4, NothingOpen DEF Ranked, SameSearch
    <2> QED BY <1>5, <2>3, <2>4, AnnounceFacts
<1>6. CASE Wake(j)
    <2>1. Phases(job'[j])
        BY <1>1, <1>6, WakeFacts DEF Phases, Pc
    <2>2. OutKnown(job'[j])
        BY <1>1, <1>6, WakeFacts DEF OutKnown, SameCounts
    <2>3. Ranked(job'[j])
        BY <1>1, <1>6, WakeFacts DEF Ranked, Started
    <2>4. Of(job'[j], Open) = Of(job[j], Open)
        BY <1>6, WakeFacts DEF Of, Open
    <2>5. Fits(job'[j])
        BY <1>1, <1>6, <2>4, WakeFacts DEF Fits, Within, SameCounts, Pc
    <2> QED BY <1>6, <2>1, <2>2, <2>3, <2>5, WakeFacts DEF SearchOK
<1>7. ASSUME NEW s \in Sources, TakeResult(j, s)
      PROVE  Moves(j) /\ SearchOK(job'[j])
    <2>1. Phases(job'[j])
        BY <1>1, <1>7, TakeFacts DEF Phases, Pc
    <2>2. OutKnown(job'[j])
        BY <1>1, <1>7, TakeFacts DEF OutKnown
    <2>3. Ranked(job'[j])
        BY <1>1, <1>7, TakeFacts DEF Ranked, Started
    <2>4. Of(job'[j], Open) = Of(job[j], Open) \ {s} /\ s \in Of(job[j], Open)
        BY <1>7, TakeFacts DEF Of, Open
    <2>5. Cardinality(Of(job'[j], Open)) = Cardinality(Of(job[j], Open)) - 1
          /\ Cardinality(Of(job[j], Open)) \in Nat
        <3>1. Of(job[j], Open) \in SUBSET Sources
            BY DEF Of
        <3> QED BY <2>4, <3>1, SourcesAssumption, FS_Subset, FS_RemoveElement, FS_CardinalityType
    <2>6. job[j].found \in Nat /\ job[j].wanted \in Nat
        BY <1>1 DEF JobType
    <2>7. Within(job[j])
        BY <1>1, <1>7, TakeFacts DEF Fits, Pc
    <2>8. job'[j].wanted = job[j].wanted /\ (job'[j].found = job[j].found \/ job'[j].found = job[j].found + 1)
        BY <1>7, TakeFacts
    <2>9. Fits(job'[j])
        <3> DEFINE m == Cardinality(Of(job[j], Open))
                   n == Cardinality(Of(job'[j], Open))
        <3>1. n = m - 1 /\ m \in Nat
            BY <2>5
        <3>2. job[j].wanted > 0 => job[j].found + m <= job[j].wanted
            BY <2>4, <2>7 DEF Within
        <3> HIDE DEF m, n
        <3>3. job'[j].wanted > 0 => job'[j].found + n <= job'[j].wanted
            BY <2>6, <2>8, <3>1, <3>2
        <3> QED BY <3>3 DEF n, Fits, Within
    <2> QED BY <1>7, <2>1, <2>2, <2>3, <2>9, TakeFacts DEF SearchOK
<1>8. CASE SaveResult(j)
    <2>1. PICK s \in Sources, b \in JobType :
            /\ s \in job[j].saving /\ AfterSave(j, s, b)
            /\ \/ job'[j] = b /\ \E u \in Sources : b.phase[u] = "batch"
               \/ job'[j] = StartMore(b) /\ \A u \in Sources : b.phase[u] # "batch"
        BY <1>8, SaveFacts DEF AfterSave
    <2>2. job[j].saving = {s} /\ job[j].phase[s] = "saving"
          /\ \A u \in Sources : u # s => job[j].phase[u] # "saving"
        BY <1>1, <1>8, <2>1, SaveFacts DEF Phases, Pc
    <2>3. b \in JobType /\ \A u \in Sources : b.phase[u] # "saving"
        BY <2>1, <2>2 DEF AfterSave
    <2>4. OutKnown(b)
        BY <1>1, <2>1 DEF OutKnown, AfterSave
    <2>5. Ranked(b)
        BY <1>1, <2>1, <2>2 DEF Ranked, Started, AfterSave
    <2>6. Of(b, Open) = Of(job[j], Open)
        BY <2>1, <2>2 DEF Of, Open, AfterSave
    <2>7. Within(b)
        BY <1>1, <1>8, <2>1, <2>6, SaveFacts DEF Fits, Within, AfterSave, Pc
    <2>8. Phases(b) /\ b.pc = "fan"
        BY <2>1, <2>3 DEF Phases, AfterSave
    <2>9. ASSUME \A u \in Sources : b.phase[u] # "batch"
          PROVE  SearchOK(StartMore(b))
        BY <2>3, <2>4, <2>5, <2>7, <2>9, StartMoreAsks
    <2> QED BY <1>8, <2>1, <2>4, <2>5, <2>7, <2>8, <2>9, SaveFacts DEF SearchOK, Fits
<1>9. CASE Finish(j) \/ Close(j)
    <2>1. Moves(j) /\ SameSearch(j) /\ Pc(j) \in {"final", "close"} /\ job'[j].pc \in {"close", "ended"}
        BY <1>9, FinishFacts, CloseFacts
    <2>2. \A s \in Sources : job'[j].phase[s] \in {"no", "candidate", "saved"}
        BY <1>1, <2>1 DEF Phases, SameSearch, Pc
    <2> QED BY <1>1, <2>1, <2>2, NothingOpen DEF Ranked, SameSearch
<1>10. CASE Crash(j)
    BY <1>10, CrashFacts, NothingOpen DEF Ranked
<1>11. CASE RecordCrash(j) \/ RecordCrashFails(j)
    <2>1. \A s \in Sources : job'[j].phase[s] = "no"
        BY <1>1, <1>11, RecordCrashFacts DEF Phases, SameSearch, Pc
    <2> QED BY <1>11, <2>1, RecordCrashFacts, NothingOpen DEF Ranked
<1>12. CASE DoneCallback(j)
    <2>1. job'[j].pc = "idle" /\ \A s \in Sources : job'[j].phase[s] = "no"
        BY <1>12, DoneFacts DEF Idle
    <2> QED BY <1>12, <2>1, DoneFacts, NothingOpen DEF Ranked
<1> QED BY <1>3, <1>4, <1>5, <1>6, <1>7, <1>8, <1>9, <1>10, <1>11, <1>12 DEF JobStep

LEMMA SearchesStart ==
    ASSUME TypeOK, Searches, NEW refresh, NEW only, StartTask(refresh, only)
    PROVE  Searches'
<1>1. PICK j \in Jobs : Starts(j, only)
    BY StartFacts
<1> USE DEF Starts
<1>2. SearchOK(job'[j])
    BY <1>1, NothingOpen DEF Ranked
<1> QED BY <1>1, <1>2 DEF Searches

LEMMA SearchesNext == TypeOK /\ Searches /\ [Next]_vars => Searches'
<1> SUFFICES ASSUME TypeOK, Searches, [Next]_vars PROVE Searches'
    OBVIOUS
<1>1. CASE job' = job
    BY <1>1 DEF Searches
<1>2. ASSUME NEW w \in Wants, Resolve(w)
      PROVE  Searches'
    BY <1>2, SearchesStart DEF Resolve
<1>3. CASE RequestCommit
    <2> DEFINE refresh == req.op = "refresh"
               only == IF req.op = "refresh" THEN req.chosen ELSE Sources
    <2>1. StartTask(refresh, only)
        BY <1>3 DEF RequestCommit
    <2> HIDE DEF refresh, only
    <2> QED BY <2>1, SearchesStart
<1>4. CASE Restart
    <2>1. \A j \in Jobs : job'[j].pc = "idle" /\ \A s \in Sources : job'[j].phase[s] = "no"
        BY <1>4 DEF Restart, Idle
    <2> QED BY <2>1, NothingOpen DEF Searches, Ranked
<1>5. ASSUME NEW j \in Jobs, SomeAnswer(j)
      PROVE  Searches'
    BY <1>5, SearchesAnswer DEF SomeAnswer
<1>6. ASSUME Client \/ Endpoint \/ CleanupStep \/ Environment
      PROVE  Searches'
    BY <1>1, <1>2, <1>3, <1>4, <1>6 DEF Client, MoreFetch, RefreshFetch, Endpoint, RequestFails, CleanupStep,
        ExpireSelect, ExpireCommit, ExpireFails, Environment, TimePasses, Purge, Toggle
<1>7. UNCHANGED vars => job' = job
    BY DEF vars
<1> QED BY <1>1, <1>5, <1>6, <1>7, SearchesJob DEF Next

LEMMA SearchesInit == Init => Searches
<1> SUFFICES ASSUME Init PROVE Searches
    OBVIOUS
<1>1. \A j \in Jobs : job[j].pc = "idle" /\ \A s \in Sources : job[j].phase[s] = "no"
    BY DEF Init, Idle
<1> QED BY <1>1, NothingOpen DEF Searches, Ranked

(* run_ranked keeps `found + running <= N` and starts candidates from the front of a list that      *)
(* order_rows has sorted: a search never runs a source it cannot need any more, and never one while *)
(* a better ranked one is waiting, whatever the answers are and however they are batched.           *)
THEOREM NobodyIsAskedInVain == Spec => []AsksAsNeeded
<1>1. TypeOK /\ Searches => AsksAsNeeded
    <2> SUFFICES ASSUME TypeOK, Searches PROVE AsksAsNeeded
        OBVIOUS
    <2>1. WithinWanted
        <3> SUFFICES ASSUME NEW j \in Jobs, job[j].pc \in {"fan", "save"}, job[j].wanted > 0,
                            In(j, {"asked", "answered"}) # {}
                     PROVE  job[j].found + Cardinality(In(j, {"asked", "answered"})) <= job[j].wanted
            BY DEF WithinWanted
        <3>1. In(j, {"asked", "answered"}) \in SUBSET Of(job[j], Open) /\ Of(job[j], Open) \in SUBSET Sources
            BY DEF In, Of, Open
        <3>2. job[j].found + Cardinality(Of(job[j], Open)) <= job[j].wanted
            BY <3>1 DEF Searches, SearchOK, Fits, Within
        <3>3. job[j].found \in Nat /\ job[j].wanted \in Nat
            BY TypeFacts DEF JobType
        <3> QED BY <3>1, <3>2, <3>3, SmallerCount
    <2>2. BestRankFirst
        BY DEF Searches, SearchOK, Ranked, BestRankFirst, In, Started
    <2> QED BY <2>1, <2>2 DEF AsksAsNeeded
<1> QED BY <1>1, InitType, NextType, SearchesInit, SearchesNext, PTL DEF Spec


-----------------------------------------------------------------------------
(* The totals *)

(* What is saved and what one search has still to save fit in the announced total. *)
Reach(j) == Tried \cup Of(job[j], Todo)
Totals ==
    /\ Cardinality(Tried) <= row.total
    /\ \A j \in Jobs : Pc(j) \in {"fan", "save", "final"} => Cardinality(Reach(j)) <= row.total

LEMMA TotalsShrink ==
    ASSUME TypeOK, Totals, runs' \in RunsType, row'.total = row.total,
           \A s \in Sources : runs'[s] # "none" => runs[s] # "none",
           \A j \in Jobs : job'[j].pc \in {"fan", "save", "final"}
                                => Pc(j) = job'[j].pc /\ Of(job'[j], Todo) = Of(job[j], Todo)
    PROVE  Totals'
<1>1. Tried' \in SUBSET Tried /\ Tried \in SUBSET Sources
    BY DEF Tried
<1>2. row.total \in Nat
    BY TypeFacts DEF RowType
<1>3. Cardinality(Tried)' <= row.total
    BY <1>1, <1>2, SmallerCount DEF Totals
<1>4. ASSUME NEW j \in Jobs, job'[j].pc \in {"fan", "save", "final"}
      PROVE  Cardinality(Reach(j))' <= row.total
    <2>1. Reach(j)' \in SUBSET Reach(j) /\ Reach(j) \in SUBSET Sources
        BY <1>1, <1>4 DEF Reach, Of
    <2> QED BY <1>2, <1>4, <2>1, SmallerCount DEF Totals
<1> QED BY <1>3, <1>4 DEF Totals, Pc

(* A step of the one search that may write. *)
LEMMA TotalsMove ==
    ASSUME TypeOK, SInv, NEW j \in Jobs, Moves(j), j \in Flying, row'.total \in Nat,
           Cardinality(Tried)' <= row'.total,
           job'[j].pc \in {"fan", "save", "final"} => Cardinality(Reach(j))' <= row'.total
    PROVE  Totals'
<1>1. ASSUME NEW i \in Jobs, i # j
      PROVE  job'[i].pc \notin {"fan", "save", "final"}
    BY <1>1 DEF Moves, SInv, SingleFlight, Flying
<1> QED BY <1>1 DEF Totals, Pc

LEMMA TotalsJob ==
    ASSUME TypeOK, SInv, Searches, Totals, NEW j \in Jobs, JobStep(j)
    PROVE  Totals'
<1>1. /\ Phases(job[j]) /\ job[j] \in JobType /\ row \in RowType /\ row.total \in Nat /\ runs \in RunsType
      /\ Tried \in SUBSET Sources /\ Cardinality(Tried) <= row.total
    BY TypeFacts DEF Searches, SearchOK, Tried, RowType, Totals
<1>2. TypeOK'
    BY NextType DEF Next
<1>3. runs' \in RunsType /\ row'.total \in Nat /\ job'[j] \in JobType
    BY <1>2 DEF TypeOK, RunsType
<1>4. CASE Announce(j)
    <2>1. \A s \in Sources : job[j].phase[s] \in {"no", "candidate"}
        BY <1>1, <1>4, AnnounceFacts DEF Phases, Pc
    <2>2. In(j, {"candidate"}) = Of(job[j], Todo) /\ Of(job[j], Todo) \in SUBSET Sources
        BY <2>1 DEF In, Of, Todo
    <2>3. row'.total = Cardinality(Tried) + Cardinality(Of(job[j], Todo)) /\ runs' = runs
        BY <1>4, <2>2, AnnounceFacts
    <2>4. Cardinality(Tried) \in Nat /\ Cardinality(Of(job[j], Todo)) \in Nat
        BY <1>1, <2>2, CountIsNat
    <2>5. Cardinality(Reach(j)) <= row'.total
        <3>1. IsFiniteSet(Tried) /\ IsFiniteSet(Of(job[j], Todo))
            BY <1>1, <2>2, SourcesAssumption, FS_Subset
        <3>2. Cardinality(Reach(j))
                = Cardinality(Tried) + Cardinality(Of(job[j], Todo)) - Cardinality(Tried \cap Of(job[j], Todo))
            BY <3>1, FS_Union DEF Reach
        <3>3. Cardinality(Tried \cap Of(job[j], Todo)) \in Nat
            BY <1>1, CountIsNat
        <3> QED BY <2>3, <2>4, <3>2, <3>3
    <2>6. Tried' = Tried
        BY <2>3 DEF Tried
    <2>7. ASSUME job'[j] = StartMore(job[j])
          PROVE  Reach(j)' = Reach(j)
        <3>1. Of(job'[j], Todo) = Of(job[j], Todo)
            BY <1>1, <2>7, StartMoreFacts DEF Of, Todo
        <3> QED BY <2>6, <3>1 DEF Reach, Of
    <2>8. j \in Flying /\ Moves(j)
        BY <1>4, AnnounceFacts DEF Flying, Pc
    <2>9. Cardinality(Tried)' <= row'.total
        BY <2>3, <2>4, <2>6
    <2>10. job'[j].pc \in {"fan", "save", "final"} => Cardinality(Reach(j))' <= row'.total
        BY <1>4, <2>5, <2>7, AnnounceFacts
    <2> QED BY <1>3, <2>8, <2>9, <2>10, TotalsMove
<1>5. CASE SaveResult(j)
    <2>1. PICK s \in job[j].saving, b \in JobType :
            /\ s \in Sources /\ AfterSave(j, s, b)
            /\ runs' = [runs EXCEPT ![s] = job[j].out[s]]
            /\ job'[j] = b \/ job'[j] = StartMore(b)
        BY <1>5, SaveFacts DEF AfterSave
    <2>2. Pc(j) = "save" /\ Moves(j) /\ row'.total = row.total
        BY <1>1, <1>5, SaveFacts DEF RowType
    <2>3. job[j].phase[s] = "saving"
        BY <1>1, <2>1, <2>2 DEF Phases, Pc
    <2>4. Tried' \subseteq Tried \cup {s}
        BY <1>1, <2>1 DEF Tried, RunsType
    <2>5. Of(b, Todo) = Of(job[j], Todo) \ {s} /\ s \in Of(job[j], Todo)
        BY <2>1, <2>3 DEF Of, Todo, AfterSave
    <2>6. Of(job'[j], Todo) = Of(b, Todo)
        BY <2>1, StartMoreFacts DEF Of, Todo, AfterSave
    <2>7. Reach(j)' \in SUBSET Reach(j) /\ Tried' \in SUBSET Reach(j) /\ Reach(j) \in SUBSET Sources
        BY <1>1, <2>4, <2>5, <2>6 DEF Reach, Of
    <2>8. Cardinality(Reach(j)) <= row.total
        BY <2>2 DEF Totals
    <2>9. Cardinality(Reach(j))' <= row'.total /\ Cardinality(Tried)' <= row'.total
        BY <1>1, <2>2, <2>7, <2>8, SmallerCount
    <2>10. j \in Flying
        BY <2>2 DEF Flying, Pc
    <2> QED BY <1>3, <2>2, <2>9, <2>10, TotalsMove
<1>6. CASE Wake(j)
    <2>1. Of(job'[j], Todo) = Of(job[j], Todo)
        BY <1>6, WakeFacts DEF Of, Todo
    <2> QED BY <1>3, <1>6, <2>1, WakeFacts, TotalsShrink DEF Moves, Pc
<1>7. ASSUME NEW s \in Sources, TakeResult(j, s)
      PROVE  Totals'
    <2>1. Of(job'[j], Todo) = Of(job[j], Todo) /\ Pc(j) = "fan" /\ UNCHANGED <<row, runs>> /\ Moves(j)
        BY <1>7, TakeFacts DEF Of, Todo
    <2>2. Reach(j)' = Reach(j) /\ Tried' = Tried /\ j \in Flying
        BY <2>1 DEF Reach, Of, Tried, Flying, Pc
    <2> QED BY <1>1, <2>1, <2>2, TotalsMove DEF Totals
<1>8. CASE ~(Announce(j) \/ SaveResult(j) \/ Wake(j) \/ \E s \in Sources : TakeResult(j, s))
    <2>1. /\ Moves(j) /\ runs' = runs /\ row'.total = row.total
          /\ job'[j].pc \notin {"fan", "save", "final"}
        <3> DEFINE P == /\ Moves(j) /\ runs' = runs /\ row'.total = row.total
                        /\ job'[j].pc \notin {"fan", "save", "final"}
        <3>1. QueueRead(j) \/ QueueFails(j) \/ Load(j) => P
            BY QueueReadFacts, QueueFailsFacts, LoadFacts
        <3>2. QueueCommit(j) => P
            BY <1>1, QueueCommitFacts DEF RowType
        <3>3. Finish(j) \/ Crash(j) \/ Close(j) => P
            BY FinishFacts, CrashFacts, CloseFacts
        <3>4. RecordCrash(j) \/ RecordCrashFails(j) => P
            BY RecordCrashFacts
        <3>5. DoneCallback(j) => P
            BY DoneFacts DEF Idle
        <3> QED BY <1>8, <3>1, <3>2, <3>3, <3>4, <3>5 DEF JobStep
    <2> QED BY <1>3, <2>1, TotalsShrink DEF Moves, Pc
<1> QED BY <1>4, <1>5, <1>6, <1>7, <1>8

LEMMA TotalsNext == TypeOK /\ SInv /\ Searches /\ Totals /\ [Next]_vars => Totals'
<1> SUFFICES ASSUME TypeOK, SInv, Searches, Totals, [Next]_vars PROVE Totals'
    OBVIOUS
<1>0. row \in RowType /\ runs \in RunsType /\ TypeOK'
    BY TypeFacts, NextType
<1>1. runs' \in RunsType
    BY <1>0 DEF TypeOK, RunsType
<1>2. ASSUME row'.total = row.total, \A s \in Sources : runs'[s] # "none" => runs[s] # "none",
             \A j \in Jobs : job'[j] = job[j] \/ job'[j].pc \in {"idle", "start"}
      PROVE  Totals'
    BY <1>1, <1>2, TotalsShrink DEF Pc, Of
<1>3. ASSUME NEW refresh, NEW only, StartTask(refresh, only)
      PROVE  \A j \in Jobs : job'[j] = job[j] \/ job'[j].pc \in {"idle", "start"}
    BY <1>3, StartFacts DEF Starts
<1>4. ASSUME Client
      PROVE  Totals'
    BY <1>0, <1>2, <1>3, <1>4 DEF Client, Resolve, MoreFetch, RefreshFetch, rowVars, RowType
<1>5. ASSUME RequestCommit
      PROVE  Totals'
    <2> DEFINE refresh == req.op = "refresh"
               only == IF req.op = "refresh" THEN req.chosen ELSE Sources
    <2>1. StartTask(refresh, only) /\ row'.total = row.total
          /\ \A s \in Sources : runs'[s] # "none" => runs[s] # "none"
        BY <1>0, <1>5 DEF RequestCommit, RowType
    <2> HIDE DEF refresh, only
    <2> QED BY <1>2, <1>3, <2>1
<1>6. ASSUME RequestFails \/ CleanupStep
      PROVE  Totals'
    BY <1>0, <1>2, <1>6 DEF RequestFails, CleanupStep, ExpireSelect, ExpireCommit, ExpireFails, rowVars, RowType
<1>7. ASSUME Environment
      PROVE  Totals'
    <2>1. CASE Restart
        <3>1. \A j \in Jobs : job'[j].pc = "idle"
            BY <2>1 DEF Restart, Idle
        <3> QED BY <1>0, <1>2, <2>1, <3>1 DEF Restart, RowType
    <2>2. CASE TimePasses \/ Purge \/ \E s \in Sources : Toggle(s)
        BY <1>0, <1>2, <2>2 DEF TimePasses, Purge, Toggle, rowVars, RowType
    <2> QED BY <1>7, <2>1, <2>2 DEF Environment
<1>8. ASSUME NEW j \in Jobs, SomeAnswer(j)
      PROVE  Totals'
    <2>1. PICK s \in Sources, o \in Outcomes : Answer(j, s, o)
        BY <1>8 DEF SomeAnswer
    <2>2. Of(job'[j], Todo) = Of(job[j], Todo)
        BY <2>1, AnswerFacts DEF Of, Todo
    <2> QED BY <1>1, <2>1, <2>2, AnswerFacts, TotalsShrink DEF Moves, Pc
<1>9. CASE UNCHANGED vars
    BY <1>1, <1>9, TotalsShrink DEF vars, Pc, Of
<1> QED BY <1>4, <1>5, <1>6, <1>7, <1>8, <1>9, TotalsJob DEF Next, Endpoint

LEMMA TotalsInit == Init => Totals
<1> SUFFICES ASSUME Init PROVE Totals
    OBVIOUS
<1>1. \A j \in Jobs : Pc(j) = "idle"
    BY DEF Init, Idle, Pc
<1>2. Tried = {} /\ row.total = 0
    BY DEF Init, Tried
<1> QED BY <1>1, <1>2, FS_EmptySet DEF Totals


-----------------------------------------------------------------------------
(* What the row tells of the search *)

Pending == {"asked", "answered", "batch", "saving"}

(* What a search has counted is what is saved, but for the result it is about to save. *)
Counted(j) ==
    Exists =>
        /\ Pc(j) = "announce" => job[j].found = PriorFound
        /\ Pc(j) \in {"announce", "fan", "final"} => (job[j].anyOk <=> PriorOk)
        /\ Pc(j) = "save" => \A s \in job[j].saving : (job[j].anyOk <=> PriorOk \/ job[j].out[s] # "error")

(* A search has somebody to ask, unless a source was disabled or something failed. *)
Useful(j) ==
    Calm /\ Exists =>
        /\ Pc(j) \in {"start", "queueing", "queued"} => job[j].only \ Tried # {}
        /\ Pc(j) = "announce" => Of(job[j], {"candidate"}) # {}
        /\ Pc(j) \in {"fan", "save", "final"} => Tried # {} \/ Of(job[j], Pending) # {}

RowOK ==
    Calm => /\ row.status = "failed" => Tried # {} /\ ~PriorOk
            /\ row.status = "done" => PriorOk
NewIsEmpty == row.status = "absent" => Tried = {}
AllEnabled == toggles = 0 => enabled = Sources
RequestIsUseful ==
    Calm /\ Exists => /\ req.op = "more" => Sources \ Tried # {}
                      /\ req.op = "refresh" => req.chosen # {}

Honest ==
    /\ \A j \in Jobs : Counted(j) /\ Useful(j)
    /\ RowOK /\ NewIsEmpty /\ AllEnabled /\ RequestIsUseful

LEMMA SameRunsFacts ==
    ASSUME runs' = runs
    PROVE  Tried' = Tried /\ PriorFound' = PriorFound /\ (PriorOk' <=> PriorOk)
BY DEF Tried, PriorFound, PriorOk

(* A step beside the search: at most it ends one that is past its last commit. *)
LEMMA HonestStays ==
    ASSUME TypeOK, Honest, \A i \in Jobs : job'[i] = job[i] \/ job'[i].pc \in {"idle", "close", "ended"},
           Exists' => Exists /\ runs' = runs, Calm' => Calm,
           row'.status \in {row.status, "expired", "gone"},
           row.status = "absent" => runs' = runs
    PROVE  (\A j \in Jobs : Counted(j) /\ Useful(j))' /\ RowOK' /\ NewIsEmpty'
<1>1. ASSUME NEW j \in Jobs
      PROVE  Counted(j)'
    <2>1. CASE ~Exists' \/ job'[j].pc \in {"idle", "close", "ended"}
        BY <2>1 DEF Counted, Pc
    <2>2. CASE Exists' /\ job'[j] = job[j]
        BY <2>2, SameRunsFacts DEF Honest, Counted, Pc
    <2> QED BY <2>1, <2>2
<1>2. ASSUME NEW j \in Jobs
      PROVE  Useful(j)'
    <2>1. CASE ~Exists' \/ job'[j].pc \in {"idle", "close", "ended"}
        BY <2>1 DEF Useful, Pc
    <2>2. CASE Exists' /\ job'[j] = job[j]
        BY <2>2, SameRunsFacts DEF Honest, Useful, Pc, Of
    <2> QED BY <2>1, <2>2
<1>3. RowOK'
    <2>1. row'.status \in {"done", "failed"} => row.status = row'.status /\ Exists'
        BY DEF Exists
    <2> QED BY <2>1, SameRunsFacts DEF Honest, RowOK
<1>4. NewIsEmpty'
    BY SameRunsFacts DEF Honest, NewIsEmpty
<1> QED BY <1>1, <1>2, <1>3, <1>4

(* A step of the one search that may write: for it alone there is something to show. *)
LEMMA HonestMoves ==
    ASSUME TypeOK, SInv, Honest, NEW j \in Jobs, Moves(j), j \in Flying, Untouched,
           row'.status # "absent",
           Counted(j)', Useful(j)',
           row'.status \in {"done", "failed"} => RowOK'
    PROVE  Honest'
<1>1. ASSUME NEW i \in Jobs, i # j
      PROVE  Counted(i)' /\ Useful(i)'
    <2>1. Pc(i)' \in {"idle", "close", "ended"}
        BY <1>1 DEF Moves, SInv, SingleFlight, Flying, Pc
    <2> QED BY <2>1 DEF Counted, Useful
<1>2. RowOK' /\ NewIsEmpty'
    BY DEF RowOK, NewIsEmpty
<1>3. AllEnabled'
    BY DEF Honest, AllEnabled, Untouched
<1>4. RequestIsUseful'
    BY DEF RequestIsUseful, Untouched, SInv, RequestHasNoJob
<1> QED BY <1>1, <1>2, <1>3, <1>4 DEF Honest

LEMMA HonestStarts ==
    ASSUME TypeOK, SInv, Honest, Flying = {}, NEW refresh, NEW only, StartTask(refresh, only),
           row'.status = "pending", Calm' => only \ Tried' # {}
    PROVE  (\A j \in Jobs : Counted(j) /\ Useful(j))' /\ RowOK' /\ NewIsEmpty'
<1>1. PICK j \in Jobs : Starts(j, only)
    BY StartFacts
<1>2. ASSUME NEW i \in Jobs
      PROVE  Counted(i)' /\ Useful(i)'
    <2>1. CASE i = j
        BY <1>1, <2>1 DEF Starts, Counted, Useful, Pc
    <2>2. CASE i # j
        <3>1. Pc(i)' \in {"idle", "close", "ended"}
            BY <1>1, <2>2 DEF Starts, Flying, Pc
        <3> QED BY <3>1 DEF Counted, Useful
    <2> QED BY <2>1, <2>2
<1> QED BY <1>2 DEF RowOK, NewIsEmpty

LEMMA HonestClient ==
    ASSUME TypeOK, SInv, Honest, Client
    PROVE  Honest'
<1>0. row \in RowType /\ req \in ReqType
    BY TypeFacts
<1>1. ASSUME NEW w \in Wants, Resolve(w)
      PROVE  Honest'
    <2>1. /\ row.status = "absent" /\ row'.status = "pending" /\ StartTask(FALSE, Sources)
          /\ UNCHANGED <<runs, enabled, req, boundVars>> /\ req.op = "none"
        BY <1>0, <1>1 DEF Resolve, RowType
    <2>2. Flying = {}
        BY <2>1 DEF SInv, SettledHasNoJob
    <2>3. Tried' = {}
        BY <2>1, SameRunsFacts DEF Honest, NewIsEmpty
    <2>4. Calm' => Sources \ Tried' # {}
        BY <2>3 DEF Calm
    <2>5. (\A j \in Jobs : Counted(j) /\ Useful(j))' /\ RowOK' /\ NewIsEmpty'
        BY <2>1, <2>2, <2>4, HonestStarts
    <2>6. AllEnabled' /\ RequestIsUseful'
        BY <2>1 DEF Honest, AllEnabled, RequestIsUseful, boundVars
    <2> QED BY <2>5, <2>6 DEF Honest
<1>2. ASSUME UNCHANGED <<row, runs, enabled, job, boundVars>>,
             req'.op = "more" => Sources \ Tried # {},
             req'.op = "refresh" => req'.chosen # {}
      PROVE  Honest'
    <2>1. (Calm' <=> Calm) /\ (Exists' <=> Exists)
        BY <1>2 DEF Calm, Exists, boundVars
    <2>2. (\A j \in Jobs : Counted(j) /\ Useful(j))' /\ RowOK' /\ NewIsEmpty'
        BY <1>2, <2>1, HonestStays
    <2>3. AllEnabled' /\ RequestIsUseful'
        BY <1>2, SameRunsFacts DEF Honest, AllEnabled, RequestIsUseful, boundVars
    <2> QED BY <2>2, <2>3 DEF Honest
<1>3. ASSUME NEW count, MoreFetch(count)
      PROVE  Honest'
    <2>1. Sources \ Tried # {} /\ req'.op = "more"
        BY <1>3, TypeFacts DEF MoreFetch
    <2> QED BY <1>2, <1>3, <2>1 DEF MoreFetch, rowVars
<1>4. ASSUME NEW chosen, RefreshFetch(chosen)
      PROVE  Honest'
    <2>1. req'.op = "refresh" /\ req'.chosen # {}
        BY <1>4 DEF RefreshFetch
    <2> QED BY <1>2, <1>4, <2>1 DEF RefreshFetch, rowVars
<1> QED BY <1>1, <1>3, <1>4 DEF Client

LEMMA HonestEndpoint ==
    ASSUME TypeOK, SInv, Honest, Endpoint
    PROVE  Honest'
<1>0. row \in RowType /\ req \in ReqType /\ faults \in Nat /\ runs \in RunsType
    BY TypeFacts
<1>1. CASE RequestCommit
    <2> DEFINE refresh == req.op = "refresh"
               only == IF req.op = "refresh" THEN req.chosen ELSE Sources
    <2>1. /\ row'.status = "pending" /\ StartTask(refresh, only) /\ Exists /\ req.op \in {"more", "refresh"}
          /\ UNCHANGED <<enabled, boundVars>> /\ req'.op = "none"
        BY <1>0, <1>1 DEF RequestCommit, RowType, ReqType, NoRequest
    <2>2. Flying = {}
        BY <2>1 DEF SInv, RequestHasNoJob
    <2>3. Tried' = Tried \ req.chosen /\ req.chosen \subseteq Sources
        BY <1>0, <1>1 DEF RequestCommit, Tried, ReqType
    <2>4. ASSUME Calm'
          PROVE  only \ Tried' # {}
        <3>1. Calm
            BY <2>1, <2>4 DEF Calm, boundVars
        <3> QED BY <2>1, <2>3, <3>1 DEF Honest, RequestIsUseful
    <2> HIDE DEF refresh, only
    <2>5. (\A j \in Jobs : Counted(j) /\ Useful(j))' /\ RowOK' /\ NewIsEmpty'
        BY <2>1, <2>2, <2>4, HonestStarts
    <2>6. AllEnabled' /\ RequestIsUseful'
        BY <2>1 DEF Honest, AllEnabled, RequestIsUseful, boundVars
    <2> QED BY <2>5, <2>6 DEF Honest
<1>2. CASE RequestFails
    <2>1. UNCHANGED <<row, runs, enabled, job, toggles, restarts>> /\ req'.op = "none"
          /\ (faults' = faults \/ faults' = faults + 1)
        BY <1>2 DEF RequestFails, rowVars, NoRequest
    <2>2. (Calm' => Calm) /\ (Exists' <=> Exists)
        BY <1>0, <2>1 DEF Calm, Exists
    <2>3. (\A j \in Jobs : Counted(j) /\ Useful(j))' /\ RowOK' /\ NewIsEmpty'
        BY <2>1, <2>2, HonestStays
    <2>4. AllEnabled' /\ RequestIsUseful'
        BY <2>1 DEF Honest, AllEnabled, RequestIsUseful
    <2> QED BY <2>3, <2>4 DEF Honest
<1> QED BY <1>1, <1>2 DEF Endpoint


LEMMA HonestBeside ==
    ASSUME TypeOK, SInv, Honest, CleanupStep \/ Environment
    PROVE  Honest'
<1>0. row \in RowType /\ faults \in Nat /\ toggles \in Nat /\ restarts \in Nat
    BY TypeFacts
<1>1. CASE CleanupStep
    <2>1. /\ UNCHANGED <<runs, enabled, job, req, toggles, restarts>>
          /\ faults' = faults \/ faults' = faults + 1
        BY <1>1 DEF CleanupStep, ExpireSelect, ExpireCommit, ExpireFails, rowVars, boundVars, CommitFails
    <2>2. row'.status = row.status \/ (row'.status = "expired" /\ Exists)
        BY <1>0, <1>1 DEF CleanupStep, ExpireSelect, ExpireCommit, ExpireFails, rowVars, RowType
    <2>3. (Calm' => Calm) /\ (Exists' => Exists)
        BY <1>0, <2>1, <2>2 DEF Calm, Exists
    <2>4. (\A j \in Jobs : Counted(j) /\ Useful(j))' /\ RowOK' /\ NewIsEmpty'
        BY <2>1, <2>2, <2>3, HonestStays
    <2>5. AllEnabled' /\ RequestIsUseful'
        BY <2>1, <2>3, SameRunsFacts DEF Honest, AllEnabled, RequestIsUseful
    <2> QED BY <2>4, <2>5 DEF Honest
<1>2. CASE TimePasses \/ Purge
    <2>1. /\ UNCHANGED <<enabled, job, req, faults, toggles, restarts>> /\ Exists
          /\ row'.status = row.status \/ row'.status = "gone"
          /\ runs' = runs \/ row'.status = "gone"
        BY <1>0, <1>2 DEF TimePasses, Purge, boundVars, RowType
    <2>2. (Calm' => Calm) /\ (Exists' => Exists /\ runs' = runs) /\ row.status # "absent"
        BY <2>1 DEF Calm, Exists
    <2>3. (\A j \in Jobs : Counted(j) /\ Useful(j))' /\ RowOK' /\ NewIsEmpty'
        BY <2>1, <2>2, HonestStays
    <2>4. AllEnabled' /\ RequestIsUseful'
        BY <2>1, <2>2, SameRunsFacts DEF Honest, AllEnabled, RequestIsUseful
    <2> QED BY <2>3, <2>4 DEF Honest
<1>3. ASSUME NEW s \in Sources, Toggle(s)
      PROVE  Honest'
    <2>1. UNCHANGED <<row, runs, job, req>> /\ toggles' # 0
        BY <1>0, <1>3 DEF Toggle, rowVars
    <2>2. ~Calm' /\ (Exists' <=> Exists)
        BY <2>1 DEF Calm, Exists
    <2>3. (\A j \in Jobs : Counted(j) /\ Useful(j))' /\ RowOK' /\ NewIsEmpty'
        BY <2>1, <2>2, HonestStays
    <2>4. AllEnabled' /\ RequestIsUseful'
        BY <2>1, <2>2 DEF AllEnabled, RequestIsUseful
    <2> QED BY <2>3, <2>4 DEF Honest
<1>4. CASE Restart
    <2>1. /\ UNCHANGED <<runs, enabled, toggles>> /\ restarts' # 0
          /\ \A j \in Jobs : job'[j].pc = "idle"
          /\ row'.status = row.status \/ row'.status = "failed"
        BY <1>0, <1>4 DEF Restart, Idle, RowType
    <2>2. ~Calm'
        BY <2>1 DEF Calm
    <2>3. \A j \in Jobs : Counted(j)' /\ Useful(j)'
        BY <2>1 DEF Counted, Useful, Pc
    <2>4. NewIsEmpty'
        BY <2>1, SameRunsFacts DEF Honest, NewIsEmpty
    <2>5. RowOK' /\ RequestIsUseful' /\ AllEnabled'
        BY <2>1, <2>2 DEF Honest, RowOK, RequestIsUseful, AllEnabled
    <2> QED BY <2>3, <2>4, <2>5 DEF Honest
<1> QED BY <1>1, <1>2, <1>3, <1>4 DEF Environment

LEMMA HonestLoad ==
    ASSUME TypeOK, SInv, Honest, NEW j \in Jobs, Load(j)
    PROVE  Counted(j)' /\ Useful(j)'
<1>1. /\ Moves(j) /\ UNCHANGED <<row, runs, faults>> /\ Untouched /\ Pc(j) \in {"start", "queued"}
      /\ job[j].only \subseteq Sources
    BY LoadFacts, TypeFacts DEF JobType
<1>2. Tried' = Tried /\ PriorFound' = PriorFound /\ (PriorOk' <=> PriorOk) /\ (Exists' <=> Exists) /\ (Calm' <=> Calm)
    BY <1>1, SameRunsFacts DEF Exists, Calm, Untouched
<1>3. CASE job'[j].pc = "close"
    BY <1>3 DEF Counted, Useful, Pc
<1>4. CASE job'[j].pc # "close"
    <2>1. /\ job'[j].pc = "announce" /\ job'[j].found = PriorFound /\ job'[j].anyOk = PriorOk
          /\ \A s \in Sources : job'[j].phase[s] = IF s \in (enabled \cap job[j].only) \ Tried
                                                   THEN "candidate" ELSE "no"
        BY <1>4, LoadFacts
    <2>2. Counted(j)'
        BY <1>2, <2>1 DEF Counted, Pc
    <2>3. ASSUME Calm', Exists'
          PROVE  Of(job'[j], {"candidate"}) # {}
        <3>1. enabled = Sources /\ job[j].only \ Tried # {}
            BY <1>1, <1>2, <2>3 DEF Honest, AllEnabled, Useful, Calm
        <3>2. PICK s \in Sources : s \in (enabled \cap job[j].only) \ Tried
            BY <1>1, <3>1
        <3> QED BY <2>1, <3>2 DEF Of
    <2>4. Useful(j)'
        BY <2>1, <2>3 DEF Useful, Pc, Of
    <2> QED BY <2>2, <2>4
<1> QED BY <1>3, <1>4

LEMMA HonestAnnounce ==
    ASSUME TypeOK, SInv, Searches, Honest, NEW j \in Jobs, Announce(j)
    PROVE  Counted(j)' /\ Useful(j)' /\ (row'.status \in {"done", "failed"} => RowOK')
<1>1. /\ Moves(j) /\ UNCHANGED <<runs, faults>> /\ Untouched /\ Pc(j) = "announce" /\ Exists
      /\ job[j] \in JobType
    BY AnnounceFacts, TypeFacts
<1>2. Tried' = Tried /\ (PriorOk' <=> PriorOk) /\ (Calm' <=> Calm)
    BY <1>1, SameRunsFacts DEF Calm, Untouched
<1>3. In(j, {"candidate"}) = Of(job[j], {"candidate"})
    BY DEF In, Of
<1>4. Calm => Of(job[j], {"candidate"}) # {}
    BY <1>1 DEF Honest, Useful
<1>5. CASE In(j, {"candidate"}) = {}
    <2>1. ~Calm' /\ job'[j].pc = "close"
        BY <1>2, <1>3, <1>4, <1>5, AnnounceFacts
    <2> QED BY <2>1 DEF Counted, Useful, RowOK, Pc
<1>6. CASE In(j, {"candidate"}) # {}
    <2>1. job'[j] = StartMore(job[j]) /\ row'.status = "running"
        BY <1>6, AnnounceFacts
    <2>2. job'[j].pc \in {"fan", "final"} /\ job'[j].anyOk = job[j].anyOk
        BY <1>1, <2>1, StartMoreFacts, StartMoreRest DEF SameCounts
    <2>3. Counted(j)'
        BY <1>1, <1>2, <2>2 DEF Honest, Counted, Pc
    <2>4. ASSUME Tried = {}
          PROVE  Of(job'[j], Pending) # {}
        <3>1. PriorFound = 0
            <4>1. {s \in Sources : runs[s] = "ok"} = {}
                BY <2>4 DEF Tried
            <4> QED BY <4>1, FS_EmptySet DEF PriorFound
        <3>2. job[j].found = 0
            BY <1>1, <3>1 DEF Honest, Counted
        <3>3. /\ \A s \in Sources : job[j].phase[s] \in {"no", "candidate"}
              /\ OutKnown(job[j]) /\ Ranked(job[j])
            BY <1>1 DEF Searches, SearchOK, Phases, Pc
        <3>4. Within(job[j])
            <4>1. Of(job[j], Open) = {}
                BY <3>3 DEF Of, Open
            <4> QED BY <4>1 DEF Within
        <3>5. Of(StartMore(job[j]), {"asked", "answered"}) # {}
            BY <1>1, <1>3, <1>6, <3>2, <3>3, <3>4, StartMoreAsks
        <3> QED BY <2>1, <3>5 DEF Of, Pending
    <2>5. Useful(j)'
        <3>1. Of(job[j], Pending)' = Of(job'[j], Pending)
            BY DEF Of
        <3> QED BY <1>2, <2>2, <2>4, <3>1 DEF Useful, Pc
    <2> QED BY <2>1, <2>3, <2>5
<1> QED BY <1>5, <1>6

LEMMA HonestSave ==
    ASSUME TypeOK, SInv, Searches, Honest, NEW j \in Jobs, SaveResult(j)
    PROVE  Counted(j)' /\ Useful(j)'
<1>1. PICK s \in job[j].saving, b \in JobType :
        /\ s \in Sources /\ AfterSave(j, s, b)
        /\ runs' = [runs EXCEPT ![s] = job[j].out[s]]
        /\ job'[j] = b \/ job'[j] = StartMore(b)
    BY SaveFacts DEF AfterSave
<1>2. /\ Moves(j) /\ Pc(j) = "save" /\ Exists /\ runs \in RunsType /\ j \in Flying
    BY SaveFacts, TypeFacts DEF Flying, Pc
<1>3. job[j].phase[s] = "saving" /\ job[j].out[s] \in Outcomes
    BY <1>1, <1>2 DEF Searches, SearchOK, Phases, OutKnown, Pc
<1>4. runs[s] = "none"
    BY <1>1, <1>2, <1>3 DEF SInv, TodoIsNew, Todo
<1>5. runs'[s] = job[j].out[s] /\ runs'[s] # "none" /\ \A u \in Sources : u # s => runs'[u] = runs[u]
    BY <1>1, <1>2, <1>3 DEF RunsType, Outcomes
<1>6. PriorOk' <=> PriorOk \/ job[j].out[s] # "error"
    <2>1. /\ PriorOk <=> \E u \in Sources : runs[u] \notin {"none", "error"}
          /\ PriorOk' <=> \E u \in Sources : runs'[u] \notin {"none", "error"}
        BY DEF PriorOk, Tried
    <2> QED BY <1>1, <1>4, <1>5, <2>1
<1>7. job'[j].anyOk = job[j].anyOk /\ job'[j].pc \in {"fan", "final"}
    BY <1>1, StartMoreRest, StartMoreFacts DEF AfterSave, SameCounts
<1>8. job[j].anyOk <=> PriorOk \/ job[j].out[s] # "error"
    BY <1>1, <1>2 DEF Honest, Counted
<1>9. s \in Tried'
    BY <1>1, <1>5 DEF Tried
<1>10. Counted(j)'
    BY <1>6, <1>7, <1>8 DEF Counted, Pc
<1>11. Useful(j)'
    BY <1>7, <1>9 DEF Useful, Pc
<1> QED BY <1>10, <1>11

LEMMA HonestFinish ==
    ASSUME TypeOK, SInv, Searches, Honest, NEW j \in Jobs, Finish(j)
    PROVE  RowOK'
<1>1. /\ UNCHANGED <<runs, faults>> /\ Untouched /\ Pc(j) = "final" /\ Exists
      /\ row'.status = IF job[j].anyOk THEN "done" ELSE "failed"
    BY FinishFacts
<1>2. Tried' = Tried /\ (PriorOk' <=> PriorOk) /\ (Calm' <=> Calm)
    BY <1>1, SameRunsFacts DEF Calm, Untouched
<1>3. job[j].anyOk <=> PriorOk
    BY <1>1 DEF Honest, Counted
<1>4. Of(job[j], Pending) = {}
    BY <1>1 DEF Searches, SearchOK, Phases, Pc, Of, Pending
<1>5. Calm => Tried # {}
    BY <1>1, <1>4 DEF Honest, Useful
<1> QED BY <1>1, <1>2, <1>3, <1>5 DEF RowOK


LEMMA HonestJob ==
    ASSUME TypeOK, SInv, CrashCounted, Searches, Honest, NEW j \in Jobs, JobStep(j)
    PROVE  Honest'
<1>0. row \in RowType /\ faults \in Nat /\ row.status \in Statuses
    BY TypeFacts DEF RowType
<1>1. Pc(j) \notin {"idle", "close", "ended"} => j \in Flying /\ row.status \notin {"absent", "done", "failed"}
    BY DEF Flying, Pc, SInv, SettledHasNoJob
<1>2. CASE QueueRead(j) \/ QueueCommit(j) \/ QueueFails(j)
    <2>1. /\ Moves(j) /\ Untouched /\ SameSearch(j) /\ runs' = runs
          /\ Pc(j) \in {"start", "queueing"} /\ job'[j].pc \in {"queueing", "queued"}
          /\ faults' = faults \/ faults' = faults + 1
        BY <1>2, QueueReadFacts, QueueCommitFacts, QueueFailsFacts
    <2>2. /\ row'.status = row.status \/ row'.status = "queued"
          /\ Exists' => Exists
        <3>1. CASE QueueCommit(j)
            BY <1>0, <3>1, QueueCommitFacts DEF RowType
        <3>2. CASE QueueRead(j) \/ QueueFails(j)
            BY <3>2, QueueReadFacts, QueueFailsFacts DEF Exists
        <3> QED BY <1>2, <3>1, <3>2
    <2>3. (Calm' => Calm) /\ Tried' = Tried
        BY <1>0, <2>1, SameRunsFacts DEF Calm, Untouched
    <2>4. Counted(j)' /\ Useful(j)'
        BY <2>1, <2>2, <2>3 DEF Honest, Counted, Useful, SameSearch, Pc
    <2> QED BY <1>1, <2>1, <2>2, <2>4, HonestMoves
<1>3. CASE Load(j)
    BY <1>1, <1>3, LoadFacts, HonestLoad, HonestMoves
<1>4. CASE Announce(j)
    BY <1>1, <1>4, AnnounceFacts, HonestAnnounce, HonestMoves
<1>5. CASE Wake(j)
    <2>1. /\ Moves(j) /\ Untouched /\ UNCHANGED <<row, runs, faults>> /\ Pc(j) = "fan" /\ job'[j].pc = "fan"
          /\ job'[j].anyOk = job[j].anyOk
        BY <1>5, WakeFacts DEF SameCounts
    <2>2. Of(job'[j], Pending) = Of(job[j], Pending)
        BY <1>5, WakeFacts DEF Of, Pending
    <2>3. Tried' = Tried /\ (PriorOk' <=> PriorOk) /\ (Calm' <=> Calm) /\ (Exists' <=> Exists)
        BY <2>1, SameRunsFacts DEF Calm, Exists, Untouched
    <2>4. Counted(j)'
        BY <2>1, <2>3 DEF Honest, Counted, Pc
    <2>5. Useful(j)'
        <3>1. Of(job[j], Pending)' = Of(job'[j], Pending)
            BY DEF Of
        <3> QED BY <2>1, <2>2, <2>3, <3>1 DEF Honest, Useful, Pc
    <2> QED BY <1>1, <2>1, <2>4, <2>5, HonestMoves
<1>6. ASSUME NEW s \in Sources, TakeResult(j, s)
      PROVE  Honest'
    <2>1. /\ Moves(j) /\ Untouched /\ UNCHANGED <<row, runs, faults>> /\ Pc(j) = "fan" /\ job'[j].pc = "save"
          /\ job'[j].saving = {s} /\ job'[j].phase[s] = "saving" /\ job'[j].out = job[j].out
          /\ job'[j].anyOk = (job[j].anyOk \/ job[j].out[s] # "error")
        BY <1>6, TakeFacts
    <2>2. Tried' = Tried /\ (PriorOk' <=> PriorOk) /\ (Exists' <=> Exists)
        BY <2>1, SameRunsFacts DEF Exists
    <2>3. Counted(j)'
        BY <2>1, <2>2 DEF Honest, Counted, Pc
    <2>4. Useful(j)'
        <3>1. s \in Of(job[j], Pending)'
            BY <2>1 DEF Of, Pending
        <3> QED BY <2>1, <3>1 DEF Useful, Pc
    <2> QED BY <1>1, <2>1, <2>3, <2>4, HonestMoves
<1>7. CASE SaveResult(j)
    <2>1. Moves(j) /\ Untouched /\ Pc(j) = "save" /\ row'.status = row.status
        BY <1>0, <1>7, SaveFacts DEF RowType
    <2> QED BY <1>1, <1>7, <2>1, HonestSave, HonestMoves
<1>8. CASE Finish(j)
    <2>1. Moves(j) /\ Untouched /\ Pc(j) = "final" /\ job'[j].pc = "close" /\ row'.status # "absent"
        BY <1>8, FinishFacts
    <2>2. Counted(j)' /\ Useful(j)'
        BY <2>1 DEF Counted, Useful, Pc
    <2> QED BY <1>1, <1>8, <2>1, <2>2, HonestFinish, HonestMoves
<1>9. CASE Crash(j)
    <2>1. Moves(j) /\ Untouched /\ Pc(j) \in {"announce", "save", "final"} /\ job'[j].pc = "crash" /\ row' = row
        BY <1>9, CrashFacts
    <2>2. Counted(j)' /\ Useful(j)'
        BY <2>1 DEF Counted, Useful, Pc
    <2> QED BY <1>1, <2>1, <2>2, HonestMoves
<1>10. CASE RecordCrash(j) \/ RecordCrashFails(j)
    <2>1. /\ Moves(j) /\ Untouched /\ Pc(j) = "crash" /\ job'[j].pc = "close"
          /\ row' = row \/ (row'.status = "failed" /\ Exists)
          /\ faults' = faults \/ faults' = faults + 1
        BY <1>10, RecordCrashFacts
    <2>2. Counted(j)' /\ Useful(j)'
        BY <2>1 DEF Counted, Useful, Pc
    <2>3. row'.status \in {"done", "failed"} => ~Calm'
        <3>1. row'.status \in {"done", "failed"} => Exists
            BY <1>1, <2>1
        <3>2. faults >= 1 \/ row.status = "gone"
            BY <2>1 DEF CrashCounted
        <3> QED BY <1>0, <2>1, <3>1, <3>2 DEF Calm, Exists
    <2>4. row'.status # "absent"
        BY <1>1, <2>1
    <2> QED BY <1>1, <2>1, <2>2, <2>3, <2>4, HonestMoves DEF RowOK
<1>11. CASE Close(j) \/ DoneCallback(j)
    <2>1. /\ UNCHANGED <<row, runs, enabled, req, faults, toggles, restarts>>
          /\ \A i \in Jobs : job'[i] = job[i] \/ job'[i].pc \in {"idle", "close", "ended"}
        BY <1>11, CloseFacts, DoneFacts DEF Moves, Untouched, Idle
    <2>2. (Exists' <=> Exists) /\ (Calm' <=> Calm)
        BY <2>1 DEF Exists, Calm
    <2>3. (\A i \in Jobs : Counted(i) /\ Useful(i))' /\ RowOK' /\ NewIsEmpty'
        BY <2>1, <2>2, HonestStays
    <2>4. AllEnabled' /\ RequestIsUseful'
        BY <2>1, <2>2, SameRunsFacts DEF Honest, AllEnabled, RequestIsUseful
    <2> QED BY <2>3, <2>4 DEF Honest
<1> QED BY <1>2, <1>3, <1>4, <1>5, <1>6, <1>7, <1>8, <1>9, <1>10, <1>11 DEF JobStep

LEMMA HonestAnswer ==
    ASSUME TypeOK, SInv, Searches, Honest, NEW j \in Jobs, NEW s \in Sources, NEW o \in Outcomes, Answer(j, s, o)
    PROVE  Honest'
<1>1. /\ Moves(j) /\ Untouched /\ UNCHANGED <<row, runs, faults>>
      /\ job'[j].pc = job[j].pc /\ job'[j].anyOk = job[j].anyOk /\ job'[j].saving = job[j].saving
      /\ job[j].phase[s] = "asked" /\ job'[j].phase[s] = "answered"
      /\ \A u \in Sources : u # s => job'[j].out[u] = job[j].out[u]
    BY AnswerFacts
<1>2. Pc(j) \in {"fan", "save"}
    BY SearchesAnswer
<1>3. Tried' = Tried /\ (PriorOk' <=> PriorOk) /\ (Exists' <=> Exists)
    BY <1>1, SameRunsFacts DEF Exists
<1>4. Pc(j) = "save" => \A u \in job[j].saving : u \in Sources /\ u # s
    BY <1>1 DEF Searches, SearchOK, Phases, Pc
<1>5. Counted(j)'
    BY <1>1, <1>2, <1>3, <1>4 DEF Honest, Counted, Pc
<1>6. Useful(j)'
    <2>1. s \in Of(job[j], Pending)'
        BY <1>1 DEF Of, Pending
    <2> QED BY <1>1, <1>2, <2>1 DEF Useful, Pc
<1>7. j \in Flying /\ row.status \notin {"absent", "done", "failed"}
    BY <1>2 DEF Flying, Pc, SInv, SettledHasNoJob
<1> QED BY <1>1, <1>5, <1>6, <1>7, HonestMoves

LEMMA HonestNext == TypeOK /\ SInv /\ Owner /\ Searches /\ Honest /\ [Next]_vars => Honest'
<1> SUFFICES ASSUME TypeOK, SInv, Owner, Searches, Honest, [Next]_vars PROVE Honest'
    OBVIOUS
<1>1. CASE UNCHANGED vars
    <2>1. UNCHANGED <<row, runs, enabled, req, job, faults, toggles, restarts>>
        BY <1>1 DEF vars
    <2>2. (Exists' <=> Exists) /\ (Calm' <=> Calm)
        BY <2>1 DEF Exists, Calm
    <2>3. (\A i \in Jobs : Counted(i) /\ Useful(i))' /\ RowOK' /\ NewIsEmpty'
        BY <2>1, <2>2, HonestStays
    <2>4. AllEnabled' /\ RequestIsUseful'
        BY <2>1, <2>2, SameRunsFacts DEF Honest, AllEnabled, RequestIsUseful
    <2> QED BY <2>3, <2>4 DEF Honest
<1>2. CrashCounted
    BY DEF Owner
<1>3. ASSUME NEW j \in Jobs, SomeAnswer(j)
      PROVE  Honest'
    BY <1>3, HonestAnswer DEF SomeAnswer
<1> QED BY <1>1, <1>2, <1>3, HonestClient, HonestEndpoint, HonestBeside, HonestJob DEF Next

LEMMA HonestInit == Init => Honest
<1> SUFFICES ASSUME Init PROVE Honest
    OBVIOUS
<1>1. \A j \in Jobs : Pc(j) = "idle"
    BY DEF Init, Idle, Pc
<1>2. Tried = {} /\ row.status = "absent" /\ enabled = Sources
    BY DEF Init, Tried
<1>3. req.op = "none"
    BY DEF Init, NoRequest
<1> QED BY <1>1, <1>2, <1>3 DEF Honest, Counted, Useful, RowOK, NewIsEmpty, AllEnabled, RequestIsUseful

(* A search counts answers in locals and the row in a copy, across many awaits and several calls:   *)
(* still, as long as nothing failed, "failed" means that every source it asked failed and "done"    *)
(* that one did not, and has_more never compares with a total smaller than what is saved.           *)
THEOREM RowsAreHonest == Spec => []RowIsHonest
<1> DEFINE Inv == SInv /\ Owner /\ Searches /\ Totals /\ Honest
<1>1. TypeOK /\ Inv => RowIsHonest
    <2> SUFFICES ASSUME TypeOK, Inv PROVE RowIsHonest
        OBVIOUS
    <2>1. TotalCoversRuns
        <3>1. Tried \in SUBSET Sources /\ row.total \in Nat
            BY TypeFacts DEF Tried, RowType
        <3> QED BY <3>1, CountIsNat DEF Totals, TotalCoversRuns
    <2>2. StatusIsHonest
        <3>1. faults + restarts + toggles = 0 /\ Sources # {} => Calm
            BY TypeFacts DEF Calm
        <3> QED BY <3>1 DEF Honest, RowOK, PriorOk, StatusIsHonest
    <2> QED BY <2>1, <2>2 DEF RowIsHonest
<1>2. Init => Inv
    BY InitSInv, OwnerInit, SearchesInit, TotalsInit, HonestInit
<1>3. TypeOK /\ Inv /\ [Next]_vars => Inv'
    BY NextKeepsSInv, OwnerNext, SearchesNext, TotalsNext, HonestNext
<1> HIDE DEF Inv
<1> QED BY <1>1, <1>2, <1>3, InitType, NextType, PTL DEF Spec
-----------------------------------------------------------------------------
(* The waiters *)

StateType == [status : Statuses, version : Nat, starred : Nat, expired : BOOLEAN]
PollType == [pc : {"away", "top", "row", "counts", "sleep", "back"}, mode : Modes \cup {"all"},
             after : Nat, ev : BOOLEAN, st : StateType]
WaitType == poll \in [Waiters -> PollType]

LEMMA AwayType == Away \in PollType
BY DEF Away, Unread, PollType, StateType, Statuses

(* A step of a waiter is about its own call, and the event it holds. *)
Beside == UNCHANGED <<row, runs, links, enabled, job, known, event, req, cleanup, faults, toggles, restarts>>
Own(w) ==
    /\ \A v \in Waiters : v # w => poll'[v] = poll[v] /\ (v \in armed' => v \in armed)
    /\ armed' = armed \/ armed' = armed \ {w} \/ (event = TRUE /\ armed' = armed \cup {w})
    /\ fired' = fired \/ fired' = fired \ {w}
    /\ Beside

AnyStep(w) == WaiterStep(w) \/ Deadline(w) \/ \E m \in Modes : Ask(w, m)

LEMMA AskType ==
    ASSUME TypeOK, WaitType, NEW w \in Waiters, NEW m \in Modes, Ask(w, m)
    PROVE  WaitType' /\ Own(w) /\ poll'[w].pc = "top"
<1> DEFINE a == CASE m = "change" -> row.version
                  [] m = "found"  -> Cardinality(Ok)
                  [] OTHER        -> 0
           x == [Away EXCEPT !.pc = "top", !.mode = m, !.after = a]
<1>1. Cardinality(Ok) \in Nat
    BY CountIsNat DEF Ok
<1>2. a \in Nat
    BY <1>1, TypeFacts DEF RowType
<1>3. poll' = [poll EXCEPT ![w] = x] /\ UNCHANGED vars
    BY DEF Ask
<1> HIDE DEF a
<1>4. x \in PollType /\ x.pc = "top"
    BY <1>2, AwayType DEF PollType
<1> HIDE DEF x
<1> QED BY <1>3, <1>4 DEF WaitType, Own, Beside, vars

LEMMA TakeEventFacts ==
    ASSUME TypeOK, WaitType, NEW w \in Waiters, TakeEvent(w)
    PROVE  WaitType' /\ Own(w) /\ poll'[w].pc = "row"
<1> DEFINE x == [poll[w] EXCEPT !.pc = "row", !.ev = event]
<1>1. poll' = [poll EXCEPT ![w] = x]
    BY DEF TakeEvent, WaitType, PollType
<1>2. x \in PollType /\ x.pc = "row"
    <2>1. poll[w] \in PollType /\ event \in BOOLEAN
        BY DEF TypeOK, WaitType
    <2> QED BY <2>1 DEF PollType
<1> HIDE DEF x
<1>3. armed' = armed \/ (event = TRUE /\ armed' = armed \cup {w})
    BY DEF TypeOK, TakeEvent
<1>4. Beside /\ fired' = fired
    BY DEF TakeEvent, Beside, rowVars, boundVars
<1>5. \A v \in Waiters : v # w => poll'[v] = poll[v] /\ (v \in armed' => v \in armed)
    BY <1>1, <1>3 DEF WaitType
<1> QED BY <1>1, <1>2, <1>3, <1>4, <1>5 DEF WaitType, Own

LEMMA PeekRowFacts ==
    ASSUME TypeOK, WaitType, NEW w \in Waiters, PeekRow(w)
    PROVE  /\ WaitType' /\ Own(w)
           /\ poll'[w].pc = "back" \/ (poll'[w].pc = "counts" /\ poll'[w].st = Current)
<1>1. Current \in StateType
    BY TypeFacts DEF Current, StateType, RowType
<1> DEFINE x == IF row.status = "gone" THEN [poll[w] EXCEPT !.pc = "back"]
                ELSE [poll[w] EXCEPT !.pc = "counts", !.st = Current]
<1>2. poll' = [poll EXCEPT ![w] = x] /\ UNCHANGED vars
    BY DEF PeekRow, WaitType
<1>3. poll[w] \in PollType
    BY DEF WaitType
<1>4. x \in PollType /\ (x.pc = "back" \/ (x.pc = "counts" /\ x.st = Current))
    BY <1>1, <1>3 DEF PollType
<1> HIDE DEF x
<1> QED BY <1>2, <1>4 DEF WaitType, Own, Beside, vars

LEMMA PeekCountsFacts ==
    ASSUME TypeOK, WaitType, NEW w \in Waiters, PeekCounts(w)
    PROVE  /\ WaitType' /\ Own(w) /\ armed' = armed /\ poll[w].pc = "counts"
           /\ \/ poll'[w].pc = "back"
              \/ /\ poll'[w].pc = "sleep" /\ poll'[w].mode = poll[w].mode /\ poll'[w].after = poll[w].after
                 /\ ~Satisfied(poll[w].st, poll[w].mode, poll[w].after)
<1> DEFINE pc == IF Satisfied(poll[w].st, poll[w].mode, poll[w].after) THEN "back" ELSE "sleep"
           x == [poll[w] EXCEPT !.st = Unread, !.pc = pc]
<1>1. poll' = [poll EXCEPT ![w] = x] /\ UNCHANGED vars /\ poll[w].pc = "counts"
    BY DEF PeekCounts, WaitType, PollType
<1>2. poll[w] \in PollType /\ Unread \in StateType
    BY DEF WaitType, Unread, StateType, Statuses
<1>3. pc = "back" \/ (pc = "sleep" /\ ~Satisfied(poll[w].st, poll[w].mode, poll[w].after))
    OBVIOUS
<1> HIDE DEF pc
<1>4. x \in PollType /\ x.pc = pc /\ x.mode = poll[w].mode /\ x.after = poll[w].after
    BY <1>2, <1>3 DEF PollType
<1> HIDE DEF x
<1>5. poll'[w] = x /\ WaitType' /\ Own(w) /\ armed' = armed
    BY <1>1, <1>4 DEF WaitType, Own, Beside, vars
<1> QED BY <1>1, <1>3, <1>4, <1>5

LEMMA BackFacts ==
    ASSUME TypeOK, WaitType, NEW w \in Waiters, WakeUp(w) \/ Deadline(w) \/ Leave(w)
    PROVE  WaitType' /\ Own(w) /\ poll'[w].pc \in {"top", "back", "away"}
<1>0. poll[w] \in PollType /\ poll \in [Waiters -> PollType]
    BY DEF WaitType
<1>1. CASE WakeUp(w)
    <2> DEFINE x == [poll[w] EXCEPT !.pc = "top", !.ev = FALSE]
    <2>1. poll' = [poll EXCEPT ![w] = x]
        BY <1>0, <1>1 DEF WakeUp, PollType
    <2>2. x \in PollType /\ x.pc = "top"
        BY <1>0 DEF PollType
    <2> HIDE DEF x
    <2> QED BY <1>0, <1>1, <2>1, <2>2 DEF WaitType, WakeUp, Own, Beside, rowVars, boundVars
<1>2. CASE Deadline(w)
    <2> DEFINE x == [poll[w] EXCEPT !.pc = "back"]
    <2>1. poll' = [poll EXCEPT ![w] = x]
        BY <1>0, <1>2 DEF Deadline
    <2>2. x \in PollType /\ x.pc = "back"
        BY <1>0 DEF PollType
    <2> HIDE DEF x
    <2> QED BY <1>0, <1>2, <2>1, <2>2 DEF WaitType, Deadline, Own, Beside, vars
<1>3. CASE Leave(w)
    BY <1>0, <1>3, AwayType DEF WaitType, Leave, Own, Beside, rowVars, boundVars, Away
<1> QED BY <1>1, <1>2, <1>3

(* The task's own invariant does not look at its waiters. *)
TaskInv == TypeOK /\ SInv /\ Versions /\ Searches

LEMMA TaskInvNext == TaskInv /\ [Next]_vars => TaskInv'
<1> SUFFICES ASSUME TaskInv, [Next]_vars PROVE TaskInv'
    OBVIOUS
<1> USE DEF TaskInv
<1>1. CASE Next
    BY <1>1, NextType, NextKeepsSInv, VersionsNext, SearchesNext
<1>2. CASE UNCHANGED vars
    <2>1. Versions'
        BY <1>2 DEF vars, Versions, SearchCounts, CleanupIsBehind, RequestCounts, RequestIsAhead, Pc
    <2> QED BY <2>1, NextType, NextKeepsSInv, SearchesNext
<1> QED BY <1>1, <1>2

LEMMA TaskInvBeside ==
    ASSUME TaskInv, NEW w \in Waiters, Own(w)
    PROVE  TaskInv'
<1> USE DEF TaskInv, Own, Beside
<1>1. TypeOK'
    BY DEF TypeOK, Statuses, InFlight
<1>2. SInv'
    BY DEF SInv, SingleFlight, SettledHasNoJob, RequestHasNoJob, TodoIsNew, SavingIsTaken, Flying
<1>3. Versions'
    BY DEF Versions, SearchCounts, CleanupIsBehind, RequestCounts, RequestIsAhead, Pc
<1>4. Searches'
    BY DEF Searches
<1> QED BY <1>1, <1>2, <1>3, <1>4


(* What starred_total says while a search runs: the starred sources among those it can reach. *)
Searching == {"fan", "save", "final"}
StarTotal ==
    \A j \in Jobs : Pc(j) \in Searching /\ Exists => row.starred = Cardinality(Starred \cap Reach(j))

LEMMA StarStays ==
    ASSUME StarTotal,
           \A j \in Jobs : job'[j].pc \in Searching /\ Exists'
                => /\ Pc(j) \in Searching /\ Exists
                   /\ row'.starred = row.starred /\ Reach(j)' = Reach(j)
    PROVE  StarTotal'
BY DEF StarTotal, Pc

LEMMA StarJob ==
    ASSUME TypeOK, SInv, Searches, StarTotal, NEW j \in Jobs, JobStep(j)
    PROVE  StarTotal'
<1>1. /\ Phases(job[j]) /\ OutKnown(job[j]) /\ job[j] \in JobType /\ row \in RowType /\ runs \in RunsType
      /\ Tried \in SUBSET Sources
    BY TypeFacts DEF Searches, SearchOK, Tried
<1>2. ASSUME Moves(j), j \in Flying, NEW i \in Jobs, i # j
      PROVE  job'[i].pc \notin Searching
    BY <1>2 DEF Moves, SInv, SingleFlight, Flying, Searching
<1>3. CASE Announce(j)
    <2>1. Moves(j) /\ Pc(j) = "announce" /\ runs' = runs
        BY <1>3, AnnounceFacts
    <2>2. j \in Flying
        BY <2>1 DEF Flying, Pc
    <2>3. \A s \in Sources : job[j].phase[s] \in {"no", "candidate"}
        BY <1>1, <2>1 DEF Phases, Pc
    <2>4. In(j, {"candidate"}) = Of(job[j], Todo)
        BY <2>3 DEF In, Of, Todo
    <2>5. row'.starred = Cardinality(Starred \cap Reach(j))
        BY <1>3, <2>4, AnnounceFacts DEF Reach
    <2>6. ASSUME job'[j].pc \in Searching
          PROVE  Reach(j)' = Reach(j)
        <3>1. job'[j] = StartMore(job[j])
            BY <1>3, <2>6, AnnounceFacts DEF Searching
        <3>2. Of(job'[j], Todo) = Of(job[j], Todo)
            BY <1>1, <3>1, StartMoreFacts DEF Of, Todo
        <3> QED BY <2>1, <3>2 DEF Reach, Of, Tried
    <2> QED BY <1>2, <2>1, <2>2, <2>5, <2>6 DEF StarTotal, Pc
<1>4. CASE SaveResult(j)
    <2>1. PICK s \in job[j].saving, b \in JobType :
            /\ s \in Sources /\ AfterSave(j, s, b)
            /\ runs' = [runs EXCEPT ![s] = job[j].out[s]]
            /\ job'[j] = b \/ job'[j] = StartMore(b)
        BY <1>4, SaveFacts DEF AfterSave
    <2>2. Pc(j) = "save" /\ Moves(j) /\ row'.starred = row.starred /\ Exists
        BY <1>1, <1>4, SaveFacts DEF RowType
    <2>3. job[j].phase[s] = "saving"
        BY <1>1, <2>1, <2>2 DEF Phases, Pc
    <2>4. job[j].out[s] # "none"
        BY <1>1, <2>1, <2>3 DEF OutKnown, Outcomes
    <2>5. Tried' = Tried \cup {s}
        BY <1>1, <2>1, <2>4 DEF Tried, RunsType
    <2>6. Of(b, Todo) = Of(job[j], Todo) \ {s} /\ s \in Of(job[j], Todo)
        BY <2>1, <2>3 DEF Of, Todo, AfterSave
    <2>7. Of(job'[j], Todo) = Of(b, Todo)
        BY <2>1, StartMoreFacts DEF Of, Todo, AfterSave
    <2>8. Reach(j)' = Reach(j)
        BY <2>5, <2>6, <2>7 DEF Reach, Of
    <2>9. j \in Flying
        BY <2>2 DEF Flying, Pc
    <2> QED BY <1>2, <2>2, <2>8, <2>9, StarStays DEF Searching
<1>5. ASSUME Moves(j), row' = row, runs' = runs,
             job'[j].pc \in Searching => Pc(j) \in Searching /\ Of(job'[j], Todo) = Of(job[j], Todo)
      PROVE  StarTotal'
    BY <1>5, StarStays DEF Moves, Pc, Reach, Of, Tried, Exists
<1>6. CASE Wake(j)
    <2>1. Of(job'[j], Todo) = Of(job[j], Todo)
        BY <1>6, WakeFacts DEF Of, Todo
    <2> QED BY <1>5, <1>6, <2>1, WakeFacts DEF Searching
<1>7. ASSUME NEW s \in Sources, TakeResult(j, s)
      PROVE  StarTotal'
    <2>1. Of(job'[j], Todo) = Of(job[j], Todo) /\ Pc(j) = "fan" /\ UNCHANGED <<row, runs>> /\ Moves(j)
        BY <1>7, TakeFacts DEF Of, Todo
    <2> QED BY <1>5, <2>1 DEF Searching
<1>8. ASSUME Moves(j), j \in Flying, job'[j].pc \notin Searching
      PROVE  StarTotal'
    BY <1>2, <1>8 DEF StarTotal, Pc
<1>9. CASE QueueCommit(j) \/ Finish(j) \/ RecordCrash(j) \/ RecordCrashFails(j)
    BY <1>8, <1>9, QueueCommitFacts, FinishFacts, RecordCrashFacts DEF Flying, Pc, Searching
<1>10. CASE QueueRead(j) \/ QueueFails(j) \/ Load(j) \/ Crash(j) \/ Close(j)
    <2>1. Moves(j) /\ row' = row /\ runs' = runs /\ job'[j].pc \notin Searching
        BY <1>10, QueueReadFacts, QueueFailsFacts, LoadFacts, CrashFacts, CloseFacts DEF Searching
    <2> QED BY <1>5, <2>1
<1>11. CASE DoneCallback(j)
    <2>1. Moves(j) /\ row' = row /\ runs' = runs /\ job'[j].pc = "idle"
        BY <1>11, DoneFacts DEF Idle
    <2> QED BY <1>5, <2>1 DEF Searching
<1> QED BY <1>3, <1>4, <1>6, <1>7, <1>9, <1>10, <1>11 DEF JobStep

LEMMA StarNext == TypeOK /\ SInv /\ Searches /\ StarTotal /\ Next => StarTotal'
<1> SUFFICES ASSUME TypeOK, SInv, Searches, StarTotal, Next PROVE StarTotal'
    OBVIOUS
<1>0. row \in RowType
    BY TypeFacts
<1>1. ASSUME Flying = {}, NEW refresh, NEW only, StartTask(refresh, only)
      PROVE  StarTotal'
    <2>1. \A j \in Jobs : job'[j].pc \notin Searching
        BY <1>1, StartFacts DEF Starts, Flying, Searching
    <2> QED BY <2>1 DEF StarTotal, Pc
<1>2. ASSUME job' = job, runs' = runs, row'.starred = row.starred, Exists' => Exists
      PROVE  StarTotal'
    BY <1>2, StarStays DEF Pc, Reach, Tried
<1>3. ASSUME NEW w \in Wants, Resolve(w)
      PROVE  StarTotal'
    <2>1. row.status = "absent" /\ StartTask(FALSE, Sources)
        BY <1>3 DEF Resolve
    <2> QED BY <1>1, <2>1 DEF SInv, SettledHasNoJob
<1>4. CASE RequestCommit
    <2> DEFINE refresh == req.op = "refresh"
               only == IF req.op = "refresh" THEN req.chosen ELSE Sources
    <2>1. StartTask(refresh, only) /\ req.op # "none"
        BY <1>4 DEF RequestCommit
    <2> HIDE DEF refresh, only
    <2> QED BY <1>1, <2>1 DEF SInv, RequestHasNoJob
<1>5. ASSUME NEW count, MoreFetch(count)
      PROVE  StarTotal'
    BY <1>2, <1>5 DEF MoreFetch, rowVars, Exists
<1>6. ASSUME NEW chosen, RefreshFetch(chosen)
      PROVE  StarTotal'
    BY <1>2, <1>6 DEF RefreshFetch, rowVars, Exists
<1>7. CASE RequestFails \/ CleanupStep
    BY <1>0, <1>2, <1>7 DEF RequestFails, CleanupStep, ExpireSelect, ExpireCommit, ExpireFails, rowVars, RowType, Exists
<1>8. CASE Environment
    <2>1. CASE Restart
        <3>1. \A j \in Jobs : job'[j].pc = "idle"
            BY <2>1 DEF Restart, Idle
        <3> QED BY <3>1 DEF StarTotal, Pc, Searching
    <2>2. CASE Purge
        <3>1. row'.status = "gone"
            BY <1>0, <2>2 DEF Purge, RowType
        <3> QED BY <3>1 DEF StarTotal, Exists
    <2>3. CASE TimePasses \/ \E s \in Sources : Toggle(s)
        BY <1>0, <1>2, <2>3 DEF TimePasses, Toggle, rowVars, RowType, Exists
    <2> QED BY <1>8, <2>1, <2>2, <2>3 DEF Environment
<1>9. ASSUME NEW j \in Jobs, SomeAnswer(j)
      PROVE  StarTotal'
    <2>1. PICK s \in Sources, o \in Outcomes : Answer(j, s, o)
        BY <1>9 DEF SomeAnswer
    <2>2. Of(job'[j], Todo) = Of(job[j], Todo) /\ Moves(j) /\ row' = row /\ runs' = runs /\ job'[j].pc = job[j].pc
        BY <2>1, AnswerFacts DEF Of, Todo
    <2> QED BY <2>2, StarStays DEF Moves, Pc, Reach, Of, Tried, Exists
<1>10. ASSUME NEW j \in Jobs, JobStep(j)
       PROVE  StarTotal'
    BY <1>10, StarJob
<1> QED BY <1>3, <1>4, <1>5, <1>6, <1>7, <1>8, <1>9, <1>10 DEF Next, Client, Endpoint

(* What wakes a waiter beside the end of the search. *)
Met(st, mode, after) ==
    \/ mode = "first" /\ Ok # {}
    \/ /\ mode = "first_starred"
       /\ \/ Ok \cap Starred # {}
          \/ Ok # {} /\ Cardinality(Tried \cap Starred) >= st.starred
    \/ mode = "change" /\ st.version > after
    \/ mode = "found" /\ Cardinality(Ok) > after

Live == row.fresh = TRUE /\ row.status # "gone"
Closing == Flying = {} /\ \E j \in Jobs : Pc(j) = "close"
OnEvent == armed # {} => event = TRUE

(* A call that has read the row and holds the current event has read what it still says, or less. *)
Read(w) ==
    (poll[w].pc = "counts" /\ w \in armed /\ Live)
        => /\ row.status \in {"done", "failed"} => Closing \/ poll[w].st.status \in {"done", "failed"}
           /\ row.version <= poll[w].st.version \/ Closing
           /\ poll[w].st.starred <= row.starred \/ Closing \/ Unheard

(* A call that sleeps on the current event has nothing to wake up for. *)
Slept(w) ==
    (poll[w].pc = "sleep" /\ w \in armed /\ Live)
        => /\ row.status \in {"done", "failed"} => Closing
           /\ Met(Current, poll[w].mode, poll[w].after)
                => Closing \/ (poll[w].mode = "first_starred" /\ Unheard)

Wakes == OnEvent /\ \A w \in Waiters : Read(w) /\ Slept(w)

(* A step that tells nobody has nothing to tell. *)
Silent ==
    /\ armed' = armed /\ event' = event
    /\ Live' => /\ Live /\ runs' = runs
                /\ row'.version \in Nat /\ row'.starred \in Nat
                /\ row'.status \in {"done", "failed"} => row.status \in {"done", "failed"} \/ Closing'
                /\ row'.version <= row.version \/ Closing'
                /\ row'.starred >= row.starred \/ Closing' \/ Unheard'
    /\ Closing => Closing'
    /\ Unheard => Unheard'

LEMMA SilentKeeps ==
    ASSUME TypeOK, WaitType, Wakes, Silent, poll' = poll
    PROVE  Wakes'
<1>0. row.version \in Nat /\ row.starred \in Nat /\ Cardinality(Tried \cap Starred) \in Nat
    BY TypeFacts, CountIsNat DEF RowType, Tried
<1>1. OnEvent'
    BY DEF Wakes, OnEvent, Silent
<1>2. ASSUME NEW w \in Waiters
      PROVE  Read(w)'
    <2> SUFFICES ASSUME poll[w].pc = "counts", w \in armed, Live'
                 PROVE  /\ row'.status \in {"done", "failed"} => Closing' \/ poll[w].st.status \in {"done", "failed"}
                        /\ row'.version <= poll[w].st.version \/ Closing'
                        /\ poll[w].st.starred <= row'.starred \/ Closing' \/ Unheard'
        BY DEF Read, Silent
    <2>1. poll[w].st.version \in Nat /\ poll[w].st.starred \in Nat
        BY <1>2 DEF WaitType, PollType, StateType
    <2>2. /\ row.status \in {"done", "failed"} => Closing \/ poll[w].st.status \in {"done", "failed"}
          /\ row.version <= poll[w].st.version \/ Closing
          /\ poll[w].st.starred <= row.starred \/ Closing \/ Unheard
        BY <1>2 DEF Wakes, Read, Silent
    <2> QED BY <1>0, <2>1, <2>2 DEF Silent
<1>3. ASSUME NEW w \in Waiters
      PROVE  Slept(w)'
    <2> SUFFICES ASSUME poll[w].pc = "sleep", w \in armed, Live'
                 PROVE  /\ row'.status \in {"done", "failed"} => Closing'
                        /\ Met(Current, poll[w].mode, poll[w].after)'
                             => Closing' \/ (poll[w].mode = "first_starred" /\ Unheard')
        BY DEF Slept, Silent
    <2>1. poll[w].after \in Nat
        BY <1>3 DEF WaitType, PollType
    <2>2. /\ row.status \in {"done", "failed"} => Closing
          /\ Met(Current, poll[w].mode, poll[w].after)
               => Closing \/ (poll[w].mode = "first_starred" /\ Unheard)
        BY <1>3 DEF Wakes, Slept, Silent
    <2>3. Ok' = Ok /\ Tried' = Tried
        BY DEF Silent, Ok, Tried
    <2>4. ASSUME Met(Current, poll[w].mode, poll[w].after)', ~Closing', ~(poll[w].mode = "first_starred" /\ Unheard')
          PROVE  Met(Current, poll[w].mode, poll[w].after)
        <3>1. /\ Current.version = row.version /\ Current.starred = row.starred
              /\ Current'.version = row'.version /\ Current'.starred = row'.starred
            BY DEF Current
        <3>2. row'.version <= row.version /\ row'.version \in Nat /\ row'.starred \in Nat
            BY <2>4 DEF Silent
        <3>3. poll[w].mode = "first_starred" => row'.starred >= row.starred
            BY <2>4 DEF Silent
        <3> HIDE DEF Current
        <3> QED BY <1>0, <2>1, <2>3, <2>4, <3>1, <3>2, <3>3 DEF Met
    <2> QED BY <2>2, <2>4 DEF Silent
<1> QED BY <1>1, <1>2, <1>3 DEF Wakes

(* A step that sets the event, or replaces it, leaves nobody on it. *)
LEMMA NoisyKeeps ==
    ASSUME armed' = {}
    PROVE  Wakes'
BY DEF Wakes, OnEvent, Read, Slept

LEMMA NotifyIsNoisy ==
    ASSUME Wakes, Notify \/ Unregister \/ Register
    PROVE  armed' = {}
BY DEF Wakes, OnEvent, Notify, Unregister, Register

LEMMA WakesWaiter ==
    ASSUME TypeOK, WaitType, Wakes, NEW w \in Waiters, AnyStep(w)
    PROVE  WaitType' /\ Own(w) /\ Wakes'
<1>0. row.version \in Nat /\ row.starred \in Nat /\ Cardinality(Tried \cap Starred) \in Nat
    BY TypeFacts, CountIsNat DEF RowType, Tried
<1>1. ASSUME Own(w), Read(w)', Slept(w)'
      PROVE  Wakes'
    <2>1. OnEvent'
        BY <1>1 DEF Wakes, OnEvent, Own, Beside
    <2>2. Current' = Current /\ (Live' <=> Live) /\ (Closing' <=> Closing) /\ (Unheard' <=> Unheard)
          /\ Ok' = Ok /\ Tried' = Tried
        BY <1>1 DEF Own, Beside, Current, Live, Closing, Unheard, Flying, In, Ok, Tried, Pc
    <2>3. ASSUME NEW v \in Waiters, v # w
          PROVE  Read(v)' /\ Slept(v)'
        <3>1. poll'[v] = poll[v] /\ (v \in armed' => v \in armed) /\ row' = row
            BY <1>1, <2>3 DEF Own, Beside
        <3>2. Read(v)'
            BY <2>2, <2>3, <3>1 DEF Read, Wakes
        <3>3. Slept(v)'
            BY <2>2, <2>3, <3>1 DEF Slept, Met, Wakes
        <3> QED BY <3>2, <3>3
    <2> QED BY <1>1, <2>1, <2>3 DEF Wakes
<1>2. ASSUME poll'[w].pc \notin {"counts", "sleep"}
      PROVE  Read(w)' /\ Slept(w)'
    BY <1>2 DEF Read, Slept
<1>3. CASE TakeEvent(w)
    BY <1>1, <1>2, <1>3, TakeEventFacts
<1>4. CASE WakeUp(w) \/ Deadline(w) \/ Leave(w)
    BY <1>1, <1>2, <1>4, BackFacts
<1>5. ASSUME NEW m \in Modes, Ask(w, m)
      PROVE  WaitType' /\ Own(w) /\ Wakes'
    BY <1>1, <1>2, <1>5, AskType
<1>6. CASE PeekRow(w)
    <2>1. ASSUME poll'[w].pc = "counts", poll'[w].st = Current
          PROVE  Read(w)' /\ Slept(w)'
        <3>1. row' = row
            BY <1>6, PeekRowFacts DEF Own, Beside
        <3>2. Current.version = row.version /\ Current.status = row.status /\ Current.starred = row.starred
            BY DEF Current
        <3> HIDE DEF Current
        <3> QED BY <1>0, <2>1, <3>1, <3>2 DEF Read, Slept
    <2> QED BY <1>1, <1>2, <1>6, <2>1, PeekRowFacts
<1>7. CASE PeekCounts(w)
    <2>1. Own(w) /\ WaitType' /\ poll[w].pc = "counts" /\ armed' = armed
        BY <1>7, PeekCountsFacts
    <2>2. CASE poll'[w].pc = "back"
        BY <1>1, <1>2, <2>1, <2>2
    <2>3. CASE /\ poll'[w].pc = "sleep" /\ poll'[w].mode = poll[w].mode /\ poll'[w].after = poll[w].after
               /\ ~Satisfied(poll[w].st, poll[w].mode, poll[w].after)
        <3>1. Current' = Current /\ (Live' <=> Live) /\ (Closing' <=> Closing) /\ (Unheard' <=> Unheard)
              /\ Ok' = Ok /\ Tried' = Tried /\ row' = row
            BY <2>1 DEF Own, Beside, Current, Live, Closing, Unheard, Flying, In, Ok, Tried, Pc
        <3>2. poll[w].st.version \in Nat /\ poll[w].st.starred \in Nat /\ poll[w].after \in Nat
            BY DEF WaitType, PollType, StateType
        <3>3. Current.version = row.version /\ Current.starred = row.starred
            BY DEF Current
        <3>4. ASSUME w \in armed, Live, row.status \in {"done", "failed"}
              PROVE  Closing
            BY <2>1, <2>3, <3>4 DEF Wakes, Read, Satisfied, Terminal
        <3>5. ASSUME w \in armed, Live, Met(Current, poll[w].mode, poll[w].after), ~Closing
              PROVE  poll[w].mode = "first_starred" /\ Unheard
            <4>1. row.version <= poll[w].st.version /\ (poll[w].st.starred <= row.starred \/ Unheard)
                BY <2>1, <3>5 DEF Wakes, Read
            <4>2. ~Met(poll[w].st, poll[w].mode, poll[w].after)
                BY <2>3 DEF Met, Satisfied
            <4> HIDE DEF Current
            <4> QED BY <1>0, <3>2, <3>3, <3>5, <4>1, <4>2 DEF Met
        <3>6. Read(w)'
            BY <2>3 DEF Read
        <3>7. Slept(w)'
            BY <2>1, <2>3, <3>1, <3>4, <3>5 DEF Slept, Met
        <3> QED BY <1>1, <2>1, <3>6, <3>7
    <2> QED BY <1>7, <2>2, <2>3, PeekCountsFacts
<1> QED BY <1>3, <1>4, <1>5, <1>6, <1>7 DEF AnyStep, WaiterStep

(* The one search that may write keeps whether it has been heard of; an ended one is no matter. *)
LEMMA SearchMoves ==
    ASSUME SInv, NEW j \in Jobs, Moves(j), Pc(j) # "close",
           j \in Flying \/ job'[j].pc = "idle",
           Pc(j) \in {"fan", "save", "final", "crash"} /\ In(j, {"saved"}) = {}
                => job'[j].pc \in {"fan", "save", "final", "crash"} /\ In(j, {"saved"})' = {}
    PROVE  (Closing => Closing') /\ (Unheard => Unheard')
<1>1. ASSUME Closing
      PROVE  Closing'
    <2>1. Flying = {} /\ j \notin Flying
        BY <1>1 DEF Closing
    <2>2. PICK k \in Jobs : Pc(k) = "close"
        BY <1>1 DEF Closing
    <2>3. Pc(k)' = "close"
        BY <2>2 DEF Moves, Pc
    <2>4. Flying' = {}
        BY <2>1 DEF Flying, Moves
    <2> QED BY <2>3, <2>4 DEF Closing
<1>2. ASSUME Unheard
      PROVE  Unheard'
    <2>1. PICK k \in Jobs : job[k].pc \in {"fan", "save", "final", "crash"} /\ In(k, {"saved"}) = {}
        BY <1>2 DEF Unheard
    <2>2. job'[k].pc \in {"fan", "save", "final", "crash"} /\ In(k, {"saved"})' = {}
        BY <2>1 DEF Moves, In, Pc
    <2> QED BY <2>2 DEF Unheard
<1> QED BY <1>1, <1>2

(* Steps that leave the jobs alone. *)
LEMMA JobsStay ==
    ASSUME job' = job
    PROVE  (Closing => Closing') /\ (Unheard => Unheard')
BY DEF Closing, Unheard, Flying, In, Pc

LEMMA SilentJob ==
    ASSUME TaskInv, NEW j \in Jobs, JobStep(j),
           ~(QueueCommit(j) \/ SaveResult(j) \/ Finish(j) \/ RecordCrash(j) \/ RecordCrashFails(j) \/ Close(j)),
           ~(QueueRead(j) /\ row.status # "pending")
    PROVE  Silent
<1> USE DEF TaskInv
<1>1. row.version \in Nat /\ row.starred \in Nat /\ TypeOK' /\ SInv'
    BY TypeFacts, TaskInvNext DEF RowType, Next
<1>2. ASSUME armed' = armed, event' = event, row' = row, runs' = runs, Closing => Closing', Unheard => Unheard'
      PROVE  Silent
    BY <1>1, <1>2 DEF Silent, Live
<1>3. ASSUME QueueRead(j), row.status = "pending"
      PROVE  Silent
    <2>1. Moves(j) /\ row' = row /\ runs' = runs /\ Pc(j) = "start"
        BY <1>3, QueueReadFacts
    <2>2. armed' = armed /\ event' = event
        BY <1>3 DEF QueueRead, signalVars
    <2>3. j \in Flying
        BY <2>1 DEF Flying, Pc
    <2> QED BY <1>2, <2>1, <2>2, <2>3, SearchMoves
<1>4. CASE QueueFails(j)
    <2>1. Moves(j) /\ row' = row /\ runs' = runs /\ Pc(j) = "queueing"
        BY <1>4, QueueFailsFacts
    <2>2. armed' = armed /\ event' = event
        BY <1>4 DEF QueueFails, signalVars
    <2>3. j \in Flying
        BY <2>1 DEF Flying, Pc
    <2> QED BY <1>2, <2>1, <2>2, <2>3, SearchMoves
<1>5. CASE Load(j)
    <2>1. Moves(j) /\ row' = row /\ runs' = runs /\ Pc(j) \in {"start", "queued"}
        BY <1>5, LoadFacts
    <2>2. armed' = armed /\ event' = event
        BY <1>5 DEF Load, LoadWith, signalVars
    <2>3. j \in Flying
        BY <2>1 DEF Flying, Pc
    <2> QED BY <1>2, <2>1, <2>2, <2>3, SearchMoves
<1>6. CASE Announce(j)
    <2>1. Moves(j) /\ runs' = runs /\ Pc(j) = "announce" /\ Exists /\ row'.fresh = row.fresh
        BY <1>6, AnnounceFacts
    <2>2. armed' = armed /\ event' = event
        BY <1>6 DEF Announce, signalVars
    <2>3. j \in Flying
        BY <2>1 DEF Flying, Pc
    <2>4. (Closing => Closing') /\ (Unheard => Unheard')
        BY <2>1, <2>3, SearchMoves
    <2>5. row'.version \in Nat /\ row'.starred \in Nat
        BY <1>1 DEF TypeOK
    <2>6. Live' => Live
        BY <2>1 DEF Live, Exists
    <2>7. CASE job'[j].pc = "close"
        <3>1. Closing'
            BY <2>1, <2>3, <2>7 DEF Closing, Flying, Moves, SInv, SingleFlight, Pc
        <3> QED BY <2>1, <2>2, <2>4, <2>5, <2>6, <3>1 DEF Silent
    <2>8. CASE job'[j] = StartMore(job[j]) /\ row'.status = "running" /\ row'.version = row.version
        <3>1. job[j] \in JobType /\ \A s \in Sources : job[j].phase[s] \in {"no", "candidate"}
            BY <2>1, TypeFacts DEF Searches, SearchOK, Phases, Pc
        <3>2. job'[j].pc \in {"fan", "final"} /\ In(j, {"saved"})' = {}
            BY <2>8, <3>1, StartMoreFacts DEF In
        <3>3. Unheard'
            BY <3>2 DEF Unheard
        <3> QED BY <1>1, <2>1, <2>2, <2>4, <2>5, <2>6, <2>8, <3>3 DEF Silent
    <2> QED BY <1>6, <2>7, <2>8, AnnounceFacts
<1>7. CASE Wake(j)
    <2>1. Moves(j) /\ row' = row /\ runs' = runs /\ Pc(j) = "fan" /\ job'[j].pc = "fan"
          /\ \A u \in Sources : job'[j].phase[u] = IF job[j].phase[u] = "answered" THEN "batch" ELSE job[j].phase[u]
        BY <1>7, WakeFacts
    <2>2. armed' = armed /\ event' = event
        BY <1>7 DEF Wake, signalVars
    <2>3. j \in Flying /\ In(j, {"saved"})' = In(j, {"saved"})
        BY <2>1 DEF Flying, Pc, In
    <2> QED BY <1>2, <2>1, <2>2, <2>3, SearchMoves
<1>8. ASSUME NEW s \in Sources, TakeResult(j, s)
      PROVE  Silent
    <2>1. Moves(j) /\ row' = row /\ runs' = runs /\ Pc(j) = "fan" /\ job'[j].pc = "save"
          /\ job[j].phase[s] = "batch" /\ job'[j].phase[s] = "saving"
          /\ \A u \in Sources : u # s => job'[j].phase[u] = job[j].phase[u]
        BY <1>8, TakeFacts
    <2>2. armed' = armed /\ event' = event
        BY <1>8 DEF TakeResult, signalVars
    <2>3. j \in Flying /\ In(j, {"saved"})' = In(j, {"saved"})
        BY <2>1 DEF Flying, Pc, In
    <2> QED BY <1>2, <2>1, <2>2, <2>3, SearchMoves
<1>9. CASE Crash(j)
    <2>1. Moves(j) /\ row' = row /\ runs' = runs /\ Pc(j) \in {"announce", "save", "final"} /\ job'[j].pc = "crash"
          /\ \A s \in Sources : job'[j].phase[s] = "no"
        BY <1>9, CrashFacts
    <2>2. armed' = armed /\ event' = event
        BY <1>9 DEF Crash, signalVars
    <2>3. j \in Flying /\ In(j, {"saved"})' = {}
        BY <2>1 DEF Flying, Pc, In
    <2> QED BY <1>2, <2>1, <2>2, <2>3, SearchMoves
<1>10. CASE DoneCallback(j)
    <2>1. Moves(j) /\ row' = row /\ runs' = runs /\ Pc(j) = "ended" /\ job'[j].pc = "idle"
        BY <1>10, DoneFacts DEF Idle
    <2>2. armed' = armed /\ event' = event
        BY <1>10 DEF DoneCallback, signalVars
    <2> QED BY <1>2, <2>1, <2>2, SearchMoves
<1> QED BY <1>3, <1>4, <1>5, <1>6, <1>7, <1>8, <1>9, <1>10 DEF JobStep

LEMMA SilentCleanup ==
    ASSUME TaskInv, CleanupStep
    PROVE  Silent
<1>1. row \in RowType /\ row.version \in Nat /\ row.starred \in Nat /\ cleanup \in CleanupType /\ cleanup.version \in Nat
    BY TypeFacts DEF TaskInv, RowType, CleanupType
<1>2. job' = job /\ armed' = armed /\ event' = event /\ runs' = runs
    BY DEF CleanupStep, ExpireSelect, ExpireCommit, ExpireFails, signalVars, rowVars
<1>3. CASE ExpireSelect \/ ExpireFails
    <2>1. row' = row
        BY <1>3 DEF ExpireSelect, ExpireFails, rowVars
    <2> QED BY <1>1, <1>2, <2>1, JobsStay DEF Silent, Live
<1>4. CASE ExpireCommit
    <2>1. /\ row'.status = "expired" /\ row'.version = cleanup.version + 1 /\ row'.fresh = row.fresh
          /\ row'.starred = row.starred /\ row.status # "gone" /\ cleanup.on = TRUE
        BY <1>1, <1>4 DEF ExpireCommit, RowType, CleanupType, Exists
    <2>2. row.fresh = TRUE => row'.version <= row.version
        BY <1>1, <2>1 DEF TaskInv, Versions, CleanupIsBehind
    <2>3. (Live' => Live /\ row.fresh = TRUE) /\ row'.version \in Nat
        BY <1>1, <2>1 DEF Live
    <2> QED BY <1>1, <1>2, <2>1, <2>2, <2>3, JobsStay DEF Silent
<1> QED BY <1>3, <1>4 DEF CleanupStep

LEMMA WakesTask ==
    ASSUME TaskInv, WaitType, Wakes, TaskStep
    PROVE  WaitType' /\ Wakes'
<1> USE DEF TaskInv
<1>0. row \in RowType /\ row.version \in Nat /\ row.starred \in Nat /\ restarts \in Nat
    BY TypeFacts DEF RowType
<1>1. WaitType'
    BY AwayType DEF TaskStep, WaitType
<1>2. ASSUME Silent, restarts' = restarts
      PROVE  Wakes'
    BY <1>2, SilentKeeps DEF TaskStep
<1>3. ASSUME Notify \/ Register \/ Unregister
      PROVE  Wakes'
    BY <1>3, NotifyIsNoisy, NoisyKeeps
<1>4. ASSUME job' = job, runs' = runs, row' = row, armed' = armed, event' = event, restarts' = restarts
      PROVE  Wakes'
    <2>1. Silent
        BY <1>0, <1>4, JobsStay DEF Silent, Live
    <2> QED BY <1>2, <1>4, <2>1
<1>5. ASSUME Client
      PROVE  Wakes'
    <2>1. ASSUME NEW w \in Wants, Resolve(w)
          PROVE  Wakes'
        BY <1>3, <2>1 DEF Resolve, StartTask
    <2>2. ASSUME NEW count, MoreFetch(count)
          PROVE  Wakes'
        BY <1>4, <2>2 DEF MoreFetch, rowVars, signalVars, boundVars
    <2>3. ASSUME NEW chosen, RefreshFetch(chosen)
          PROVE  Wakes'
        BY <1>4, <2>3 DEF RefreshFetch, rowVars, signalVars, boundVars
    <2> QED BY <1>5, <2>1, <2>2, <2>3 DEF Client
<1>6. CASE RequestCommit
    BY <1>1, <1>3, <1>6 DEF RequestCommit, StartTask
<1>7. CASE RequestFails
    BY <1>1, <1>4, <1>7 DEF RequestFails, rowVars, signalVars
<1>8. ASSUME NEW j \in Jobs, JobStep(j)
      PROVE  Wakes'
    <2>1. CASE QueueCommit(j) \/ SaveResult(j) \/ Finish(j) \/ RecordCrash(j) \/ RecordCrashFails(j)
        BY <1>3, <2>1 DEF QueueCommit, SaveResult, Finish, RecordCrash, RecordCrashFails
    <2>2. CASE Close(j)
        BY <1>3, <2>2 DEF Close
    <2>3. CASE QueueRead(j) /\ row.status # "pending"
        BY <1>3, <2>3 DEF QueueRead
    <2>4. restarts' = restarts
        <3>1. CASE DoneCallback(j)
            BY <3>1, DoneFacts
        <3>2. CASE ~DoneCallback(j)
            <4>1. Untouched
                BY <1>8, <3>2, QueueReadFacts, QueueCommitFacts, QueueFailsFacts, LoadFacts, AnnounceFacts, WakeFacts,
                   TakeFacts, SaveFacts, FinishFacts, CrashFacts, RecordCrashFacts, CloseFacts DEF JobStep
            <4> QED BY <4>1 DEF Untouched
        <3> QED BY <3>1, <3>2
    <2> QED BY <1>2, <1>8, <2>1, <2>2, <2>3, <2>4, SilentJob
<1>9. ASSUME NEW j \in Jobs, SomeAnswer(j)
      PROVE  Wakes'
    <2>1. PICK s \in Sources, o \in Outcomes : Answer(j, s, o)
        BY <1>9 DEF SomeAnswer
    <2>2. /\ Moves(j) /\ row' = row /\ runs' = runs /\ job'[j].pc = job[j].pc
          /\ job[j].phase[s] = "asked" /\ job'[j].phase[s] = "answered"
          /\ \A u \in Sources : u # s => job'[j].phase[u] = job[j].phase[u]
        BY <2>1, AnswerFacts
    <2>3. armed' = armed /\ event' = event /\ restarts' = restarts
        BY <2>1 DEF Answer, signalVars, boundVars
    <2>4. j \in Flying
        BY <2>2 DEF Searches, SearchOK, Phases, Flying
    <2>5. Pc(j) # "close" /\ In(j, {"saved"})' = In(j, {"saved"})
        BY <2>2, <2>4 DEF Flying, Pc, In
    <2>6. Silent
        BY <1>0, <2>2, <2>3, <2>4, <2>5, SearchMoves DEF Silent, Live, Pc
    <2> QED BY <1>2, <2>3, <2>6
<1>10. CASE CleanupStep
    <2>1. restarts' = restarts
        BY <1>10 DEF CleanupStep, ExpireSelect, ExpireCommit, ExpireFails, boundVars
    <2> QED BY <1>1, <1>2, <1>10, <2>1, SilentCleanup
<1>11. CASE Restart
    BY <1>1, <1>11, NoisyKeeps DEF Restart
<1>12. CASE TimePasses \/ Purge \/ \E s \in Sources : Toggle(s)
    <2>1. job' = job /\ armed' = armed /\ event' = event /\ restarts' = restarts
        BY <1>12 DEF TimePasses, Purge, Toggle, signalVars, boundVars
    <2>2. CASE row' = row /\ runs' = runs
        BY <1>1, <1>4, <2>1, <2>2
    <2>3. CASE ~Live'
        <3>1. Silent
            BY <2>1, <2>3, JobsStay DEF Silent
        <3> QED BY <1>1, <1>2, <2>1, <3>1
    <2>4. (row' = row /\ runs' = runs) \/ ~Live'
        BY <1>0, <1>12 DEF TimePasses, Purge, Toggle, rowVars, Live, RowType
    <2> QED BY <2>2, <2>3, <2>4
<1> QED BY <1>1, <1>5, <1>6, <1>7, <1>8, <1>9, <1>10, <1>11, <1>12 DEF TaskStep, Next, Endpoint, Environment

WaitInv == TaskInv /\ WaitType /\ Wakes /\ StarTotal

LEMMA WaitInvInit == WInit => WaitInv
<1> SUFFICES ASSUME WInit PROVE WaitInv
    OBVIOUS
<1>1. TaskInv
    BY InitType, InitSInv, VersionsInit, SearchesInit DEF WInit, TaskInv
<1>2. WaitType
    BY AwayType DEF WInit, WaitType
<1>3. Wakes
    BY DEF WInit, Init, Wakes, OnEvent, Read, Slept
<1>4. StarTotal
    BY DEF WInit, Init, Idle, StarTotal, Searching, Pc
<1> QED BY <1>1, <1>2, <1>3, <1>4 DEF WaitInv

LEMMA WaitInvNext == WaitInv /\ [WNext]_waitVars => WaitInv'
<1> SUFFICES ASSUME WaitInv, [WNext]_waitVars PROVE WaitInv'
    OBVIOUS
<1> USE DEF WaitInv
<1>1. CASE TaskStep
    <2>1. Next
        BY <1>1 DEF TaskStep
    <2>2. StarTotal'
        BY <2>1, StarNext DEF TaskInv
    <2> QED BY <1>1, <2>1, <2>2, TaskInvNext, WakesTask
<1>2. ASSUME NEW w \in Waiters, AnyStep(w)
      PROVE  WaitInv'
    <2>1. WaitType' /\ Own(w) /\ Wakes'
        BY <1>2, WakesWaiter DEF TaskInv
    <2>2. StarTotal'
        BY <2>1 DEF Own, Beside, StarTotal, Reach, Tried, Pc, Exists
    <2> QED BY <2>1, <2>2, TaskInvBeside
<1>3. CASE UNCHANGED waitVars
    <2>1. UNCHANGED vars /\ poll' = poll
        BY <1>3 DEF waitVars
    <2>2. TaskInv'
        BY <2>1, TaskInvNext
    <2>3. WaitType' /\ StarTotal'
        BY <2>1 DEF vars, WaitType, StarTotal, Reach, Tried, Pc, Exists
    <2>4. armed' = armed /\ event' = event /\ job' = job /\ row' = row /\ runs' = runs
        BY <2>1 DEF vars
    <2>5. Silent
        BY <2>4, JobsStay, TypeFacts DEF Silent, Live, TaskInv, RowType
    <2>6. Wakes'
        BY <2>1, <2>5, SilentKeeps DEF TaskInv
    <2> QED BY <2>2, <2>3, <2>6
<1> QED BY <1>1, <1>2, <1>3 DEF WNext, AnyStep

(* "Fetched BEFORE reading the state, so a change in between is never lost" (wait_for_task): a call *)
(* that sleeps on the task's event sleeps while nothing it waits for is there, whatever searches,   *)
(* requests, cleanups and restarts come between its three steps.                                    *)
THEOREM NoWakeupIsLost == WSpec => []NoLostWakeup
<1>1. WaitInv => NoLostWakeup
    <2> SUFFICES ASSUME WaitInv, NEW w \in Waiters,
                        poll[w].pc = "sleep", w \in armed, row.fresh, row.status \notin {"expired", "gone"},
                        Satisfied(Current, poll[w].mode, poll[w].after)
                 PROVE  \/ \E j \in Jobs : job[j].pc = "close"
                        \/ poll[w].mode = "first_starred" /\ Unheard
        BY DEF NoLostWakeup
    <2>1. row.fresh = TRUE
        BY TypeFacts DEF WaitInv, TaskInv, RowType
    <2>2. Live /\ Current.status = row.status /\ ~Current.expired
        BY <2>1 DEF Live, Current
    <2>3. /\ row.status \in {"done", "failed"} => Closing
          /\ Met(Current, poll[w].mode, poll[w].after)
               => Closing \/ (poll[w].mode = "first_starred" /\ Unheard)
        BY <2>2 DEF WaitInv, Wakes, Slept
    <2>4. row.status \in {"done", "failed"} \/ Met(Current, poll[w].mode, poll[w].after)
        BY <2>2 DEF Satisfied, Terminal, Met
    <2> QED BY <2>3, <2>4 DEF Closing, Pc
<1> QED BY <1>1, WaitInvInit, WaitInvNext, PTL DEF WSpec

(* "Fall back as soon as no starred source can add one anymore" (satisfied): once a search has saved *)
(* a result, a client that prefers starred sources does not sleep on while there are streams and no  *)
(* starred source is running or still to be asked.                                                   *)
THEOREM StarredIsNoTrap == WSpec => []StarFallback
<1>1. WaitInv => StarFallback
    <2> SUFFICES ASSUME WaitInv, NEW w \in Waiters, NEW j \in Jobs,
                        job[j].pc = "fan",
                        In(j, {"candidate", "asked", "answered", "batch"}) \cap Starred = {},
                        In(j, {"saved"}) # {}, row.fresh, row.status # "gone", Ok # {},
                        poll[w].pc = "sleep", poll[w].mode = "first_starred", w \in armed
                 PROVE  FALSE
        BY DEF StarFallback
    <2> USE DEF WaitInv, TaskInv
    <2>1. row.fresh = TRUE /\ row.starred \in Nat
        BY TypeFacts DEF RowType
    <2>2. j \in Flying
        BY DEF Flying
    <2>3. Exists
        BY <2>2 DEF SInv, SettledHasNoJob, Exists
    <2>4. Starred \cap Reach(j) = Tried \cap Starred
        <3>1. In(j, {"saving"}) = {}
            BY DEF Searches, SearchOK, Phases, In
        <3> QED BY <3>1 DEF Reach, Of, Todo, In
    <2>5. row.starred = Cardinality(Tried \cap Starred)
        BY <2>3, <2>4 DEF StarTotal, Searching, Pc
    <2>6. Current.starred = row.starred
        BY DEF Current
    <2>7. Met(Current, poll[w].mode, poll[w].after)
        BY <2>1, <2>5, <2>6 DEF Met
    <2>8. Closing \/ Unheard
        BY <2>1, <2>7 DEF Wakes, Slept, Live
    <2>9. ~Unheard
        BY <2>2 DEF Unheard, SInv, SingleFlight, Flying
    <2> QED BY <2>2, <2>8, <2>9 DEF Closing
<1> QED BY <1>1, WaitInvInit, WaitInvNext, PTL DEF WSpec
=============================================================================
