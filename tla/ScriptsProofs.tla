---------------------------- MODULE ScriptsProofs ----------------------------
(***************************************************************************)
(* Theorems about the two services that hand out a bounded number of       *)
(* slots, for any number of users and slots.  Runs of scripts: the figures *)
(* of BrowserSlots are exact and no script outlives its run.  Audio: the   *)
(* permits of the endpoint are with those that took them.                  *)
(***************************************************************************)
EXTENDS Scripts, Audio, FiniteSetTheorems, TLAPS

USE ScriptsAssumption DEF Runs

InLine == {r \in Runs : at[r] = "browser"}

(* Only browser sources stand in that line, and the slots are with those that are past it.       *)
LineOK ==
    /\ InLine \subseteq Heavy
    /\ hasSlot = {r \in Heavy : at[r] \in {"turn", "launch", "run", "clean"}}
    /\ hasTurn = {r \in TaskRuns : at[r] \in {"launch", "run", "clean"}}

FiguresOK ==
    /\ slots.waiting = Cardinality(InLine)
    /\ slots.running = Cardinality(hasSlot)
    /\ Cardinality(hasSlot) <= MaxBrowsers
    /\ Cardinality(hasTurn) <= MaxParallel

(* The script of a run exists from its launch on, and is not alive when run_script is through.   *)
ProcessOf(r) ==
    /\ at[r] \in {"none", "meta", "browser", "turn", "launch"} => script[r] = "none" /\ r \notin sandbox
    /\ at[r] = "clean" => script[r] # "alive"
    /\ at[r] = "done" => script[r] # "alive" /\ (r \in sandbox => script[r] = "killed")

ProcessOK == \A r \in Runs : ProcessOf(r)

(* The inductive invariant. *)
ScrInv == ScriptsTypeOK /\ LineOK /\ FiguresOK /\ ProcessOK

-----------------------------------------------------------------------------
LEMMA RunsFinite == IsFiniteSet(Runs) /\ \A S \in SUBSET Runs : IsFiniteSet(S) /\ Cardinality(S) \in Nat
<1>1. IsFiniteSet(Runs)
    BY FS_Union
<1> QED
    BY <1>1, FS_Subset, FS_CardinalityType

(* A run waits for a browser slot only if it is heavy, then for its turn, then it starts. *)
LEMMA WaypointFacts ==
    ASSUME NEW r \in Runs
    PROVE  /\ Waypoints(r)[1] = IF r \in Heavy THEN "browser" ELSE "turn"
           /\ r \in Heavy => Waypoints(r)[After(r, "browser")] = "turn"
           /\ Waypoints(r)[After(r, "turn")] = "launch"
<1>1. CASE r \in Heavy
    <2> DEFINE w == <<"browser", "turn", "launch">>
    <2>1. Waypoints(r) = w /\ DOMAIN w = 1..3 /\ w[1] = "browser" /\ w[2] = "turn" /\ w[3] = "launch"
        BY <1>1 DEF Waypoints
    <2> HIDE DEF w
    <2>2. (CHOOSE k \in DOMAIN w : w[k] = "browser") = 1
        BY <2>1
    <2>3. (CHOOSE k \in DOMAIN w : w[k] = "turn") = 2
        BY <2>1
    <2> QED
        BY <1>1, <2>1, <2>2, <2>3 DEF After
<1>2. CASE r \notin Heavy
    <2> DEFINE w == <<"turn", "launch">>
    <2>1. Waypoints(r) = w /\ DOMAIN w = 1..2 /\ w[1] = "turn" /\ w[2] = "launch"
        BY <1>2 DEF Waypoints
    <2> HIDE DEF w
    <2>2. (CHOOSE k \in DOMAIN w : w[k] = "turn") = 1
        BY <2>1
    <2> QED
        BY <1>2, <2>1, <2>2 DEF After
<1> QED
    BY <1>1, <1>2

Stands(where) == IF where = "browser" THEN 1 ELSE 0

(* How a move of one run changes the length of the line. *)
LEMMA LineMoves ==
    ASSUME ScriptsTypeOK, NEW r \in Runs, NEW where \in RunPlaces, Move(r, where)
    PROVE  /\ at' \in [Runs -> RunPlaces]
           /\ \A q \in Runs : at'[q] = IF q = r THEN where ELSE at[q]
           /\ Cardinality(InLine) \in Nat /\ Cardinality(InLine') \in Nat
           /\ Cardinality(InLine') = Cardinality(InLine) + Stands(where) - Stands(at[r])
<1>1. at' \in [Runs -> RunPlaces] /\ \A q \in Runs : at'[q] = IF q = r THEN where ELSE at[q]
    BY DEF ScriptsTypeOK, Move
<1>2. InLine \in SUBSET Runs /\ InLine' \in SUBSET Runs
    BY DEF InLine
<1>3. IsFiniteSet(InLine) /\ IsFiniteSet(InLine \ {r}) /\ Cardinality(InLine) \in Nat /\ Cardinality(InLine') \in Nat
    BY <1>2, RunsFinite, FS_RemoveElement
<1>4. InLine' = IF where = "browser" THEN (InLine \ {r}) \cup {r} ELSE InLine \ {r}
    BY <1>1 DEF InLine
<1>5. r \in InLine <=> at[r] = "browser"
    BY DEF InLine
<1>6. Cardinality(InLine \ {r}) = IF at[r] = "browser" THEN Cardinality(InLine) - 1 ELSE Cardinality(InLine)
    BY <1>3, <1>5, FS_RemoveElement
<1>7. Cardinality((InLine \ {r}) \cup {r}) = Cardinality(InLine \ {r}) + 1
    BY <1>3, FS_AddElement
<1> QED
    BY <1>1, <1>3, <1>4, <1>6, <1>7 DEF Stands

(* The books of the slots, whatever a run does: it takes or gives back at most its own.          *)
LEMMA SetsMove ==
    ASSUME ScriptsTypeOK, NEW r \in Runs
    PROVE  /\ \A S \in {hasSlot, hasTurn} :
                /\ IsFiniteSet(S) /\ Cardinality(S) \in Nat
                /\ Cardinality(S \cup {r}) = IF r \in S THEN Cardinality(S) ELSE Cardinality(S) + 1
                /\ Cardinality(S \ {r}) = IF r \in S THEN Cardinality(S) - 1 ELSE Cardinality(S)
<1> SUFFICES ASSUME NEW S \in {hasSlot, hasTurn}
             PROVE  /\ IsFiniteSet(S) /\ Cardinality(S) \in Nat
                    /\ Cardinality(S \cup {r}) = IF r \in S THEN Cardinality(S) ELSE Cardinality(S) + 1
                    /\ Cardinality(S \ {r}) = IF r \in S THEN Cardinality(S) - 1 ELSE Cardinality(S)
    OBVIOUS
<1>1. S \in SUBSET Runs
    BY DEF ScriptsTypeOK
<1>2. IsFiniteSet(S) /\ Cardinality(S) \in Nat
    BY <1>1, RunsFinite
<1> QED
    BY <1>2, FS_AddElement, FS_RemoveElement

-----------------------------------------------------------------------------
(* A run that only waits goes from place to place; nothing happens to scripts. *)
LEMMA WaitsKeep ==
    ASSUME ScrInv, NEW r \in Runs, UNCHANGED <<script, kids, sandbox, hung, hasSlot, hasTurn>>,
           NEW where \in {"meta", "browser", "turn", "done"}, Move(r, where),
           at[r] \in {"none", "meta"},
           where = "browser" => r \in Heavy,
           where = "turn" => r \notin Heavy,
           slots' = [slots EXCEPT !.waiting = @ + (IF where = "browser" THEN 1 ELSE 0)]
    PROVE  ScrInv'
<1>1. where \in RunPlaces
    BY DEF RunPlaces
<1>2. /\ at' \in [Runs -> RunPlaces]
      /\ \A q \in Runs : at'[q] = IF q = r THEN where ELSE at[q]
      /\ Cardinality(InLine) \in Nat /\ Cardinality(InLine') \in Nat
      /\ Cardinality(InLine') = Cardinality(InLine) + Stands(where)
    <2>1. /\ at' \in [Runs -> RunPlaces]
          /\ \A q \in Runs : at'[q] = IF q = r THEN where ELSE at[q]
          /\ Cardinality(InLine) \in Nat /\ Cardinality(InLine') \in Nat
          /\ Cardinality(InLine') = Cardinality(InLine) + Stands(where) - Stands(at[r])
        BY <1>1, LineMoves DEF ScrInv
    <2>2. Stands(at[r]) = 0 /\ Stands(where) \in Nat
        BY DEF Stands
    <2> QED BY <2>1, <2>2
<1>3. slots' \in [waiting : Nat, running : Nat] /\ slots'.running = slots.running
      /\ slots'.waiting = slots.waiting + (IF where = "browser" THEN 1 ELSE 0)
    BY DEF ScrInv, ScriptsTypeOK
<1>4. ScriptsTypeOK'
    BY <1>2, <1>3 DEF ScrInv, ScriptsTypeOK
<1>5. LineOK'
    BY <1>2 DEF ScrInv, LineOK, InLine
<1>6. FiguresOK'
    BY <1>2, <1>3 DEF ScrInv, FiguresOK, Stands
<1>7. ProcessOK'
    BY <1>2 DEF ScrInv, ProcessOK, ProcessOf
<1> QED
    BY <1>4, <1>5, <1>6, <1>7 DEF ScrInv

LEMMA ArrivesKeeps ==
    ASSUME ScrInv, NEW r \in Runs, BeginRun(r) \/ MetaArrives(r) \/ MetaFails(r) \/ StartTest(r)
    PROVE  ScrInv'
<1>1. CASE BeginRun(r) \/ MetaArrives(r)
    <2> DEFINE where == IF r \in Heavy THEN "browser" ELSE "turn"
    <2>1. Move(r, where) /\ slots' = [slots EXCEPT !.waiting = @ + (IF where = "browser" THEN 1 ELSE 0)]
        BY <1>1, WaypointFacts DEF BeginRun, MetaArrives, Enter
    <2>2. /\ UNCHANGED <<script, kids, sandbox, hung, hasSlot, hasTurn>>
          /\ at[r] \in {"none", "meta"} /\ where \in {"meta", "browser", "turn", "done"}
          /\ where = "browser" => r \in Heavy /\ (where = "turn" => r \notin Heavy)
        BY <1>1 DEF BeginRun, MetaArrives, procVars
    <2>3. where = "turn" => r \notin Heavy
        OBVIOUS
    <2> HIDE DEF where
    <2> QED
        BY <2>1, <2>2, <2>3, WaitsKeep
<1>2. CASE MetaFails(r) \/ StartTest(r)
    <2>1. PICK where \in {"meta", "done"} : Move(r, where)
        BY <1>2 DEF MetaFails, StartTest
    <2>2. slots' = [slots EXCEPT !.waiting = @ + (IF where = "browser" THEN 1 ELSE 0)]
        BY <1>2, <2>1 DEF MetaFails, StartTest, slotVars, ScrInv, ScriptsTypeOK
    <2>3. UNCHANGED <<script, kids, sandbox, hung, hasSlot, hasTurn>> /\ at[r] \in {"none", "meta"}
        BY <1>2 DEF MetaFails, StartTest, procVars, slotVars
    <2> QED
        BY <2>1, <2>2, <2>3, WaitsKeep
<1> QED
    BY <1>1, <1>2

LEMMA GetSlotKeeps ==
    ASSUME ScrInv, NEW r \in Runs, GetSlot(r)
    PROVE  ScrInv'
<1>1. r \in Heavy /\ r \in InLine /\ at[r] = "browser"
    BY DEF GetSlot, ScrInv, LineOK, InLine
<1>2. Move(r, "turn")
    BY <1>1, WaypointFacts DEF GetSlot, Enter
<1>3. /\ at' \in [Runs -> RunPlaces]
      /\ \A q \in Runs : at'[q] = IF q = r THEN "turn" ELSE at[q]
      /\ Cardinality(InLine) \in Nat /\ Cardinality(InLine') \in Nat
      /\ Cardinality(InLine') = Cardinality(InLine) - 1
    <2>1. "turn" \in RunPlaces
        BY DEF RunPlaces
    <2>2. /\ at' \in [Runs -> RunPlaces]
          /\ \A q \in Runs : at'[q] = IF q = r THEN "turn" ELSE at[q]
          /\ Cardinality(InLine) \in Nat /\ Cardinality(InLine') \in Nat
          /\ Cardinality(InLine') = Cardinality(InLine) + Stands("turn") - Stands(at[r])
        BY <1>2, <2>1, LineMoves DEF ScrInv
    <2>3. Stands(at[r]) = 1 /\ Stands("turn") = 0
        BY <1>1 DEF Stands
    <2> QED BY <2>2, <2>3
<1>4. slots' = [waiting |-> slots.waiting - 1, running |-> slots.running + 1]
    <2>1. Waypoints(r)[After(r, "browser")] = "turn"
        BY <1>1, WaypointFacts
    <2> QED BY <2>1 DEF GetSlot, Enter, ScrInv, ScriptsTypeOK
<1>5. hasSlot' = hasSlot \cup {r} /\ r \notin hasSlot /\ Cardinality(hasSlot) < MaxBrowsers /\ hasTurn' = hasTurn
    BY <1>1 DEF GetSlot, ScrInv, LineOK
<1>6. Cardinality(hasSlot') = Cardinality(hasSlot) + 1 /\ Cardinality(hasSlot) \in Nat
    BY <1>5, SetsMove DEF ScrInv
<1>7. ScriptsTypeOK'
    BY <1>3, <1>4, <1>5, <1>6 DEF GetSlot, procVars, ScrInv, ScriptsTypeOK, FiguresOK
<1>8. LineOK'
    BY <1>1, <1>3, <1>5 DEF ScrInv, LineOK, InLine
<1>9. FiguresOK'
    BY <1>3, <1>4, <1>5, <1>6 DEF ScrInv, FiguresOK
<1>10. ProcessOK'
    BY <1>1, <1>3 DEF GetSlot, procVars, ScrInv, ProcessOK, ProcessOf
<1> QED
    BY <1>7, <1>8, <1>9, <1>10 DEF ScrInv

LEMMA GetTurnKeeps ==
    ASSUME ScrInv, NEW r \in Runs, GetTurn(r)
    PROVE  ScrInv'
<1>1. Move(r, "launch") /\ at[r] = "turn"
    BY WaypointFacts DEF GetTurn, Enter
<1>2. /\ at' \in [Runs -> RunPlaces]
      /\ \A q \in Runs : at'[q] = IF q = r THEN "launch" ELSE at[q]
      /\ Cardinality(InLine) \in Nat /\ Cardinality(InLine') = Cardinality(InLine)
    <2>1. "launch" \in RunPlaces
        BY DEF RunPlaces
    <2>2. /\ at' \in [Runs -> RunPlaces]
          /\ \A q \in Runs : at'[q] = IF q = r THEN "launch" ELSE at[q]
          /\ Cardinality(InLine) \in Nat /\ Cardinality(InLine') \in Nat
          /\ Cardinality(InLine') = Cardinality(InLine) + Stands("launch") - Stands(at[r])
        BY <1>1, <2>1, LineMoves DEF ScrInv
    <2>3. Stands(at[r]) = 0 /\ Stands("launch") = 0
        BY <1>1 DEF Stands
    <2> QED BY <2>2, <2>3
<1>3. slots' = slots /\ UNCHANGED <<script, kids, sandbox, hung, hasSlot>>
    BY WaypointFacts DEF GetTurn, Enter, procVars, ScrInv, ScriptsTypeOK
<1>4. \/ r \in Tests /\ hasTurn' = hasTurn
      \/ r \in TaskRuns /\ Cardinality(hasTurn) < MaxParallel /\ hasTurn' = hasTurn \cup {r}
    BY DEF GetTurn
<1>5. Cardinality(hasTurn') <= MaxParallel
    <2>1. /\ Cardinality(hasTurn) \in Nat /\ Cardinality(hasTurn) <= MaxParallel
          /\ Cardinality(hasTurn \cup {r}) = IF r \in hasTurn THEN Cardinality(hasTurn) ELSE Cardinality(hasTurn) + 1
        BY SetsMove DEF ScrInv, FiguresOK
    <2> QED BY <1>4, <2>1
<1>6. ScriptsTypeOK'
    BY <1>2, <1>3, <1>4 DEF ScrInv, ScriptsTypeOK
<1>7. LineOK'
    BY <1>1, <1>2, <1>3, <1>4 DEF ScrInv, LineOK, InLine
<1>8. FiguresOK'
    BY <1>2, <1>3, <1>5 DEF ScrInv, FiguresOK
<1>9. ProcessOK'
    BY <1>1, <1>2, <1>3 DEF ScrInv, ProcessOK, ProcessOf
<1> QED
    BY <1>6, <1>7, <1>8, <1>9 DEF ScrInv

-----------------------------------------------------------------------------
(* While run_script is at work the run keeps its slots. *)
LEMMA RunningKeeps ==
    ASSUME ScrInv, NEW r \in Runs, UNCHANGED <<hasSlot, hasTurn, slots>>,
           at[r] \in {"launch", "run", "clean"}, NEW where \in {"launch", "run", "clean"}, Move(r, where),
           script' \in [Runs -> {"none", "alive", "exited", "killed"}],
           {kids', sandbox', hung'} \subseteq SUBSET Runs,
           \A q \in Runs \ {r} : script'[q] = script[q] /\ (q \in sandbox' <=> q \in sandbox),
           where = "launch" => script'[r] = "none" /\ r \notin sandbox',
           where = "clean" => script'[r] # "alive"
    PROVE  ScrInv'
<1>1. /\ at' \in [Runs -> RunPlaces]
      /\ \A q \in Runs : at'[q] = IF q = r THEN where ELSE at[q]
      /\ Cardinality(InLine) \in Nat /\ Cardinality(InLine') = Cardinality(InLine)
    <2>1. where \in RunPlaces
        BY DEF RunPlaces
    <2>2. /\ at' \in [Runs -> RunPlaces]
          /\ \A q \in Runs : at'[q] = IF q = r THEN where ELSE at[q]
          /\ Cardinality(InLine) \in Nat /\ Cardinality(InLine') \in Nat
          /\ Cardinality(InLine') = Cardinality(InLine) + Stands(where) - Stands(at[r])
        BY <2>1, LineMoves DEF ScrInv
    <2>3. Stands(at[r]) = 0 /\ Stands(where) = 0
        BY DEF Stands
    <2> QED BY <2>2, <2>3
<1>2. ScriptsTypeOK'
    BY <1>1 DEF ScrInv, ScriptsTypeOK
<1>3. LineOK'
    BY <1>1 DEF ScrInv, LineOK, InLine
<1>4. FiguresOK'
    BY <1>1 DEF ScrInv, FiguresOK
<1>5. ProcessOK'
    BY <1>1 DEF ScrInv, ProcessOK, ProcessOf
<1> QED
    BY <1>2, <1>3, <1>4, <1>5 DEF ScrInv

LEMMA LaunchKeeps ==
    ASSUME ScrInv, NEW r \in Runs, Launch(r)
    PROVE  ScrInv'
<1>1. /\ at[r] = "launch" /\ script[r] = "none"
      /\ script \in [Runs -> {"none", "alive", "exited", "killed"}]
      /\ {kids, sandbox, hung} \subseteq SUBSET Runs
    BY DEF Launch, ScrInv, ScriptsTypeOK, ProcessOK, ProcessOf
<1>2. UNCHANGED <<hasSlot, hasTurn, slots, kids, hung>> /\ sandbox' = sandbox \cup {r}
    BY DEF Launch, slotVars
<1>3. CASE script' = [script EXCEPT ![r] = "alive"] /\ Move(r, "run")
    BY <1>1, <1>2, <1>3, RunningKeeps
<1>4. CASE UNCHANGED script /\ Move(r, "clean")
    BY <1>1, <1>2, <1>4, RunningKeeps
<1> QED
    BY <1>3, <1>4 DEF Launch

LEMMA CleanupKeeps ==
    ASSUME ScrInv, NEW r \in Runs, at[r] = "run", Cleanup(r),
           hung' \in SUBSET Runs, UNCHANGED <<sandbox, hasSlot, hasTurn, slots>>
    PROVE  ScrInv'
<1>1. script \in [Runs -> {"none", "alive", "exited", "killed"}] /\ {kids, sandbox, hung} \subseteq SUBSET Runs
    BY DEF ScrInv, ScriptsTypeOK
<1>2. /\ script' \in [Runs -> {"none", "alive", "exited", "killed"}] /\ script'[r] # "alive"
      /\ \A q \in Runs \ {r} : script'[q] = script[q]
      /\ kids' \in SUBSET Runs
    BY <1>1 DEF Cleanup
<1> QED
    BY <1>1, <1>2, RunningKeeps DEF Cleanup

(* What a script does by itself. *)
LEMMA ScriptKeeps ==
    ASSUME ScrInv, NEW r \in Runs, ScriptForks(r) \/ ScriptExits(r)
    PROVE  ScrInv'
<1>1. /\ script \in [Runs -> {"none", "alive", "exited", "killed"}]
      /\ {kids, sandbox, hung} \subseteq SUBSET Runs /\ script[r] = "alive"
    BY DEF ScriptForks, ScriptExits, ScrInv, ScriptsTypeOK
<1>2. at[r] = "run"
    BY <1>1 DEF ScrInv, ScriptsTypeOK, RunPlaces, ProcessOK, ProcessOf
<1>3. /\ Move(r, "run")
      /\ UNCHANGED <<sandbox, hung, hasSlot, hasTurn, slots>> /\ kids' \in SUBSET Runs
      /\ script' \in [Runs -> {"none", "alive", "exited", "killed"}]
      /\ \A q \in Runs \ {r} : script'[q] = script[q]
    BY <1>1, <1>2 DEF ScriptForks, ScriptExits, slotVars, Move, ScrInv, ScriptsTypeOK
<1> QED
    BY <1>1, <1>2, <1>3, RunningKeeps

-----------------------------------------------------------------------------
(* The end of a run, wherever it is: it leaves the line and gives back the slots it has.         *)
LEMMA EndKeeps ==
    ASSUME ScrInv, NEW r \in Runs, at[r] # "done", Move(r, "done"),
           hasTurn' = hasTurn \ {r}, hasSlot' = hasSlot \ {r},
           slots' = [waiting |-> slots.waiting - (IF at[r] = "browser" THEN 1 ELSE 0),
                     running |-> slots.running - (IF r \in hasSlot THEN 1 ELSE 0)],
           UNCHANGED <<script, kids, hung>>, sandbox' \in {sandbox, sandbox \ {r}},
           script[r] # "alive", r \in sandbox' => script[r] = "killed"
    PROVE  ScrInv'
<1>1. /\ at' \in [Runs -> RunPlaces]
      /\ \A q \in Runs : at'[q] = IF q = r THEN "done" ELSE at[q]
      /\ Cardinality(InLine) \in Nat /\ Cardinality(InLine') \in Nat
      /\ Cardinality(InLine') = Cardinality(InLine) - Stands(at[r])
    <2>1. "done" \in RunPlaces
        BY DEF RunPlaces
    <2>2. /\ at' \in [Runs -> RunPlaces]
          /\ \A q \in Runs : at'[q] = IF q = r THEN "done" ELSE at[q]
          /\ Cardinality(InLine) \in Nat /\ Cardinality(InLine') \in Nat
          /\ Cardinality(InLine') = Cardinality(InLine) + Stands("done") - Stands(at[r])
        BY <2>1, LineMoves DEF ScrInv
    <2>3. Stands("done") = 0 /\ Stands(at[r]) \in Nat
        BY DEF Stands
    <2> QED BY <2>2, <2>3
<1>2. /\ Cardinality(hasSlot) \in Nat /\ Cardinality(hasTurn) \in Nat
      /\ Cardinality(hasSlot') = IF r \in hasSlot THEN Cardinality(hasSlot) - 1 ELSE Cardinality(hasSlot)
      /\ Cardinality(hasTurn') = IF r \in hasTurn THEN Cardinality(hasTurn) - 1 ELSE Cardinality(hasTurn)
    BY SetsMove DEF ScrInv
<1>3. hasSlot' \in SUBSET Runs /\ Cardinality(hasSlot') \in Nat
    BY RunsFinite DEF ScrInv, ScriptsTypeOK
<1>4. slots' = [waiting |-> Cardinality(InLine'), running |-> Cardinality(hasSlot')]
    <2>1. slots.waiting = Cardinality(InLine) /\ slots.running = Cardinality(hasSlot)
        BY DEF ScrInv, FiguresOK
    <2>2. Cardinality(InLine') = slots.waiting - (IF at[r] = "browser" THEN 1 ELSE 0)
        BY <1>1, <2>1 DEF Stands
    <2>3. Cardinality(hasSlot') = slots.running - (IF r \in hasSlot THEN 1 ELSE 0)
        BY <1>2, <2>1
    <2> QED BY <2>2, <2>3
<1>5. ScriptsTypeOK'
    BY <1>1, <1>3, <1>4 DEF ScrInv, ScriptsTypeOK
<1>6. LineOK'
    BY <1>1 DEF ScrInv, LineOK, InLine
<1>7. FiguresOK'
    BY <1>2, <1>4 DEF ScrInv, FiguresOK
<1>8. ProcessOK'
    BY <1>1 DEF ScrInv, ProcessOK, ProcessOf
<1> QED
    BY <1>5, <1>6, <1>7, <1>8 DEF ScrInv

LEMMA EndsKeep ==
    ASSUME ScrInv, NEW r \in Runs, RunEnds(r) \/ CancelWaiting(r) \/ CancelCleaning(r)
    PROVE  ScrInv'
<1>1. CASE CancelWaiting(r)
    BY <1>1, EndKeeps DEF CancelWaiting, Waits, procVars, ScrInv, ProcessOK, ProcessOf
<1>2. CASE RunEnds(r) \/ CancelCleaning(r)
    <2>1. at[r] = "clean" /\ script[r] # "alive" /\ LeaveSlots(r) /\ Move(r, "done")
        BY <1>2 DEF RunEnds, CancelCleaning, ScrInv, ProcessOK, ProcessOf
    <2>2. slots' = [waiting |-> slots.waiting - (IF at[r] = "browser" THEN 1 ELSE 0),
                    running |-> slots.running - (IF r \in hasSlot THEN 1 ELSE 0)]
        BY <2>1 DEF LeaveSlots, ScrInv, ScriptsTypeOK
    <2> QED
        BY <1>2, <2>1, <2>2, EndKeeps DEF RunEnds, CancelCleaning, LeaveSlots, procVars
<1> QED
    BY <1>1, <1>2

-----------------------------------------------------------------------------
LEMMA ScrInvInit == ScriptsInit => ScrInv
<1> SUFFICES ASSUME ScriptsInit PROVE ScrInv
    OBVIOUS
<1>1. Cardinality({}) = 0 /\ InLine = {}
    BY FS_EmptySet DEF ScriptsInit, InLine
<1>2. ScriptsTypeOK
    BY DEF ScriptsInit, ScriptsTypeOK, RunPlaces
<1>3. LineOK
    BY <1>1 DEF ScriptsInit, LineOK
<1>4. FiguresOK
    BY <1>1 DEF ScriptsInit, FiguresOK
<1>5. ProcessOK
    BY DEF ScriptsInit, ProcessOK, ProcessOf
<1> QED
    BY <1>2, <1>3, <1>4, <1>5 DEF ScrInv

LEMMA ScrInvNext == ScrInv /\ [ScriptsNext]_scriptVars => ScrInv'
<1> SUFFICES ASSUME ScrInv, [ScriptsNext]_scriptVars PROVE ScrInv'
    OBVIOUS
<1>1. ASSUME NEW r \in Runs, StartTest(r) \/ BeginRun(r) \/ MetaArrives(r) \/ MetaFails(r)
      PROVE  ScrInv'
    BY <1>1, ArrivesKeeps
<1>2. ASSUME NEW r \in Runs, GetSlot(r) \/ GetTurn(r)
      PROVE  ScrInv'
    BY <1>2, GetSlotKeeps, GetTurnKeeps
<1>3. ASSUME NEW r \in Runs, Launch(r)
      PROVE  ScrInv'
    BY <1>3, LaunchKeeps
<1>4. ASSUME NEW r \in Runs, Collected(r) \/ TimedOut(r) \/ CancelRunning(r)
      PROVE  ScrInv'
    <2>1. hung \in SUBSET Runs
        BY DEF ScrInv, ScriptsTypeOK
    <2> QED
        BY <1>4, <2>1, CleanupKeeps DEF Collected, TimedOut, CancelRunning, slotVars
<1>5. ASSUME NEW r \in Runs, RunEnds(r) \/ CancelWaiting(r) \/ CancelCleaning(r)
      PROVE  ScrInv'
    BY <1>5, EndsKeep
<1>6. ASSUME NEW r \in Runs, ScriptForks(r) \/ ScriptExits(r)
      PROVE  ScrInv'
    BY <1>6, ScriptKeeps
<1>7. CASE UNCHANGED scriptVars
    <2>1. InLine' = InLine
        BY <1>7 DEF scriptVars, InLine
    <2> QED
        BY <1>7, <2>1 DEF scriptVars, ScrInv, ScriptsTypeOK, LineOK, FiguresOK, ProcessOK, ProcessOf
<1> QED
    BY <1>1, <1>2, <1>3, <1>4, <1>5, <1>6, <1>7 DEF ScriptsNext, RunStep, CancelRun

LEMMA ScrInvAlways == ScriptsSpec => []ScrInv
    BY ScrInvInit, ScrInvNext, PTL DEF ScriptsSpec

-----------------------------------------------------------------------------
(* BrowserSlots (app/scheduler.py): `waiting` and `running` count exactly the browser sources    *)
(* that wait and those that have a slot, never more than max_browser_scripts, wherever a run is  *)
(* cancelled; so no permit is ever lost.                                                         *)
THEOREM BrowserSlotsExact == ScriptsSpec => []SlotsExact
<1>1. ScrInv => SlotsExact
    BY DEF ScrInv, LineOK, FiguresOK, SlotsExact, InLine
<1> QED
    BY <1>1, ScrInvAlways, PTL

(* run_script (app/runner.py): however a run ends, its script is not running any more, and only  *)
(* a second cancellation during the clean-up leaves its sandbox behind.                          *)
THEOREM ScriptsDieWithTheirRun == ScriptsSpec => []ScriptsDie
<1>1. ScrInv => ScriptsDie
    BY DEF ScrInv, ProcessOK, ProcessOf, ScriptsDie
<1> QED
    BY <1>1, ScrInvAlways, PTL

(* resolver._run takes the browser slot before its task's semaphore: "a queued browser source    *)
(* never blocks the light sources of its own task".                                              *)
THEOREM LightSourcesRun == ScriptsSpec => []LightNotBlocked
<1>1. ScrInv => LightNotBlocked
    BY DEF ScrInv, LineOK, LightNotBlocked
<1> QED
    BY <1>1, ScrInvAlways, PTL

-----------------------------------------------------------------------------
(* The permits of the audio endpoint. *)

(* Who has a permit, by the place a request is at: from the probe to the body it holds one, in   *)
(* the background task it took one, which body() may have given back.                            *)
Placed ==
    /\ released \subseteq taken
    /\ \A r \in Listeners :
        /\ stage[r] \in {"probe", "spawn", "first", "answered", "streams"} => r \in taken \ released
        /\ stage[r] = "background" => r \in taken
        /\ stage[r] = "none" => r \notin taken

(* The inductive invariant. *)
AInv == AudioTypeOK /\ IsFiniteSet(taken) /\ Placed /\ AudioPermits

USE AudioAssumption

-----------------------------------------------------------------------------
(* release() of a request that took a permit: the first time the permit comes back, every other  *)
(* time nothing does.                                                                            *)
LEMMA GiveBackKeeps ==
    ASSUME AInv, NEW r \in Listeners, r \in taken, GiveBack(r)
    PROVE  /\ released' \subseteq taken' /\ taken' = taken /\ released' = released \cup {r}
           /\ released' \in SUBSET Listeners /\ encoder' \in SUBSET Listeners /\ free' \in Nat
           /\ AudioPermits'
<1>1. IsFiniteSet(taken \ released)
    BY FS_Difference DEF AInv
<1>2. CASE r \in released
    <2>1. free' = free /\ taken' \ released' = taken \ released
        BY <1>2 DEF GiveBack
    <2> QED
        BY <1>2, <2>1 DEF GiveBack, AInv, AudioTypeOK, AudioPermits, Placed
<1>3. CASE r \notin released
    <2>1. free' = free + 1 /\ taken' \ released' = (taken \ released) \ {r}
        BY <1>3 DEF GiveBack
    <2>2. Cardinality((taken \ released) \ {r}) = Cardinality(taken \ released) - 1
        BY <1>1, <1>3, FS_RemoveElement
    <2>3. Cardinality(taken \ released) \in Nat
        BY <1>1, FS_CardinalityType
    <2>4. free' + Cardinality(taken' \ released') = AudioConcurrency
        <3>1. free + Cardinality(taken \ released) = AudioConcurrency /\ free \in Nat
            BY DEF AInv, AudioTypeOK, AudioPermits
        <3>2. free' = free + 1 /\ Cardinality(taken' \ released') = Cardinality(taken \ released) - 1
            BY <2>1, <2>2
        <3> QED
            BY <2>3, <3>1, <3>2 DEF AudioAssumption
    <2>5. encoder' \subseteq taken' \ released'
        BY DEF GiveBack, AInv, AudioPermits
    <2>6. free' \in Nat
        BY <2>1 DEF AInv, AudioTypeOK
    <2> QED
        BY <2>4, <2>5, <2>6 DEF GiveBack, AInv, AudioTypeOK, AudioPermits, Placed
<1> QED
    BY <1>2, <1>3

(* A way out that gives the permit back. *)
LEMMA LeavesKeeps ==
    ASSUME AInv, NEW r \in Listeners, r \in taken, GiveBack(r), prober' \in SUBSET Listeners,
           NEW s \in {"background", "done"}, To(r, s)
    PROVE  AInv'
<1>1. /\ released' \subseteq taken' /\ taken' = taken /\ released' = released \cup {r}
      /\ released' \in SUBSET Listeners /\ encoder' \in SUBSET Listeners /\ free' \in Nat
      /\ AudioPermits'
    BY GiveBackKeeps
<1>2. stage' = [stage EXCEPT ![r] = s] /\ stage' \in [Listeners -> AudioStages]
    BY DEF To, AInv, AudioTypeOK, AudioStages
<1>3. AudioTypeOK'
    BY <1>1, <1>2 DEF AudioTypeOK, AInv
<1>4. Placed'
    <2> SUFFICES ASSUME NEW q \in Listeners
                 PROVE  /\ stage'[q] \in {"probe", "spawn", "first", "answered", "streams"}
                                => q \in taken' \ released'
                        /\ stage'[q] = "background" => q \in taken'
                        /\ stage'[q] = "none" => q \notin taken'
        BY <1>1 DEF Placed
    <2>1. CASE q = r
        BY <1>1, <1>2, <2>1 DEF AInv, AudioTypeOK
    <2>2. CASE q # r
        BY <1>1, <1>2, <2>2 DEF AInv, AudioTypeOK, Placed
    <2> QED
        BY <2>1, <2>2
<1> QED
    BY <1>1, <1>3, <1>4 DEF AInv

(* A step on the way from the probe to the body, or one that leaves the place and permits alone. *)
LEMMA HoldsKeeps ==
    ASSUME AInv, NEW r \in Listeners, stage[r] \in {"probe", "spawn", "first", "answered", "streams"},
           UNCHANGED <<free, taken, released>>, prober' \in SUBSET Listeners,
           encoder' \subseteq encoder \cup {r},
           NEW s \in {"spawn", "first", "answered", "streams", "background"}, To(r, s)
    PROVE  AInv'
<1>1. r \in taken \ released /\ r \in Listeners
    BY DEF AInv, Placed
<1>2. stage' = [stage EXCEPT ![r] = s] /\ stage' \in [Listeners -> AudioStages]
    BY DEF To, AInv, AudioTypeOK, AudioStages
<1>3. AudioTypeOK'
    BY <1>2 DEF AudioTypeOK, AInv
<1>4. Placed'
    BY <1>1, <1>2 DEF Placed, AInv, AudioTypeOK
<1>5. AudioPermits'
    BY <1>1 DEF AudioPermits, AInv
<1> QED
    BY <1>3, <1>4, <1>5 DEF AInv

(* The permit is taken without an await after the look at it. *)
LEMMA AskKeeps ==
    ASSUME AInv, NEW r \in Listeners, AskAudio(r)
    PROVE  AInv'
<1>1. stage[r] = "none" /\ r \notin taken
    BY DEF AskAudio, AInv, Placed
<1>2. CASE To(r, "done") /\ UNCHANGED <<free, taken, prober>>
    <2>1. AudioTypeOK' /\ AudioPermits'
        BY <1>2 DEF AskAudio, To, AInv, AudioTypeOK, AudioPermits, AudioStages
    <2>2. Placed'
        BY <1>1, <1>2 DEF AskAudio, To, AInv, AudioTypeOK, Placed
    <2> QED
        BY <1>2, <2>1, <2>2 DEF AInv
<1>3. CASE /\ free > 0 /\ free' = free - 1
           /\ taken' = taken \cup {r} /\ prober' = prober \cup {r} /\ To(r, "probe")
    <2>1. UNCHANGED <<encoder, released>> /\ r \notin released
        BY <1>1 DEF AskAudio, AInv, Placed
    <2>2. AudioTypeOK'
        BY <1>3, <2>1 DEF To, AInv, AudioTypeOK, AudioStages
    <2>3. IsFiniteSet(taken') /\ IsFiniteSet(taken \ released)
        BY <1>3, FS_AddElement, FS_Difference DEF AInv
    <2>4. Placed'
        BY <1>1, <1>3, <2>1 DEF To, AInv, AudioTypeOK, Placed
    <2>5. taken' \ released' = (taken \ released) \cup {r}
        BY <1>3, <2>1
    <2>6. Cardinality((taken \ released) \cup {r}) = Cardinality(taken \ released) + 1
        BY <1>1, <2>3, FS_AddElement
    <2>7. Cardinality(taken \ released) \in Nat
        BY <2>3, FS_CardinalityType
    <2>8. free' + Cardinality(taken' \ released') = AudioConcurrency
        <3>1. free \in Nat /\ free + Cardinality(taken \ released) = AudioConcurrency
            BY DEF AInv, AudioTypeOK, AudioPermits
        <3>2. free' = free - 1
            BY <1>3
        <3> DEFINE held == Cardinality(taken \ released)
        <3>3. Cardinality(taken' \ released') = held + 1
            BY <2>5, <2>6
        <3>4. held \in Nat /\ free + held = AudioConcurrency
            BY <2>7, <3>1
        <3> HIDE DEF held
        <3>5. free' + (held + 1) = free + held
            BY ONLY <3>1, <3>2, <3>4
        <3> QED
            BY <3>3, <3>4, <3>5
    <2>9. encoder' \subseteq taken' \ released'
        BY <2>1, <2>5 DEF AInv, AudioPermits
    <2> QED
        BY <2>2, <2>3, <2>4, <2>8, <2>9 DEF AInv, AudioPermits
<1> QED
    BY <1>2, <1>3 DEF AskAudio

(* ffprobe and ffmpeg end by themselves. *)
LEMMA ProcessEndsKeeps ==
    ASSUME AInv, NEW r \in Listeners, EncoderExits(r) \/ ProberEnds(r)
    PROVE  AInv'
<1>1. UNCHANGED <<stage, free, taken, released>> /\ encoder' \subseteq encoder /\ prober' \subseteq prober
    BY DEF EncoderExits, ProberEnds
<1> QED
    BY <1>1 DEF AInv, AudioTypeOK, Placed, AudioPermits

-----------------------------------------------------------------------------
LEMMA AInvInit == AudioInit => AInv
<1> SUFFICES ASSUME AudioInit PROVE AInv
    OBVIOUS
<1>1. IsFiniteSet({}) /\ Cardinality({}) = 0 /\ {} \ {} = {}
    BY FS_EmptySet
<1>2. AudioTypeOK /\ Placed
    BY DEF AudioInit, AudioTypeOK, AudioStages, Placed
<1> QED
    BY <1>1, <1>2 DEF AudioInit, AInv, AudioPermits

LEMMA AInvNext == AInv /\ [AudioNext]_audioVars => AInv'
<1> SUFFICES ASSUME AInv, [AudioNext]_audioVars PROVE AInv'
    OBVIOUS
<1>1. CASE UNCHANGED audioVars
    BY <1>1 DEF audioVars, AInv, AudioTypeOK, Placed, AudioPermits
<1>2. CASE AudioNext
    <2>1. PICK r \in Listeners :
              AskAudio(r) \/ AudioStep(r) \/ EncoderExits(r) \/ RequestCancelled(r) \/ ProberEnds(r)
        BY <1>2 DEF AudioNext
    <2>2. prober \in SUBSET Listeners
        BY DEF AInv, AudioTypeOK
    <2>3. stage[r] \in {"probe", "spawn", "first", "answered", "streams", "background"} => r \in taken
        BY DEF AInv, Placed
    <2>4. CASE AskAudio(r)
        BY <2>4, AskKeeps
    <2>5. CASE EncoderExits(r) \/ ProberEnds(r)
        BY <2>5, ProcessEndsKeeps
    <2>6. CASE RequestCancelled(r)
        BY <2>2, <2>3, <2>6, LeavesKeeps DEF RequestCancelled
    <2>7. CASE ProbeRefuses(r)
        BY <2>2, <2>3, <2>7, LeavesKeeps DEF ProbeRefuses
    <2>8. CASE SpawnFails(r)
        BY <2>2, <2>3, <2>8, LeavesKeeps DEF SpawnFails
    <2>9. CASE NoBytes(r)
        BY <2>2, <2>3, <2>9, LeavesKeeps DEF NoBytes
    <2>10. CASE BodyEnds(r)
        BY <2>2, <2>3, <2>10, LeavesKeeps DEF BodyEnds
    <2>11. CASE Background(r)
        BY <2>2, <2>3, <2>11, LeavesKeeps DEF Background
    <2>12. CASE ProbeAnswers(r)
        BY <2>2, <2>12, HoldsKeeps DEF ProbeAnswers
    <2>13. CASE Spawn(r)
        BY <2>2, <2>13, HoldsKeeps DEF Spawn
    <2>14. CASE FirstBytes(r)
        BY <2>2, <2>14, HoldsKeeps DEF FirstBytes
    <2>15. CASE BodyBegins(r)
        BY <2>2, <2>15, HoldsKeeps DEF BodyBegins
    <2>16. CASE NeverRead(r)
        BY <2>2, <2>16, HoldsKeeps DEF NeverRead
    <2> QED
        BY <2>1, <2>4, <2>5, <2>6, <2>7, <2>8, <2>9, <2>10, <2>11, <2>12, <2>13, <2>14, <2>15, <2>16
        DEF AudioStep
<1> QED
    BY <1>1, <1>2

(* get_library_audio and its release(): for any number of requests and permits, the permits out  *)
(* are those of requests that still hold one, and each ffmpeg runs on a permit.                  *)
THEOREM AudioPermitsHold == AudioSpec => []AudioPermits
<1>1. AInv => AudioPermits
    BY DEF AInv
<1> QED
    BY AInvInit, AInvNext, <1>1, PTL DEF AudioSpec
=============================================================================
