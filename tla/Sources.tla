------------------------------ MODULE Sources -------------------------------
(***************************************************************************)
(* The admin's requests that change sources and their script versions      *)
(* (routers/admin.py), the import of an exported file (sourcexfer.py) and  *)
(* the detection of browser sources (browserflag.py).  A request reads the *)
(* source, changes the loaded object and commits: the session writes the   *)
(* attributes that changed, whatever others have committed meanwhile.      *)
(***************************************************************************)
EXTENDS Naturals, Sequences, FiniteSets

CONSTANTS Admins,       \* requests that can be under way together
          MaxNames,     \* bound: source names; name 1 is the one in the file
          Codes,        \* script texts (code_hash tells them apart)
          Browser,      \* those detect_browser recognises
          Files,        \* entries parse_import accepts
          MaxVersions   \* bound: versions of a source

ASSUME SourcesAssumption ==
    /\ Browser \subseteq Codes
    /\ MaxNames \in Nat \ {0} /\ MaxVersions \in Nat \ {0}
    /\ \A e \in Files :  \* what parse_import lets through: one script of the file is its active one
           /\ e.scripts \in Seq(Codes) /\ Len(e.scripts) <= MaxVersions
           /\ {e.uses_browser, e.browser_manual} \subseteq BOOLEAN
           /\ e.scripts # <<>> => \E k \in DOMAIN e.scripts : e.scripts[k] = e.active

VARIABLES source,   \* [name -> row of sources, with its versions]
          pending   \* [request -> what its session will write at the commit]

sourceVars == <<source, pending>>

Names == 1..MaxNames
Version(c, on) == [code |-> c, active |-> on]
NoSource == [there |-> FALSE, scripts |-> <<>>, uses_browser |-> FALSE, browser_manual |-> FALSE]
NoWrite == [name |-> 0, fresh |-> FALSE, gone |-> FALSE, base |-> 0, add |-> <<>>,
            on |-> {}, off |-> {}, uses |-> {}, manual |-> {}]

SourcesInit ==
    /\ source = [n \in Names |-> NoSource]
    /\ pending = [a \in Admins |-> NoWrite]

-----------------------------------------------------------------------------
ActiveIn(s) == {v \in DOMAIN s.scripts : s.scripts[v].active}

(* active_code and detect_browser: the oldest active version decides. *)
Detected(s) ==
    \E v \in ActiveIn(s) : s.scripts[v].code \in Browser /\ \A w \in ActiveIn(s) : v <= w

ApplyDetection(s) == IF s.browser_manual THEN s ELSE [s EXCEPT !.uses_browser = Detected(s)]

(* x.active = (condition) for every version of the loaded source. *)
SetActive(s, Cond(_)) ==
    [s EXCEPT !.scripts = [v \in DOMAIN @ |-> Version(@[v].code, Cond(v))]]

-----------------------------------------------------------------------------
(* What the unit of work finds changed in the object it loaded. *)
Diff(n, from, to) ==
    [name   |-> n,
     fresh  |-> ~from.there,
     gone   |-> ~to.there,
     base   |-> Len(from.scripts),
     add    |-> SubSeq(to.scripts, Len(from.scripts) + 1, Len(to.scripts)),
     on     |-> {v \in DOMAIN from.scripts : v \in ActiveIn(to) \ ActiveIn(from)},
     off    |-> {v \in DOMAIN from.scripts : v \in ActiveIn(from) \ ActiveIn(to)},
     uses   |-> {to.uses_browser} \ {from.uses_browser},
     manual |-> {to.browser_manual} \ {from.browser_manual}]

Idle(a) == pending[a] = NoWrite

Prepares(a, n, to) ==
    /\ Idle(a)
    /\ pending' = [pending EXCEPT ![a] = Diff(n, source[n], to)]
    /\ UNCHANGED source

Fresh(uses, manual) == [NoSource EXCEPT !.there = TRUE, !.uses_browser = uses, !.browser_manual = manual]

(* POST sources: a flag that is given is a choice made by hand. *)
CreateSource(a, n) ==
    /\ ~source[n].there
    /\ \/ Prepares(a, n, Fresh(FALSE, FALSE))
       \/ \E flag \in BOOLEAN : Prepares(a, n, Fresh(flag, TRUE))

(* PATCH: uses_browser by hand, or back to the detection. *)
SetByHand(a, n) ==
    /\ source[n].there
    /\ \E flag \in BOOLEAN :
           Prepares(a, n, [source[n] EXCEPT !.uses_browser = flag, !.browser_manual = TRUE])

(* Fault: browser_auto only clears the mark. *)
BackToAuto_FlagKept(a, n) ==
    /\ source[n].there
    /\ Prepares(a, n, [source[n] EXCEPT !.browser_manual = FALSE])

BackToAuto(a, n) ==
    /\ source[n].there
    /\ Prepares(a, n, ApplyDetection([source[n] EXCEPT !.browser_manual = FALSE]))

DeleteSource(a, n) ==
    /\ source[n].there
    /\ Prepares(a, n, [source[n] EXCEPT !.there = FALSE])

(* POST scripts: a new version, in force or not. *)
UploadScript(a, n) ==
    /\ source[n].there
    /\ Len(source[n].scripts) < MaxVersions
    /\ \E c \in Codes :
           \/ Prepares(a, n, [source[n] EXCEPT !.scripts = Append(@, Version(c, FALSE))])
           \/ LET off == SetActive(source[n], LAMBDA v : FALSE)
              IN  Prepares(a, n, ApplyDetection([off EXCEPT !.scripts = Append(@, Version(c, TRUE))]))

ActivateScript(a, n) ==
    \E v \in DOMAIN source[n].scripts :
        Prepares(a, n, ApplyDetection(SetActive(source[n], LAMBDA x : x = v)))

-----------------------------------------------------------------------------
(* plan: the scripts of the file that the source does not have yet. *)
NewScripts(s, e) ==
    LET have == {s.scripts[v].code : v \in DOMAIN s.scripts}
        Is(k) == e.scripts[k] \notin have /\ \A j \in 1..(k - 1) : e.scripts[j] # e.scripts[k]
        new == {k \in DOMAIN e.scripts : Is(k)}
        Nth(i) == CHOOSE k \in new : Cardinality({j \in new : j <= k}) = i
    IN  [i \in 1..Cardinality(new) |-> Version(e.scripts[Nth(i)], FALSE)]

(* Fault: only a script that came with the file can become the active one. *)
Import_NewActive(s, e, new) ==
    LET with == [s EXCEPT !.there = TRUE, !.scripts = @ \o new]
        chosen == IF e.scripts = <<>> THEN with
                  ELSE SetActive(with, LAMBDA v : v > Len(s.scripts) /\ with.scripts[v].code = e.active)
    IN  IF e.browser_manual THEN [chosen EXCEPT !.uses_browser = e.uses_browser, !.browser_manual = TRUE]
        ELSE ApplyDetection(chosen)

(* import_sources: the versions with the text of the file's active one are in force.             *)
Import(s, e, new) ==
    LET with == [s EXCEPT !.there = TRUE, !.scripts = @ \o new]
        chosen == IF e.scripts = <<>> THEN with
                  ELSE SetActive(with, LAMBDA v : with.scripts[v].code = e.active)
    IN  IF e.browser_manual THEN [chosen EXCEPT !.uses_browser = e.uses_browser, !.browser_manual = TRUE]
        ELSE ApplyDetection(chosen)

AllNew(e) == [k \in DOMAIN e.scripts |-> Version(e.scripts[k], FALSE)]

(* Mode update: the source exists, and so do some of its versions. *)
ImportUpdate(a) ==
    /\ source[1].there
    /\ \E e \in Files :
           /\ Len(source[1].scripts) + Len(NewScripts(source[1], e)) <= MaxVersions
           /\ Prepares(a, 1, Import(source[1], e, NewScripts(source[1], e)))

(* A source that does not exist is created in every mode; copy takes a free name otherwise.      *)
ImportCreate(a) ==
    LET used == {n \in Names : source[n].there}
        Free(n) == n \notin used /\ 1..(n - 1) \subseteq used
    IN  \E n \in Names, e \in Files :
            Free(n) /\ Prepares(a, n, Import(NoSource, e, AllNew(e)))

-----------------------------------------------------------------------------
(* The name is unique, and so is the number of a version within its source. *)
Accepted(w) ==
    IF w.fresh THEN ~source[w.name].there
    ELSE source[w.name].there /\ (w.add # <<>> => Len(source[w.name].scripts) = w.base)

Set(old, written) == IF written = {} THEN old ELSE CHOOSE x \in written : TRUE

Written(s, w) ==
    LET kept == [v \in DOMAIN s.scripts |->
                    Version(s.scripts[v].code, v \in (ActiveIn(s) \ w.off) \cup w.on)]
    IN  [there |-> TRUE, scripts |-> kept \o w.add,
         uses_browser |-> Set(s.uses_browser, w.uses), browser_manual |-> Set(s.browser_manual, w.manual)]

(* A row that is gone takes what others were about to write to it with it.                       *)
Commit(a) ==
    LET w == pending[a] IN
    /\ ~Idle(a)
    /\ IF ~Accepted(w) THEN /\ UNCHANGED source
                            /\ pending' = [pending EXCEPT ![a] = NoWrite]
       ELSE /\ source' = [source EXCEPT ![w.name] = IF w.gone THEN NoSource ELSE Written(@, w)]
            /\ pending' = [b \in Admins |-> IF b = a \/ (w.gone /\ pending[b].name = w.name)
                                            THEN NoWrite ELSE pending[b]]

(* backfill_browser_flags at start-up; the requests under way are lost. *)
RestartServer ==
    /\ source' = [n \in Names |-> IF source[n].there THEN ApplyDetection(source[n]) ELSE NoSource]
    /\ pending' = [a \in Admins |-> NoWrite]

SourcesNext ==
    \/ \E a \in Admins : Commit(a) \/ ImportUpdate(a) \/ ImportCreate(a)
    \/ \E a \in Admins, n \in Names :
           \/ CreateSource(a, n) \/ SetByHand(a, n) \/ BackToAuto(a, n) \/ DeleteSource(a, n)
           \/ UploadScript(a, n) \/ ActivateScript(a, n)
    \/ RestartServer

SourcesSpec == SourcesInit /\ [][SourcesNext]_sourceVars

-----------------------------------------------------------------------------
SourcesTypeOK ==
    \A n \in Names :
        /\ source[n] \in [there : BOOLEAN, scripts : Seq([code : Codes, active : BOOLEAN]),
                          uses_browser : BOOLEAN, browser_manual : BOOLEAN]
        /\ Len(source[n].scripts) <= MaxVersions

(* browserflag.py: the flag follows the script in force unless the admin set it by hand, through *)
(* uploads, activations, imports and the way back to the detection.  BrowserSlots count by it.   *)
FlagFollowsScript ==
    \A n \in Names : ~source[n].browser_manual =>
        /\ source[n].uses_browser = Detected(source[n])
        /\ \A v \in ActiveIn(source[n]) : (source[n].scripts[v].code \in Browser) = source[n].uses_browser

(* A source that has a script in force keeps one: no upload, activation or import leaves it      *)
(* without, which would take it out of every search in silence (resolver._run joins on active).  *)
ScriptKept ==
    [][\A n \in Names : ActiveIn(source[n]) # {} /\ source'[n].there => ActiveIn(source'[n]) # {}]_sourceVars

(* models.py: "Exactly one version per source is active".                                        *)
OneActive == \A n \in Names : Cardinality(ActiveIn(source[n])) <= 1

=============================================================================
