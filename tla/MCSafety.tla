------------------------------ MODULE MCSafety ------------------------------
(***************************************************************************)
(* The live relay, the alerts, the sources and the functions that only     *)
(* compute, checked in one run as in MCServices: a behaviour is one of     *)
(* them, the others stand still.  Nothing has to happen here.              *)
(***************************************************************************)
EXTENDS LiveRelay, Alerts, Sources, Rules, TLC

CONSTANTS s1, s2, s3, r1, r2

VARIABLE part

safetyVars == <<part, vars, alertVars, sourceVars, rulesVars>>

SafetyInit ==
    /\ part \in {"relay", "alerts", "sources", "rules"}
    /\ Init /\ AlertsInit /\ SourcesInit /\ RulesInit

SafetyNext ==
    /\ UNCHANGED part
    /\ \/ part = "relay" /\ Next /\ UNCHANGED <<alertVars, sourceVars, rulesVars>>
       \/ part = "alerts" /\ AlertsNext /\ UNCHANGED <<vars, sourceVars, rulesVars>>
       \/ part = "sources" /\ SourcesNext /\ UNCHANGED <<vars, alertVars, rulesVars>>
       \/ part = "rules" /\ RulesNext /\ UNCHANGED <<vars, alertVars, sourceVars>>

SafetySpec == SafetyInit /\ [][SafetyNext]_safetyVars

(* s1's source told when its link ends. *)
Lives == [s \in Streams |-> IF s = s1 THEN 3 ELSE 0]

Symmetry == Permutations(Requests) \cup Permutations({s2, s3})

File(texts, chosen, uses, manual) ==
    [scripts |-> texts, active |-> chosen, uses_browser |-> uses, browser_manual |-> manual]

(* A plain source, one that got a browser in its second version, one set by hand that has the    *)
(* same text twice.                                                                              *)
ThreeFiles == {File(<<"plain">>, "plain", FALSE, FALSE),
               File(<<"plain", "chrome">>, "chrome", TRUE, FALSE),
               File(<<"chrome", "chrome">>, "chrome", FALSE, TRUE)}
=============================================================================
