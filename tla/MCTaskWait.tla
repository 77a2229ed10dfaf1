----------------------------- MODULE MCTaskWait -----------------------------
EXTENDS TaskWait

(* Sources are numbers here, best rank first. *)
RankedBefore == [s \in Sources |-> {u \in Sources : u < s}]
=============================================================================
