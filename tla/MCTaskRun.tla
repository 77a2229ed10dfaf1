----------------------------- MODULE MCTaskRun ------------------------------
EXTENDS TaskRun, TLC

(* Sources are numbers here, best rank first. *)
RankedBefore == [s \in Sources |-> {u \in Sources : u < s}]

Symmetry == Permutations(Jobs)
=============================================================================
