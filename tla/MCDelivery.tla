----------------------------- MODULE MCDelivery -----------------------------
EXTENDS Delivery

(* Candidates 1 and 2 are the same file under two URLs, 3 is another one of the same language. *)
Langs == [c \in Cands |-> "en"]
Contents == [c \in Cands |-> IF c <= 2 THEN "a" ELSE "b"]
=============================================================================
