----------------------------- MODULE MCRunQueue -----------------------------
(* Finite instances of RunQueue for TLC. *)
EXTENDS RunQueue, TLC

CONSTANTS r1, r2, w1, w2

Interchangeable == Permutations(Run) \cup Permutations(Worker)
=============================================================================
