---------------------------- MODULE MCRunKernel ----------------------------
(* Finite instances of RunKernel for TLC. *)
EXTENDS RunKernel, TLC

CONSTANTS w1, w2, c1, c2, p1, p2, p3

OneProcess == [a \in Actor |-> p1]

(* `doged serve --role api` beside `doged serve --role worker`. *)
ApiAndWorker == [a \in Actor |-> IF a \in Client THEN p1 ELSE p2]

Interchangeable == Permutations(Worker) \cup Permutations(Client)
=============================================================================
