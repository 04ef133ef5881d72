---------------------------- MODULE MCTurnIntake ----------------------------
(* Finite instances of TurnIntake for TLC. *)
EXTENDS TurnIntake

CONSTANTS p1, p2, q1, q2, q3, k1

(* Two requests with one key. *)
Retried == [q \in Request |-> IF q = q3 THEN NoKey ELSE k1]
=============================================================================
