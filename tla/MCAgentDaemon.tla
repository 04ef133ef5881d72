---------------------------- MODULE MCAgentDaemon ----------------------------
(* Finite instances of AgentDaemon for TLC. *)
EXTENDS AgentDaemon, TLC

CONSTANTS w1, w2, c1, c2, p1, p2

(* `doged serve --role all`. *)
OneProcess == [a \in Worker \cup Client |-> p1]

(* `doged serve --role all` beside `doged serve --role worker`. *)
SecondWorker == [a \in Worker \cup Client |-> IF a = w2 THEN p2 ELSE p1]
=============================================================================
