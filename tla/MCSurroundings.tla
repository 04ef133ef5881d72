--------------------------- MODULE MCSurroundings ---------------------------
(* Finite instances of Surroundings for TLC. *)
EXTENDS Surroundings


AllButTheLast == 1..(MaxUploads - 1)
=============================================================================
