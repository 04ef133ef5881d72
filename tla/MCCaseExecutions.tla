-------------------------- MODULE MCCaseExecutions --------------------------
(* Finite instances of CaseExecutions for TLC. *)
EXTENDS CaseExecutions

CONSTANT q1
=============================================================================
