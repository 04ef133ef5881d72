---------------------------- MODULE MCMigrations ----------------------------
(* Finite instances of Migrations for TLC. *)
EXTENDS Migrations

CONSTANTS p1, p2, p3

(* One migration of each kind, and one that rebuilds two tables. *)
SomeMigrations ==
    << [name |-> "idempotency_key_scope", kind |-> "rebuild"],
       [name |-> "local_tenant_backfill", kind |-> "update"],
       [name |-> "approval_explanation_fields", kind |-> "column"],
       [name |-> "runtime_child_foreign_keys", kind |-> "rebuild"],
       [name |-> "runtime_child_foreign_keys", kind |-> "rebuild"] >>
=============================================================================
