----------------------------- MODULE Migrations -----------------------------
(***************************************************************************)
(* bootstrap_agent_schema (agent_repositories.py) and the context          *)
(* migrations it applies (migration_runner.py) when processes start on an  *)
(* old database, one of them perhaps while another one still migrates.     *)
(*                                                                         *)
(* A DDL statement outside a transaction is durable at once; the first     *)
(* INSERT or UPDATE opens a transaction, and from then on everything up to *)
(* the final commit is one.  That is how Python's sqlite3 treats the       *)
(* connection of the bootstrap, and it decides what a death leaves behind. *)
(***************************************************************************)
EXTENDS Naturals, Sequences

CONSTANTS
    Process,
    Plan,       \* the statements of _migrations(): [name, kind], each on its own table
    NoProcess,
    MaxFaults   \* bound: processes that die or wait too long for the lock

Step == 1..Len(Plan)
Name == {Plan[i].name : i \in Step}

ASSUME MigrationsAssumption ==
    /\ Plan \in Seq([name : Name, kind : {"rebuild", "column", "update"}])
    /\ \A i, j, k \in Step :    \* the statements of a migration follow one another
          i < j /\ j < k /\ Plan[i].name = Plan[k].name => Plan[j].name = Plan[i].name
    /\ NoProcess \notin Process
    /\ MaxFaults \in Nat

VARIABLES
    disk,         \* the committed database
    work,         \* the database as its writer sees it
    writer,       \* the process with an open transaction
    pc, at,       \* where each process is in its bootstrap, and at which step
    interrupted,  \* some bootstrap has died or raised
    faults

vars == <<disk, work, writer, pc, at, interrupted, faults>>

(* Of a table: its definition, whether it holds the rows, and whether its  *)
(* predecessor is still there, renamed and with the rows.  The rows are    *)
(* those that satisfy the new definition, too.                             *)
Table == [schema : {"none", "old", "new"}, full : BOOLEAN, legacy : BOOLEAN]
Database == [table : [Step -> Table], recorded : SUBSET Name]

TypeOK ==
    /\ disk \in Database /\ work \in Database
    /\ writer \in Process \cup {NoProcess}
    /\ pc \in [Process -> {"down", "script", "check", "apply", "rename", "create", "copy", "drop",
                           "alter", "update", "record", "commit", "up", "raised"}]
    /\ at \in [Process -> 1..Len(Plan) + 1]
    /\ interrupted \in BOOLEAN /\ faults \in 0..MaxFaults

(* A database that was left by an earlier version, with its first v        *)
(* migrations recorded.                                                    *)
Init ==
    /\ \E done \in {{}} \cup {{Plan[i].name : i \in 1..v} : v \in Step} :
          disk = [table |-> [i \in Step |-> [schema |-> IF Plan[i].name \in done THEN "new" ELSE "old",
                                             full |-> TRUE, legacy |-> FALSE]],
                  recorded |-> done]
    /\ work = disk
    /\ writer = NoProcess
    /\ pc = [p \in Process |-> "down"]
    /\ at = [p \in Process |-> 1]
    /\ interrupted = FALSE
    /\ faults = 0

-----------------------------------------------------------------------------
(* What a statement of a process reads and writes. *)

View(p) == IF writer = p THEN work ELSE disk
Free(p) == writer \in {p, NoProcess}

Ddl(p, db) ==
    /\ Free(p)
    /\ IF writer = p THEN work' = db /\ disk' = disk ELSE disk' = db /\ work' = db
    /\ UNCHANGED writer

Dml(p, db) ==
    /\ Free(p)
    /\ writer' = p /\ work' = db /\ disk' = disk

This(p) == View(p).table[at[p]]
Put(p, table) == [View(p) EXCEPT !.table[at[p]] = table]

Goto(p, l) ==
    /\ pc' = [pc EXCEPT ![p] = l]
    /\ UNCHANGED <<interrupted, faults>>

Stay(p) == UNCHANGED at
Reads == UNCHANGED <<disk, work, writer>>

First(i) == i = 1 \/ Plan[i - 1].name # Plan[i].name
Last(i) == i = Len(Plan) \/ Plan[i + 1].name # Plan[i].name

(* After step i: the next table of this migration, or its record. *)
Done(p) ==
    IF Last(at[p]) THEN Goto(p, "record") /\ Stay(p)
    ELSE Goto(p, "apply") /\ at' = [at EXCEPT ![p] = @ + 1]

-----------------------------------------------------------------------------
(* The bootstrap. *)

Boot(p) ==
    /\ pc[p] = "down"
    /\ Goto(p, "script") /\ at' = [at EXCEPT ![p] = 1]
    /\ Reads

(* Mutant: the schema is created for an empty database only. *)
ScriptNothing(p) ==
    /\ pc[p] = "script"
    /\ Goto(p, "check") /\ Stay(p) /\ Reads

(* agent_schema.sql: CREATE TABLE IF NOT EXISTS, with the definitions of   *)
(* today.                                                                  *)
Script(p) ==
    /\ pc[p] = "script"
    /\ LET missing == {i \in Step : View(p).table[i].schema = "none"} IN
          IF missing = {} THEN Reads
          ELSE Ddl(p, [View(p) EXCEPT !.table = [i \in Step |->
                         IF i \in missing THEN [@[i] EXCEPT !.schema = "new"] ELSE @[i]]])
    /\ Goto(p, "check") /\ Stay(p)

(* _is_applied; after the last migration comes the commit. *)
Check(p) ==
    /\ pc[p] = "check"
    /\ IF at[p] > Len(Plan) THEN Goto(p, "commit") /\ Stay(p)
       ELSE IF First(at[p]) /\ Plan[at[p]].name \notin View(p).recorded
       THEN Goto(p, "apply") /\ Stay(p)
       ELSE Goto(p, "check") /\ at' = [at EXCEPT ![p] = @ + 1]
    /\ Reads

(* The migrations look at the table before they change it. *)
Apply(p) ==
    /\ pc[p] = "apply"
    /\ CASE Plan[at[p]].kind = "update" -> Goto(p, "update") /\ Stay(p)
         [] Plan[at[p]].kind # "update" /\ This(p).schema = "new" -> Done(p)
         [] Plan[at[p]].kind = "column" /\ This(p).schema # "new" -> Goto(p, "alter") /\ Stay(p)
         [] Plan[at[p]].kind = "rebuild" /\ This(p).schema # "new" -> Goto(p, "rename") /\ Stay(p)
    /\ Reads

CanRename(p) == This(p).schema # "none" /\ ~This(p).legacy
CanCreate(p) == This(p).schema = "none"
CanAlter(p)  == This(p).schema = "old"

Rename(p) ==
    /\ pc[p] = "rename" /\ CanRename(p)
    /\ Ddl(p, Put(p, [schema |-> "none", full |-> FALSE, legacy |-> TRUE]))
    /\ Goto(p, "create") /\ Stay(p)

Create(p) ==
    /\ pc[p] = "create" /\ CanCreate(p)
    /\ Ddl(p, Put(p, [This(p) EXCEPT !.schema = "new"]))
    /\ Goto(p, "copy") /\ Stay(p)

(* Mutant: the rows violate the new definition and are ignored. *)
CopyNothing(p) ==
    /\ pc[p] = "copy"
    /\ Dml(p, View(p))
    /\ Goto(p, "drop") /\ Stay(p)

(* INSERT OR IGNORE: what violates a key of the new definition is passed   *)
(* over without a word, and the DROP that follows loses it.                *)
Copy(p) ==
    /\ pc[p] = "copy"
    /\ Dml(p, Put(p, [This(p) EXCEPT !.full = TRUE]))
    /\ Goto(p, "drop") /\ Stay(p)

(* Mutant: the renamed table stays. *)
DropForgotten(p) == pc[p] = "drop" /\ Free(p) /\ Done(p) /\ Reads

Drop(p) ==
    /\ pc[p] = "drop"
    /\ Ddl(p, Put(p, [This(p) EXCEPT !.legacy = FALSE]))
    /\ Done(p)

Alter(p) ==
    /\ pc[p] = "alter" /\ CanAlter(p)
    /\ Ddl(p, Put(p, [This(p) EXCEPT !.schema = "new"]))
    /\ Done(p)

Update(p) ==
    /\ pc[p] = "update"
    /\ Dml(p, Put(p, [This(p) EXCEPT !.schema = "new"]))
    /\ Done(p)

Record(p) ==
    /\ pc[p] = "record"
    /\ Dml(p, [View(p) EXCEPT !.recorded = @ \cup {Plan[at[p]].name}])
    /\ Goto(p, "check") /\ at' = [at EXCEPT ![p] = @ + 1]

Commit(p) ==
    /\ pc[p] = "commit" /\ Free(p)
    /\ disk' = View(p) /\ work' = View(p) /\ writer' = NoProcess
    /\ Goto(p, "up") /\ Stay(p)

-----------------------------------------------------------------------------
(* What goes wrong. *)

Leave(p, l) ==
    /\ pc' = [pc EXCEPT ![p] = l]
    /\ writer' = IF writer = p THEN NoProcess ELSE writer
    /\ work' = IF writer = p THEN disk ELSE work
    /\ interrupted' = TRUE
    /\ UNCHANGED <<disk, at>>

(* Another process got in between the look at the table and the change:    *)
(* no such table, table exists, duplicate column.                          *)
Conflict(p) ==
    /\ Free(p)
    /\ \/ pc[p] = "rename" /\ ~CanRename(p)
       \/ pc[p] = "create" /\ ~CanCreate(p)
       \/ pc[p] = "alter" /\ ~CanAlter(p)
    /\ Leave(p, "raised") /\ UNCHANGED faults

(* The process dies, or waits for the lock for more than 5 seconds. *)
Fault(p) ==
    /\ faults < MaxFaults /\ faults' = faults + 1
    /\ \/ pc[p] \notin {"down", "up", "raised"} /\ Leave(p, "down")
       \/ pc[p] \notin {"down", "up", "raised"} /\ ~Free(p) /\ Leave(p, "raised")

(* The process that could not start is started again. *)
Restart(p) ==
    /\ pc[p] = "raised"
    /\ Goto(p, "down") /\ Stay(p) /\ Reads

Work(p) ==
    \/ Boot(p) \/ Script(p) \/ Check(p) \/ Apply(p) \/ Rename(p) \/ Create(p) \/ Copy(p)
    \/ Drop(p) \/ Alter(p) \/ Update(p) \/ Record(p) \/ Commit(p) \/ Conflict(p) \/ Restart(p)

Next == \E p \in Process : Work(p) \/ Fault(p)

Spec == Init /\ [][Next]_vars

(* A statement that waits for the lock gets it, and whoever failed to      *)
(* start is started again.                                                 *)
FairSpec == Spec /\ \A p \in Process : SF_vars(Work(p))

-----------------------------------------------------------------------------
(* Properties. *)

(* Whatever dies and whoever starts at the same time: the rows of every    *)
(* table that its new definition admits are in the table or in its renamed *)
(* predecessor.                                                            *)
NothingDestroyed == \A i \in Step : disk.table[i].full \/ disk.table[i].legacy

(* A recorded migration was applied: its tables never have their old       *)
(* definition, though a process that looked before another one recorded it *)
(* may rebuild them once more.                                             *)
RecordedMeansMigrated ==
    \A i \in Step : Plan[i].name \in disk.recorded => disk.table[i].schema # "old"

(* A bootstrap records all the migrations it found pending, or none: there *)
(* is no version in between.                                               *)
AllAtOnce == [][disk'.recorded # disk.recorded => disk'.recorded = Name]_vars

(* When all processes have started the rows are where they belong, unless  *)
(* a bootstrap died or raised; what it left renamed is never copied back.  *)
LeftBehindByInterruption ==
    (\A p \in Process : pc[p] = "up") =>
        interrupted \/ \A i \in Step : disk.table[i].full /\ ~disk.table[i].legacy

(* Every process that is started often enough starts. *)
ComesUp == \A p \in Process : <>[](pc[p] = "up")
=============================================================================
