-------------------------- MODULE MigrationsProofs --------------------------
(***************************************************************************)
(* What starting on an old database keeps, for every plan of migrations    *)
(* and any number of processes and deaths.                                 *)
(***************************************************************************)
EXTENDS Migrations, SequenceTheorems, TLAPS

NotOld(db, i) == db.table[i].schema # "old"

(* What a database must be, committed or not.                              *)
Sound(db) ==
    \A i \in Step : /\ db.table[i].full \/ db.table[i].legacy
                    /\ Plan[i].name \in db.recorded => NotOld(db, i)

(* The second database is a later one.                                     *)
Later(one, two) ==
    /\ one.recorded \subseteq two.recorded
    /\ \A i \in Step : NotOld(one, i) => NotOld(two, i)

Base ==
    /\ disk \in Database /\ work \in Database
    /\ writer \in Process \cup {NoProcess}
    /\ Sound(disk) /\ Sound(work)
    /\ writer # NoProcess => Later(disk, work)

Locals ==
    /\ pc \in [Process -> {"down", "script", "check", "apply", "rename", "create", "copy", "drop",
                           "alter", "update", "record", "commit", "up", "raised"}]
    /\ at \in [Process -> 1..Len(Plan) + 1]
    /\ interrupted \in BOOLEAN /\ faults \in 0..MaxFaults

Applying == {"apply", "rename", "create", "copy", "drop", "alter", "update", "record"}

(* What a process knows of the steps behind it.                            *)
Behind(p) ==
    /\ pc[p] \in {"check", "commit"} =>
         \A j \in Step : j < at[p] => Plan[j].name \in View(p).recorded
    /\ pc[p] \in Applying =>
         \A j \in Step : j < at[p] =>
            \/ Plan[j].name \in View(p).recorded
            \/ Plan[j].name = Plan[at[p]].name /\ NotOld(View(p), j)

(* And of the step it is at.                                               *)
Here(p) ==
    /\ pc[p] \in Applying => at[p] \in Step
    /\ pc[p] = "script" => at[p] = 1
    /\ pc[p] = "commit" => at[p] > Len(Plan)
    /\ pc[p] \in {"create", "copy", "drop", "record"} => NotOld(View(p), at[p])
    /\ pc[p] = "drop" => writer = p /\ work.table[at[p]].full
    /\ pc[p] = "record" => Last(at[p])

Inv == Base /\ Locals /\ \A p \in Process : Behind(p) /\ Here(p)

(* What a step of p leaves to the others.                                  *)
Others(p) ==
    \A q \in Process \ {p} :
       /\ writer' = q <=> writer = q
       /\ writer = q => work' = work
       /\ Later(View(q), View(q)')

-----------------------------------------------------------------------------
(* The plan is a sequence of known steps. *)
LEMMA Steps == Len(Plan) \in Nat /\ \A i \in Step : Plan[i].kind \in {"rebuild", "column", "update"}
  <1>1. Plan \in Seq([name : Name, kind : {"rebuild", "column", "update"}])
    BY MigrationsAssumption
  <1>2. Len(Plan) \in Nat
    BY <1>1, LenProperties
  <1>3. ASSUME NEW i \in Step PROVE Plan[i] \in [name : Name, kind : {"rebuild", "column", "update"}]
    <2> DEFINE K == [name : Name, kind : {"rebuild", "column", "update"}]
    <2>1. i \in 1..Len(Plan) /\ Plan \in Seq(K)
      BY <1>1 DEF Step
    <2> HIDE DEF K
    <2>2. Plan[i] \in K
      BY <2>1, ElementOfSeq
    <2> QED BY <2>2 DEF K
  <1> QED BY <1>2, <1>3

(* What a process sees is a sound, later database. *)
LEMMA Seen ==
  ASSUME Base, NEW p \in Process
  PROVE  View(p) \in Database /\ Sound(View(p)) /\ Later(disk, View(p))
  BY MigrationsAssumption DEF Base, View, Later

(* A statement that changes the database p sees into a later sound one.    *)
LEMMA Changes ==
  ASSUME Base, NEW p \in Process, NEW db \in Database, Ddl(p, db) \/ Dml(p, db),
         Sound(db), Later(View(p), db)
  PROVE  /\ Base' /\ View(p)' = db /\ Others(p)
         /\ db.recorded = View(p).recorded \/ Dml(p, db) => disk'.recorded = disk.recorded
  <1>1. p # NoProcess
    BY MigrationsAssumption
  <1>2. CASE writer = p
    <2>1. disk' = disk /\ work' = db /\ writer' = p /\ View(p) = work
      BY <1>2 DEF Ddl, Dml, View
    <2>2. Later(disk, db)
      BY <1>1, <1>2, <2>1 DEF Base, Later
    <2> QED BY <1>1, <1>2, <2>1, <2>2 DEF Base, View, Others, Later, Sound, NotOld
  <1>3. CASE writer # p
    <2>1. writer = NoProcess /\ View(p) = disk
      BY <1>3 DEF Ddl, Dml, Free, View
    <2>2. CASE Ddl(p, db)
      <3>1. disk' = db /\ work' = db /\ writer' = writer
        BY <1>3, <2>2 DEF Ddl
      <3> QED BY <1>1, <2>1, <3>1, MigrationsAssumption DEF Base, View, Others, Later, Sound, NotOld, Dml
    <2>3. CASE Dml(p, db)
      <3>1. disk' = disk /\ work' = db /\ writer' = p
        BY <2>3 DEF Dml
      <3> QED BY <1>1, <2>1, <3>1, MigrationsAssumption DEF Base, View, Others, Later, Sound, NotOld
    <2> QED BY <2>2, <2>3
  <1> QED BY <1>2, <1>3

(* A step that only reads changes no database. *)
LEMMA JustReads ==
  ASSUME Base, Reads, NEW p \in Process
  PROVE  Base' /\ View(p)' = View(p) /\ Others(p) /\ disk' = disk
  BY DEF Base, Reads, View, Others, Later, Sound, NotOld

(* The others do not lose what they know.                                  *)
LEMMA OthersKept ==
  ASSUME Inv, NEW p \in Process, Others(p), NEW q \in Process, q # p,
         pc'[q] = pc[q], at'[q] = at[q]
  PROVE  Behind(q)' /\ Here(q)'
  <1>1. /\ writer' = q <=> writer = q
        /\ writer = q => work' = work
        /\ Later(View(q), View(q)')
    BY DEF Others
  <1>2. Behind(q) /\ Here(q)
    BY DEF Inv
  <1>3. Behind(q)'
    BY <1>1, <1>2 DEF Behind, Later, Applying
  <1>4. Here(q)'
    <2>1. pc[q] \in {"create", "copy", "drop", "record"} => at[q] \in Step
      BY <1>2 DEF Here, Applying
    <2> QED BY <1>1, <1>2, <2>1 DEF Here, Later, Applying, Last
  <1> QED BY <1>3, <1>4

(* The end of a step.                                                      *)
LEMMA DoneStep ==
  ASSUME Inv, NEW p \in Process, pc[p] \in Applying, Done(p),
         Later(View(p), View(p)'), NotOld(View(p)', at[p])
  PROVE  Behind(p)' /\ Here(p)' /\ Locals'
  <1>1. at[p] \in Step /\ Behind(p) /\ Len(Plan) \in Nat
    BY Steps DEF Inv, Here
  <1>2. CASE Last(at[p])
    <2>1. pc' = [pc EXCEPT ![p] = "record"] /\ at' = at /\ UNCHANGED <<interrupted, faults>>
      BY <1>2 DEF Done, Goto, Stay
    <2>2. Locals' /\ pc'[p] = "record" /\ at'[p] = at[p]
      BY <2>1 DEF Inv, Locals
    <2>3. Behind(p)'
      BY <1>1, <2>2 DEF Behind, Later, Applying
    <2>4. Here(p)'
      BY <1>1, <1>2, <2>2 DEF Here, Applying, Last
    <2> QED BY <2>2, <2>3, <2>4
  <1>3. CASE ~Last(at[p])
    <2>1. pc' = [pc EXCEPT ![p] = "apply"] /\ at' = [at EXCEPT ![p] = @ + 1]
          /\ UNCHANGED <<interrupted, faults>>
      BY <1>3 DEF Done, Goto
    <2>2. at[p] + 1 \in Step /\ Plan[at[p] + 1].name = Plan[at[p]].name
      BY <1>1, <1>3 DEF Last, Step
    <2>3. Locals' /\ pc'[p] = "apply" /\ at'[p] = at[p] + 1
      BY <1>1, <2>1, <2>2 DEF Inv, Locals, Step
    <2>4. \A j \in Step : j < at[p] + 1 => j < at[p] \/ j = at[p]
      BY <1>1 DEF Step
    <2>5. Behind(p)'
      BY <1>1, <2>2, <2>3, <2>4 DEF Behind, Later, Applying
    <2>6. Here(p)'
      BY <2>2, <2>3 DEF Here, Applying
    <2> QED BY <2>3, <2>5, <2>6
  <1> QED BY <1>2, <1>3

(* A change of the table p is at.                                          *)
LEMMA Puts ==
  ASSUME Inv, NEW p \in Process, NEW table \in Table, at[p] \in Step,
         table.full \/ table.legacy, table.schema # "old"
  PROVE  /\ Put(p, table) \in Database /\ Sound(Put(p, table))
         /\ Later(View(p), Put(p, table)) /\ NotOld(Put(p, table), at[p])
         /\ Put(p, table).recorded = View(p).recorded
         /\ Put(p, table).table[at[p]] = table
  <1>1. View(p) \in Database /\ Sound(View(p))
    BY Seen DEF Inv
  <1> QED BY <1>1 DEF Put, Database, Sound, Later, NotOld

-----------------------------------------------------------------------------
(* From what a step does to its process and to the database.               *)
LEMMA Assemble ==
  ASSUME Inv, NEW p \in Process, Base', Locals', Others(p),
         \A q \in Process \ {p} : pc'[q] = pc[q] /\ at'[q] = at[q],
         Behind(p)', Here(p)'
  PROVE  Inv'
  <1>1. ASSUME NEW q \in Process, q # p PROVE Behind(q)' /\ Here(q)'
    BY <1>1, OthersKept
  <1> QED BY <1>1 DEF Inv

(* The invariant holds on every earlier version. *)
LEMMA InvInit == Init => Inv
  <1> SUFFICES ASSUME Init PROVE Inv
    OBVIOUS
  <1>1. Len(Plan) \in Nat
    BY Steps
  <1>2. /\ disk \in Database /\ Sound(disk) /\ work = disk /\ writer = NoProcess
    <2>1. PICK done \in {{}} \cup {{Plan[i].name : i \in 1..v} : v \in Step} :
            disk = [table |-> [i \in Step |-> [schema |-> IF Plan[i].name \in done THEN "new" ELSE "old",
                                               full |-> TRUE, legacy |-> FALSE]],
                    recorded |-> done]
      BY DEF Init
    <2>2. done \in SUBSET Name
      BY <1>1 DEF Name, Step
    <2> QED BY <2>1, <2>2 DEF Init, Database, Table, Sound, NotOld
  <1>3. Base
    BY <1>2 DEF Base
  <1>4. Locals
    <2>1. MaxFaults \in Nat
      BY MigrationsAssumption
    <2>2. 0 \in 0..MaxFaults /\ 1 \in 1..Len(Plan) + 1
      BY <1>1, <2>1
    <2>3. at \in [Process -> 1..Len(Plan) + 1]
      BY <2>2 DEF Init
    <2> QED BY <2>2, <2>3 DEF Init, Locals
  <1> QED BY <1>3, <1>4 DEF Init, Inv, Behind, Here, Applying

(* Steps that only look.                                                   *)
LEMMA LookStep ==
  ASSUME Inv, NEW p \in Process, Boot(p) \/ Check(p) \/ Apply(p) \/ Restart(p)
  PROVE  Inv' /\ disk' = disk
  <1>0. Len(Plan) \in Nat /\ Behind(p) /\ Here(p)
    BY Steps DEF Inv
  <1>1. Reads
    BY DEF Boot, Check, Apply, Restart
  <1>2. Base' /\ View(p)' = View(p) /\ Others(p) /\ disk' = disk
    BY <1>1, JustReads DEF Inv
  <1>3. CASE Boot(p) \/ Restart(p)
    <2>1. Locals' /\ ((pc'[p] = "script" /\ at'[p] = 1) \/ pc'[p] = "down")
      BY <1>0, <1>3 DEF Boot, Restart, Goto, Stay, Inv, Locals
    <2>2. \A q \in Process \ {p} : pc'[q] = pc[q] /\ at'[q] = at[q]
      BY <1>3 DEF Boot, Restart, Goto, Stay, Inv, Locals
    <2>3. Behind(p)' /\ Here(p)'
      BY <2>1 DEF Behind, Here, Applying
    <2> QED BY <1>2, <2>1, <2>2, <2>3, Assemble
  <1>4. CASE Check(p)
    <2>1. Locals' /\ \A q \in Process \ {p} : pc'[q] = pc[q] /\ at'[q] = at[q]
      BY <1>0, <1>4 DEF Check, Goto, Stay, Inv, Locals
    <2>2. pc[p] = "check" /\ at[p] \in 1..Len(Plan) + 1
      BY <1>4 DEF Check, Inv, Locals
    <2>3. CASE at[p] > Len(Plan)
      <3>1. pc'[p] = "commit" /\ at'[p] = at[p]
        BY <1>4, <2>3 DEF Check, Goto, Stay, Inv, Locals
      <3> QED BY <1>0, <1>2, <2>1, <2>2, <2>3, <3>1, Assemble DEF Behind, Here, Applying
    <2>4. CASE ~(at[p] > Len(Plan)) /\ First(at[p]) /\ Plan[at[p]].name \notin View(p).recorded
      <3>1. pc'[p] = "apply" /\ at'[p] = at[p] /\ at[p] \in Step
        BY <1>0, <1>4, <2>2, <2>4 DEF Check, Goto, Stay, Inv, Locals, Step
      <3> QED BY <1>0, <1>2, <2>1, <2>2, <3>1, Assemble DEF Behind, Here, Applying
    <2>5. CASE ~(at[p] > Len(Plan)) /\ ~(First(at[p]) /\ Plan[at[p]].name \notin View(p).recorded)
      <3>1. pc'[p] = "check" /\ at'[p] = at[p] + 1 /\ at[p] \in Step
        BY <1>0, <1>4, <2>2, <2>5 DEF Check, Goto, Stay, Inv, Locals, Step
      <3>2. Plan[at[p]].name \in View(p).recorded
        <4>1. CASE First(at[p])
          BY <2>5, <4>1
        <4>2. CASE ~First(at[p])
          <5>1. at[p] - 1 \in Step /\ at[p] - 1 < at[p] /\ Plan[at[p] - 1].name = Plan[at[p]].name
            BY <1>0, <3>1, <4>2 DEF First, Step
          <5>2. Plan[at[p] - 1].name \in View(p).recorded
            BY <1>0, <2>2, <5>1 DEF Behind
          <5> QED BY <5>1, <5>2
        <4> QED BY <4>1, <4>2
      <3>3. \A j \in Step : j < at[p] + 1 => Plan[j].name \in View(p).recorded
        <4>1. \A j \in Step : j < at[p] + 1 => j < at[p] \/ j = at[p]
          BY <1>0, <3>1 DEF Step
        <4> QED BY <1>0, <2>2, <3>2, <4>1 DEF Behind
      <3> QED BY <1>2, <2>1, <3>1, <3>3, Assemble DEF Behind, Here, Applying
    <2> QED BY <2>3, <2>4, <2>5
  <1>5. CASE Apply(p)
    <2>1. pc[p] = "apply" /\ at[p] \in Step /\ Plan[at[p]].kind \in {"rebuild", "column", "update"}
      BY <1>0, <1>5, Steps DEF Apply, Here, Applying
    <2>2. CASE Done(p) /\ This(p).schema = "new"
      <3>1. Later(View(p), View(p)') /\ NotOld(View(p)', at[p])
        BY <1>2, <2>2 DEF This, NotOld, Later
      <3>2. Behind(p)' /\ Here(p)' /\ Locals'
        BY <2>1, <2>2, <3>1, DoneStep DEF Applying
      <3>3. \A q \in Process \ {p} : pc'[q] = pc[q] /\ at'[q] = at[q]
        BY <2>2 DEF Done, Goto, Stay, Inv, Locals
      <3> QED BY <1>2, <3>2, <3>3, Assemble
    <2>3. CASE \E l \in {"update", "alter", "rename"} : Goto(p, l) /\ Stay(p)
      <3>1. PICK l \in {"update", "alter", "rename"} : Goto(p, l) /\ Stay(p)
        BY <2>3
      <3>2. /\ Locals' /\ pc'[p] = l /\ at'[p] = at[p]
            /\ \A q \in Process \ {p} : pc'[q] = pc[q] /\ at'[q] = at[q]
        BY <3>1 DEF Goto, Stay, Inv, Locals
      <3> QED BY <1>0, <1>2, <2>1, <3>2, Assemble DEF Behind, Here, Applying
    <2> QED BY <1>5, <2>1, <2>2, <2>3 DEF Apply
  <1> QED BY <1>3, <1>4, <1>5

(* The statements of the schema script.                                    *)
LEMMA ScriptStep ==
  ASSUME Inv, NEW p \in Process, Script(p)
  PROVE  Inv' /\ disk'.recorded = disk.recorded
  <1> DEFINE missing == {i \in Step : View(p).table[i].schema = "none"}
             db == [View(p) EXCEPT !.table = [i \in Step |->
                      IF i \in missing THEN [@[i] EXCEPT !.schema = "new"] ELSE @[i]]]
  <1>1. View(p) \in Database /\ Sound(View(p))
    BY Seen DEF Inv
  <1>2. /\ db \in Database /\ Sound(db) /\ Later(View(p), db) /\ db.recorded = View(p).recorded
    BY <1>1 DEF Database, Table, Sound, Later, NotOld
  <1>3. Base' /\ Others(p) /\ disk'.recorded = disk.recorded
    <2>1. CASE missing = {}
      BY <2>1, JustReads DEF Script, Inv
    <2>2. CASE missing # {}
      <3>1. Ddl(p, db)
        BY <2>2 DEF Script
      <3> QED BY <1>2, <3>1, Changes DEF Inv
    <2> QED BY <2>1, <2>2
  <1>4. /\ Locals' /\ pc'[p] = "check" /\ at'[p] = at[p]
        /\ \A q \in Process \ {p} : pc'[q] = pc[q] /\ at'[q] = at[q]
    BY DEF Script, Goto, Stay, Inv, Locals
  <1>5. \A j \in Step : ~(j < at[p])
    BY DEF Script, Inv, Here, Step
  <1>6. Behind(p)' /\ Here(p)'
    BY <1>4, <1>5 DEF Behind, Here, Applying
  <1> QED BY <1>3, <1>4, <1>6, Assemble

(* Statements on the table of the step that end in another statement.      *)
LEMMA TableStep ==
  ASSUME Inv, NEW p \in Process, Rename(p) \/ Create(p) \/ Copy(p)
  PROVE  Inv' /\ disk'.recorded = disk.recorded
  <1>0. at[p] \in Step /\ Behind(p) /\ Here(p) /\ pc[p] \in Applying
    BY DEF Inv, Here, Applying, Rename, Create, Copy
  <1>1. View(p) \in Database /\ Sound(View(p)) /\ This(p) \in Table /\ (This(p).full \/ This(p).legacy)
    BY <1>0, Seen DEF Inv, This, Database, Sound
  <1>2. /\ Locals' /\ at'[p] = at[p] /\ pc'[p] \in {"create", "copy", "drop"}
        /\ \A q \in Process \ {p} : pc'[q] = pc[q] /\ at'[q] = at[q]
    BY DEF Rename, Create, Copy, Goto, Stay, Inv, Locals
  <1>3. PICK table \in Table : /\ table.full \/ table.legacy
                               /\ table.schema # "old"
                               /\ Ddl(p, Put(p, table)) \/ Dml(p, Put(p, table))
                               /\ pc'[p] = "drop" => Dml(p, Put(p, table)) /\ table.full
    <2>1. CASE Rename(p)
      <3>1. [schema |-> "none", full |-> FALSE, legacy |-> TRUE] \in Table
        BY DEF Table
      <3> QED BY <2>1, <3>1 DEF Rename, Goto, Inv, Locals
    <2>2. CASE Create(p)
      <3>1. [This(p) EXCEPT !.schema = "new"] \in Table
        BY <1>1 DEF Table
      <3> QED BY <1>1, <2>2, <3>1 DEF Create, Goto, Inv, Locals, Table
    <2>3. CASE Copy(p)
      <3>1. [This(p) EXCEPT !.full = TRUE] \in Table
        BY <1>1 DEF Table
      <3>2. This(p).schema # "old"
        BY <1>0, <2>3 DEF Copy, Here, NotOld, This
      <3> QED BY <1>1, <2>3, <3>1, <3>2 DEF Copy, Table
    <2> QED BY <2>1, <2>2, <2>3
  <1> DEFINE db == Put(p, table)
  <1>4. /\ db \in Database /\ Sound(db) /\ Later(View(p), db) /\ NotOld(db, at[p])
        /\ db.recorded = View(p).recorded /\ db.table[at[p]] = table
    BY <1>0, <1>3, Puts
  <1>5. Base' /\ View(p)' = db /\ Others(p) /\ disk'.recorded = disk.recorded
    BY <1>3, <1>4, Changes DEF Inv
  <1>6. Behind(p)'
    BY <1>0, <1>2, <1>4, <1>5 DEF Behind, Later, Applying
  <1>7. Here(p)'
    <2>1. pc'[p] = "drop" => writer' = p /\ work' = db
      BY <1>3 DEF Dml
    <2> QED BY <1>0, <1>2, <1>3, <1>4, <1>5, <2>1 DEF Here, Applying
  <1> QED BY <1>2, <1>5, <1>6, <1>7, Assemble

(* Statements that end the step.                                           *)
LEMMA LastStatement ==
  ASSUME Inv, NEW p \in Process, Drop(p) \/ Alter(p) \/ Update(p)
  PROVE  Inv' /\ disk'.recorded = disk.recorded
  <1>0. at[p] \in Step /\ Behind(p) /\ Here(p) /\ pc[p] \in Applying /\ Done(p)
    BY DEF Inv, Here, Applying, Drop, Alter, Update
  <1>1. View(p) \in Database /\ Sound(View(p)) /\ This(p) \in Table /\ (This(p).full \/ This(p).legacy)
    BY <1>0, Seen DEF Inv, This, Database, Sound
  <1>2. PICK table \in Table : /\ table.full \/ table.legacy
                               /\ table.schema # "old"
                               /\ Ddl(p, Put(p, table)) \/ Dml(p, Put(p, table))
    <2>1. CASE Drop(p)
      <3>1. [This(p) EXCEPT !.legacy = FALSE] \in Table
        BY <1>1 DEF Table
      <3>2. This(p).schema # "old" /\ This(p).full
        BY <1>0, <2>1 DEF Drop, Here, NotOld, This, View
      <3> QED BY <1>1, <2>1, <3>1, <3>2 DEF Drop, Table
    <2>2. CASE Alter(p) \/ Update(p)
      <3>1. [This(p) EXCEPT !.schema = "new"] \in Table
        BY <1>1 DEF Table
      <3> QED BY <1>1, <2>2, <3>1 DEF Alter, Update, Table
    <2> QED BY <2>1, <2>2
  <1> DEFINE db == Put(p, table)
  <1>3. /\ db \in Database /\ Sound(db) /\ Later(View(p), db) /\ NotOld(db, at[p])
        /\ db.recorded = View(p).recorded
    BY <1>0, <1>2, Puts
  <1>4. Base' /\ View(p)' = db /\ Others(p) /\ disk'.recorded = disk.recorded
    BY <1>2, <1>3, Changes DEF Inv
  <1>5. Behind(p)' /\ Here(p)' /\ Locals'
    BY <1>0, <1>3, <1>4, DoneStep
  <1>6. \A q \in Process \ {p} : pc'[q] = pc[q] /\ at'[q] = at[q]
    BY <1>0 DEF Done, Goto, Stay, Inv, Locals
  <1> QED BY <1>4, <1>5, <1>6, Assemble

(* A record keeps the invariant and is not committed yet. *)
LEMMA RecordStep ==
  ASSUME Inv, NEW p \in Process, Record(p)
  PROVE  Inv' /\ disk'.recorded = disk.recorded
  <1> DEFINE name == Plan[at[p]].name
             db == [View(p) EXCEPT !.recorded = @ \cup {name}]
  <1>0. /\ at[p] \in Step /\ Len(Plan) \in Nat /\ Behind(p) /\ pc[p] = "record"
        /\ Last(at[p]) /\ NotOld(View(p), at[p])
    BY Steps DEF Inv, Here, Applying, Record
  <1>1. View(p) \in Database /\ Sound(View(p))
    BY Seen DEF Inv
  <1>2. ASSUME NEW j \in Step, Plan[j].name = name PROVE NotOld(View(p), j)
    <2>1. CASE j < at[p]
      BY <1>0, <1>1, <1>2, <2>1 DEF Behind, Applying, Sound
    <2>2. CASE j = at[p]
      BY <1>0, <2>2
    <2>3. CASE at[p] < j
      <3>1. at[p] + 1 \in Step /\ (at[p] + 1 < j \/ j = at[p] + 1) /\ at[p] < at[p] + 1
        BY <1>0, <2>3 DEF Step
      <3>2. Plan[at[p] + 1].name = name
        <4>1. CASE j = at[p] + 1
          BY <1>2, <4>1
        <4>2. CASE at[p] + 1 < j
          <5>1. \A i, m, k \in Step :
                   i < m /\ m < k /\ Plan[i].name = Plan[k].name => Plan[m].name = Plan[i].name
            BY MigrationsAssumption
          <5> QED BY <1>0, <1>2, <3>1, <4>2, <5>1
        <4> QED BY <3>1, <4>1, <4>2
      <3> QED BY <1>0, <3>1, <3>2 DEF Last, Step
    <2> QED BY <1>0, <2>1, <2>2, <2>3 DEF Step
  <1>3. db \in Database /\ Sound(db) /\ Later(View(p), db) /\ db.recorded = View(p).recorded \cup {name}
    <2>1. name \in Name
      BY <1>0 DEF Name
    <2> QED BY <1>1, <1>2, <2>1 DEF Database, Sound, Later, NotOld
  <1>4. Base' /\ View(p)' = db /\ Others(p) /\ disk'.recorded = disk.recorded
    BY <1>3, Changes DEF Record, Inv
  <1>5. /\ Locals' /\ pc'[p] = "check" /\ at'[p] = at[p] + 1
        /\ \A q \in Process \ {p} : pc'[q] = pc[q] /\ at'[q] = at[q]
    BY <1>0 DEF Record, Goto, Inv, Locals, Step
  <1>6. \A j \in Step : j < at[p] + 1 => Plan[j].name \in db.recorded
    <2>1. \A j \in Step : j < at[p] + 1 => j < at[p] \/ j = at[p]
      BY <1>0 DEF Step
    <2> QED BY <1>0, <1>3, <2>1 DEF Behind, Applying
  <1>7. Behind(p)' /\ Here(p)'
    BY <1>4, <1>5, <1>6 DEF Behind, Here, Applying
  <1> QED BY <1>4, <1>5, <1>7, Assemble

(* The commit publishes all records. *)
LEMMA CommitStep ==
  ASSUME Inv, NEW p \in Process, Commit(p)
  PROVE  Inv' /\ disk'.recorded = Name
  <1>0. View(p) \in Database /\ Sound(View(p)) /\ Later(disk, View(p)) /\ Behind(p) /\ Here(p)
    BY Seen DEF Inv
  <1>1. disk' = View(p) /\ work' = View(p) /\ writer' = NoProcess /\ Free(p)
    BY DEF Commit
  <1>2. Base'
    BY <1>0, <1>1 DEF Base, Sound, NotOld
  <1>3. Others(p)
    <2>1. ASSUME NEW q \in Process, q # p PROVE writer # q /\ q # NoProcess /\ View(q) = disk /\ View(q)' = disk'
      BY <1>1, <2>1, MigrationsAssumption DEF Free, View
    <2> QED BY <1>0, <1>1, <2>1 DEF Others
  <1>4. /\ Locals' /\ pc'[p] = "up"
        /\ \A q \in Process \ {p} : pc'[q] = pc[q] /\ at'[q] = at[q]
    BY DEF Commit, Goto, Stay, Inv, Locals
  <1>5. Behind(p)' /\ Here(p)'
    BY <1>4 DEF Behind, Here, Applying
  <1>6. disk'.recorded = Name
    <2>1. \A j \in Step : Plan[j].name \in View(p).recorded
      <3>1. \A j \in Step : j < at[p]
        BY <1>0, Steps DEF Commit, Here, Step, Inv, Locals
      <3> QED BY <1>0, <3>1 DEF Commit, Behind
    <2>2. View(p).recorded \subseteq Name
      BY <1>0 DEF Database
    <2> QED BY <1>1, <2>1, <2>2 DEF Name
  <1> QED BY <1>2, <1>3, <1>4, <1>5, <1>6, Assemble

(* Deaths and errors.                                                      *)
LEMMA LeaveStep ==
  ASSUME Inv, NEW p \in Process, Conflict(p) \/ Fault(p)
  PROVE  Inv' /\ disk' = disk
  <1>1. PICK l \in {"down", "raised"} : Leave(p, l) /\ faults' \in {faults, faults + 1}
                                        /\ (faults' # faults => faults < MaxFaults)
    BY DEF Conflict, Fault
  <1>2. disk' = disk /\ work' = IF writer = p THEN disk ELSE work
    BY <1>1 DEF Leave
  <1>3. writer' = IF writer = p THEN NoProcess ELSE writer
    BY <1>1 DEF Leave
  <1>4. Base'
    BY <1>2, <1>3 DEF Base, Sound, NotOld, Later, Inv
  <1>5. Others(p)
    BY <1>2, <1>3, MigrationsAssumption DEF Others, View, Later
  <1>6. /\ Locals' /\ pc'[p] = l
        /\ \A q \in Process \ {p} : pc'[q] = pc[q] /\ at'[q] = at[q]
    <2>1. MaxFaults \in Nat
      BY MigrationsAssumption
    <2> QED BY <1>1, <2>1 DEF Leave, Inv, Locals
  <1>7. Behind(p)' /\ Here(p)'
    BY <1>6 DEF Behind, Here, Applying
  <1> QED BY <1>2, <1>4, <1>5, <1>6, <1>7, Assemble

(* Every step keeps the invariant and the records, or commits them all. *)
LEMMA InvNext ==
  ASSUME Inv, [Next]_vars
  PROVE  Inv' /\ (disk'.recorded = disk.recorded \/ disk'.recorded = Name)
  <1>1. ASSUME NEW p \in Process, Work(p) \/ Fault(p)
        PROVE  Inv' /\ (disk'.recorded = disk.recorded \/ disk'.recorded = Name)
    BY <1>1, LookStep, ScriptStep, TableStep, LastStatement, RecordStep, CommitStep, LeaveStep DEF Work
  <1>2. CASE UNCHANGED vars
    BY <1>2 DEF vars, Inv, Base, Locals, Behind, Here, View, Sound, Later, NotOld
  <1> QED BY <1>1, <1>2 DEF Next

(* The invariant holds whoever dies. *)
LEMMA Invariant == Spec => []Inv
  <1>1. Inv /\ [Next]_vars => Inv'
    BY InvNext
  <1> QED BY InvInit, <1>1, PTL DEF Spec

-----------------------------------------------------------------------------
(* What bootstraps that are not interrupted leave. *)

Whole(table) == table.full /\ ~table.legacy

(* A process that rebuilds a table, and has yet to drop the old one.       *)
Rebuilds(p, i) == pc[p] \in {"create", "copy", "drop"} /\ at[p] = i

(* A transaction is somebody's who goes on.                                *)
Settled ==
    /\ writer = NoProcess => work = disk
    /\ writer # NoProcess => pc[writer] \notin {"down", "up", "raised"}

(* A table that is not whole is being rebuilt.                             *)
Complete == \A i \in Step : Whole(work.table[i]) \/ \E p \in Process : Rebuilds(p, i)

InHand == interrupted \/ (Settled /\ Complete)

(* Another process is where it was.                                        *)
OnlyMoves(p) == \A q \in Process \ {p} : pc'[q] = pc[q] /\ at'[q] = at[q]

(* A statement of a process that goes on.                                  *)
LEMMA Statement ==
  ASSUME Base, Settled, NEW p \in Process, NEW db, Ddl(p, db) \/ Dml(p, db),
         OnlyMoves(p), pc'[p] \notin {"down", "up", "raised"}
  PROVE  View(p) = work /\ work' = db /\ Settled'
  <1>1. p # NoProcess /\ writer \in {p, NoProcess}
    BY MigrationsAssumption DEF Ddl, Dml, Free
  <1>2. View(p) = work
    BY <1>1 DEF View, Settled
  <1>3. work' = db /\ (writer' = p \/ (writer' = NoProcess /\ disk' = db))
    BY <1>1 DEF Ddl, Dml
  <1> QED BY <1>1, <1>2, <1>3 DEF Settled

(* Tables that stay whole, or are taken in hand.                           *)
LEMMA StillComplete ==
  ASSUME Complete, NEW p \in Process, OnlyMoves(p),
         \A i \in Step :
            \/ /\ Whole(work.table[i]) => Whole(work'.table[i])
               /\ Rebuilds(p, i) => Rebuilds(p, i)' \/ Whole(work'.table[i])
            \/ Rebuilds(p, i)'
  PROVE  Complete'
  <1> SUFFICES ASSUME NEW i \in Step
               PROVE  Whole(work'.table[i]) \/ \E q \in Process : Rebuilds(q, i)'
    BY DEF Complete
  <1>1. \A q \in Process \ {p} : Rebuilds(q, i) => Rebuilds(q, i)'
    BY DEF Rebuilds, OnlyMoves
  <1>2. CASE Rebuilds(p, i)'
    BY <1>2
  <1>3. CASE Whole(work.table[i])
    BY <1>2, <1>3
  <1>4. CASE Rebuilds(p, i)
    BY <1>2, <1>4
  <1>5. CASE \E q \in Process \ {p} : Rebuilds(q, i)
    BY <1>1, <1>5
  <1> QED BY <1>3, <1>4, <1>5 DEF Complete

(* A step that ends, ends in the next one or in the record.                *)
LEMMA DoneGoes ==
  ASSUME Locals, NEW p \in Process, Done(p)
  PROVE  pc'[p] \in {"record", "apply"} /\ OnlyMoves(p) /\ interrupted' = interrupted
  BY DEF Done, Goto, Stay, Locals, OnlyMoves

(* Who only looks changes nothing, and has no table in hand.               *)
LEMMA LooksInHand ==
  ASSUME Inv, Settled, Complete, NEW p \in Process, Boot(p) \/ Check(p) \/ Apply(p) \/ Restart(p)
  PROVE  Settled' /\ Complete' /\ interrupted' = interrupted
  <1>1. Locals /\ UNCHANGED <<disk, work, writer>>
    BY DEF Inv, Reads, Boot, Check, Apply, Restart
  <1>2. \A i \in Step : ~Rebuilds(p, i)
    BY DEF Boot, Check, Apply, Restart, Rebuilds
  <1>3. OnlyMoves(p) /\ interrupted' = interrupted
        /\ (pc'[p] \in {"down", "up", "raised"} => pc[p] \in {"down", "up", "raised"})
    <2>1. CASE Boot(p) \/ Check(p) \/ Restart(p)
      BY <1>1, <2>1 DEF Boot, Check, Restart, Goto, Stay, Locals, OnlyMoves
    <2>2. CASE Apply(p)
      <3>1. Plan[at[p]].kind \in {"rebuild", "column", "update"}
        BY <2>2, Steps DEF Apply, Inv, Here, Applying
      <3>2. Done(p) \/ \E l \in {"update", "alter", "rename"} : Goto(p, l) /\ Stay(p)
        BY <2>2, <3>1 DEF Apply
      <3> QED BY <1>1, <3>2, DoneGoes DEF Goto, Stay, Locals, OnlyMoves
    <2> QED BY <2>1, <2>2
  <1>4. Settled'
    BY <1>1, <1>3 DEF Settled, Base, Inv, OnlyMoves
  <1>5. Complete'
    BY <1>1, <1>2, <1>3, StillComplete
  <1> QED BY <1>3, <1>4, <1>5

(* A table is put out of the way by who rebuilds it, and put back by the   *)
(* same.                                                                   *)
LEMMA TableInHand ==
  ASSUME Inv, Settled, Complete, NEW p \in Process, Rename(p) \/ Create(p) \/ Copy(p)
  PROVE  Settled' /\ Complete' /\ interrupted' = interrupted
  <1>1. /\ OnlyMoves(p) /\ pc'[p] \in {"create", "copy", "drop"} /\ at'[p] = at[p]
        /\ interrupted' = interrupted /\ at[p] \in Step
    BY DEF Rename, Create, Copy, Goto, Stay, OnlyMoves, Inv, Locals, Here, Applying
  <1>2. PICK table : Ddl(p, Put(p, table)) \/ Dml(p, Put(p, table))
    BY DEF Rename, Create, Copy
  <1>3. View(p) = work /\ work' = Put(p, table) /\ Settled'
    BY <1>1, <1>2, Statement DEF Inv
  <1>4. \A i \in Step \ {at[p]} : work'.table[i] = work.table[i]
    BY <1>3 DEF Put, Inv, Base, Database
  <1>5. Complete'
    BY <1>1, <1>4, StillComplete DEF Rebuilds
  <1> QED BY <1>1, <1>3, <1>5

(* The old table is dropped when the new one has the rows.                 *)
LEMMA DropInHand ==
  ASSUME Inv, Settled, Complete, NEW p \in Process, Drop(p) \/ Alter(p) \/ Update(p)
  PROVE  Settled' /\ Complete' /\ interrupted' = interrupted
  <1>1. /\ OnlyMoves(p) /\ pc'[p] \in {"record", "apply"} /\ interrupted' = interrupted
        /\ at[p] \in Step /\ Here(p)
    BY DoneGoes DEF Drop, Alter, Update, Inv, Here, Applying
  <1>2. PICK table : /\ Ddl(p, Put(p, table)) \/ Dml(p, Put(p, table))
                     /\ table \in {[This(p) EXCEPT !.legacy = FALSE], [This(p) EXCEPT !.schema = "new"]}
                     /\ Drop(p) => table = [This(p) EXCEPT !.legacy = FALSE]
                     /\ ~Drop(p) => table = [This(p) EXCEPT !.schema = "new"]
    BY DEF Drop, Alter, Update
  <1>3. View(p) = work /\ work' = Put(p, table) /\ Settled'
    BY <1>1, <1>2, Statement DEF Inv
  <1>4. /\ \A i \in Step \ {at[p]} : work'.table[i] = work.table[i]
        /\ work'.table[at[p]] = table /\ This(p) = work.table[at[p]] /\ This(p) \in Table
    BY <1>1, <1>3 DEF Put, This, Inv, Base, Database
  <1>5. Whole(work.table[at[p]]) => Whole(table)
    BY <1>2, <1>4 DEF Whole, Table
  <1>6. \A i \in Step : Rebuilds(p, i) => i = at[p] /\ Whole(table)
    <2>1. CASE Drop(p)
      <3>1. work.table[at[p]].full
        BY <1>1, <2>1 DEF Drop, Here
      <3> QED BY <1>2, <1>4, <2>1, <3>1 DEF Whole, Rebuilds, Table
    <2>2. CASE Alter(p) \/ Update(p)
      BY <2>2 DEF Rebuilds, Alter, Update
    <2> QED BY <2>1, <2>2
  <1>7. Complete'
    BY <1>1, <1>4, <1>5, <1>6, StillComplete
  <1> QED BY <1>1, <1>3, <1>7

(* The script, the record and the commit touch the rows of no table.       *)
LEMMA RestInHand ==
  ASSUME Inv, Settled, Complete, NEW p \in Process, Script(p) \/ Record(p) \/ Commit(p)
  PROVE  Settled' /\ Complete' /\ interrupted' = interrupted
  <1>1. /\ OnlyMoves(p) /\ interrupted' = interrupted /\ pc'[p] \in {"check", "up"}
        /\ ~Commit(p) => pc'[p] = "check"
        /\ \A i \in Step : ~Rebuilds(p, i)
    BY DEF Script, Record, Commit, Goto, Stay, OnlyMoves, Inv, Locals, Rebuilds
  <1>2. CASE Script(p)
    <2> DEFINE missing == {i \in Step : View(p).table[i].schema = "none"}
               db == [View(p) EXCEPT !.table = [i \in Step |->
                        IF i \in missing THEN [@[i] EXCEPT !.schema = "new"] ELSE @[i]]]
    <2>1. CASE UNCHANGED <<disk, work, writer>>
      <3>1. pc'[p] = "check"
        BY <1>2 DEF Script, Goto, Inv, Locals
      <3>2. Settled'
        BY <1>1, <2>1, <3>1 DEF Settled, OnlyMoves, Inv, Base
      <3> QED BY <1>1, <2>1, <3>2, StillComplete
    <2>2. CASE Ddl(p, db)
      <3>1. pc'[p] \notin {"down", "up", "raised"}
        BY <1>2 DEF Script, Goto, Inv, Locals
      <3> HIDE DEF db
      <3>2. View(p) = work /\ work' = db /\ Settled'
        BY <1>1, <2>2, <3>1, Statement DEF Inv
      <3>3. work \in Database
        BY DEF Inv, Base
      <3>4. \A i \in Step : Whole(work.table[i]) => Whole(work'.table[i])
        BY <3>2, <3>3 DEF db, Whole, Database, Table
      <3> QED BY <1>1, <3>2, <3>4, StillComplete
    <2> QED BY <1>2, <2>1, <2>2 DEF Script, Reads
  <1>3. CASE Record(p)
    <2> DEFINE db == [View(p) EXCEPT !.recorded = @ \cup {Plan[at[p]].name}]
    <2>1. Dml(p, db) /\ pc'[p] \notin {"down", "up", "raised"}
      BY <1>3 DEF Record, Goto, Inv, Locals
    <2> HIDE DEF db
    <2>2. View(p) = work /\ work' = db /\ Settled'
      BY <1>1, <2>1, Statement DEF Inv
    <2>3. work'.table = work.table
      BY <2>2 DEF db, Inv, Base, Database
    <2> QED BY <1>1, <2>2, <2>3, StillComplete
  <1>4. CASE Commit(p)
    <2>1. View(p) = work
      BY <1>4 DEF Commit, Free, View, Settled
    <2>2. work' = work /\ disk' = work /\ writer' = NoProcess
      BY <1>4, <2>1 DEF Commit
    <2>3. Settled'
      BY <2>2 DEF Settled
    <2> QED BY <1>1, <2>2, <2>3, StillComplete
  <1> QED BY <1>2, <1>3, <1>4

(* No table is given up but by an interruption.                            *)
LEMMA InHandNext ==
  ASSUME Inv, InHand, [Next]_vars
  PROVE  InHand'
  <1>1. ASSUME NEW p \in Process, Work(p) \/ Fault(p) PROVE InHand'
    <2>1. CASE Conflict(p) \/ Fault(p)
      BY <2>1 DEF Conflict, Fault, Leave, InHand
    <2>2. CASE interrupted /\ Work(p) /\ ~Conflict(p)
      <3>1. CASE Apply(p)
        <4>1. Plan[at[p]].kind \in {"rebuild", "column", "update"}
          BY <3>1, Steps DEF Apply, Inv, Here, Applying
        <4>2. Done(p) \/ \E l \in {"update", "alter", "rename"} : Goto(p, l)
          BY <3>1, <4>1 DEF Apply
        <4> QED BY <2>2, <4>2, DoneGoes DEF Goto, InHand, Inv
      <3>2. CASE Drop(p) \/ Alter(p) \/ Update(p)
        BY <2>2, <3>2, DoneGoes DEF Drop, Alter, Update, InHand, Inv
      <3>3. CASE \/ Boot(p) \/ Script(p) \/ Check(p) \/ Rename(p) \/ Create(p) \/ Copy(p)
                 \/ Record(p) \/ Commit(p) \/ Restart(p)
        BY <2>2, <3>3 DEF Boot, Script, Check, Rename, Create, Copy, Record, Commit, Restart,
                          Goto, InHand
      <3> QED BY <2>2, <3>1, <3>2, <3>3 DEF Work
    <2>3. CASE ~interrupted /\ Work(p) /\ ~Conflict(p)
      BY <2>3, LooksInHand, TableInHand, DropInHand, RestInHand DEF Work, InHand
    <2> QED BY <1>1, <2>1, <2>2, <2>3
  <1>2. CASE UNCHANGED vars
    BY <1>2 DEF vars, InHand, Settled, Complete, Rebuilds
  <1> QED BY <1>1, <1>2 DEF Next

-----------------------------------------------------------------------------
(* The theorems. *)

(* The variables have their types.                                         *)
THEOREM TypeCorrect == Spec => []TypeOK
  <1>1. Inv => TypeOK
    BY DEF Inv, Base, Locals, TypeOK
  <1> QED BY Invariant, <1>1, PTL

(* No death, no error and no second process that starts destroys the rows  *)
(* of a table that its new definition admits, whatever the migrations are. *)
THEOREM RowsSurvive == Spec => []NothingDestroyed
  <1>1. Inv => NothingDestroyed
    BY DEF Inv, Base, Sound, NothingDestroyed
  <1> QED BY Invariant, <1>1, PTL

(* What is recorded as applied was applied.                                *)
THEOREM RecordsAreTrue == Spec => []RecordedMeansMigrated
  <1>1. Inv => RecordedMeansMigrated
    BY DEF Inv, Base, Sound, NotOld, RecordedMeansMigrated
  <1> QED BY Invariant, <1>1, PTL

(* All pending migrations are recorded together.                           *)
THEOREM RecordedTogether == Spec => AllAtOnce
  <1>1. Inv /\ [Next]_vars => [disk'.recorded # disk.recorded => disk'.recorded = Name]_vars
    BY InvNext
  <1> QED BY Invariant, <1>1, PTL DEF Spec, AllAtOnce

(* When everybody has started, only an interruption can have left rows in  *)
(* a renamed table: processes that start together never do.                *)
THEOREM OnlyInterruptionsLeaveRows == Spec => []LeftBehindByInterruption
  <1>1. Init => InHand
    BY DEF Init, InHand, Settled, Complete, Whole
  <1>2. Inv /\ InHand /\ [Next]_vars => InHand'
    BY InHandNext
  <1>3. ASSUME Inv, InHand PROVE LeftBehindByInterruption
    <2> SUFFICES ASSUME \A p \in Process : pc[p] = "up", ~interrupted, NEW i \in Step
                 PROVE  Whole(disk.table[i])
      BY DEF LeftBehindByInterruption, Whole
    <2>1. writer = NoProcess /\ work = disk
      BY <1>3 DEF InHand, Settled, Inv, Base
    <2> QED BY <1>3, <2>1 DEF InHand, Complete, Rebuilds
  <1> QED BY <1>1, <1>2, <1>3, Invariant, PTL DEF Spec
=============================================================================
