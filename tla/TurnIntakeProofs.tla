-------------------------- MODULE TurnIntakeProofs --------------------------
(***************************************************************************)
(* What the outbox and the intake promise, for any number of requests,     *)
(* keys, processes, events and failures: what each step of the outbox      *)
(* keeps, and that the intake implements IdempotentIntake and that a run   *)
(* exists with its key and its events or not at all.                       *)
(***************************************************************************)
EXTENDS TurnIntake, FiniteSetTheorems, SequenceTheorems, TLAPS

(* The outbox. *)

(* Of a batch, every event is still to be announced or was; and no earlier *)
(* event was passed over as pending when it was leased.                    *)
BatchInv(p) ==
    /\ pc[p] # "publishing" => todo[p] = {}
    /\ todo[p] \subseteq held[p]
    /\ \A e \in held[p] : e \in todo[p] \/ announced[e] > 0
    /\ \A f \in held[p] : \A e \in 1..f : outbox[e].status # "pending"

OutboxInv ==
    /\ OutboxTypeOK
    /\ \A p \in Process : BatchInv(p)
    /\ MarkedIsAnnounced

-----------------------------------------------------------------------------
(* The invariant of the outbox holds while it is empty. *)
LEMMA OutboxInitially == OutboxInit => OutboxInv
  BY OutboxAssumption
     DEF OutboxInit, OutboxInv, OutboxTypeOK, Event, BatchInv, MarkedIsAnnounced

Rows == [run : Run, status : {"pending", "leased", "published"}, age : 0..LeaseTicks]

(* SetStatus changes rows in place and nothing else.                       *)
LEMMA InPlace ==
  ASSUME OutboxTypeOK, NEW es, NEW s \in {"pending", "leased", "published"}, SetStatus(es, s)
  PROVE  /\ outbox' \in Seq(Rows)
         /\ Len(outbox') = Len(outbox) /\ Event' = Event
         /\ \A e \in Event : /\ outbox'[e].run = outbox[e].run
                             /\ outbox'[e].status = IF e \in es THEN s ELSE outbox[e].status
  <1>0. outbox \in Seq(Rows)
    BY DEF OutboxTypeOK, Rows
  <1>1. Len(outbox) \in Nat /\ \A e \in Event : outbox[e] \in Rows
    BY <1>0, LenProperties, ElementOfSeq DEF Event
  <1>2. 0 \in 0..LeaseTicks
    BY OutboxAssumption
  <1>3. outbox' \in [1..Len(outbox) -> Rows]
    BY <1>1, <1>2 DEF SetStatus, Event, Rows
  <1>4. outbox' \in Seq(Rows) /\ Len(outbox') = Len(outbox)
    BY <1>1, <1>3, SeqDef
  <1> QED BY <1>1, <1>4 DEF SetStatus, Event, Rows

(* Staged events are new, of their run, and pending. *)
LEMMA StageStep ==
  ASSUME OutboxInv, NEW p \in Process, NEW r \in Run, NEW k \in Nat, Stage(p, r, k)
  PROVE  /\ OutboxInv'
         /\ Len(outbox') = Len(outbox) + k
         /\ \A e \in Event' : outbox'[e].run = IF e \in Event THEN outbox[e].run ELSE r
         /\ Event \subseteq Event'
         /\ \A e \in Event' : /\ outbox'[e] = IF e \in Event THEN outbox[e] ELSE Row(r)
                              /\ announced'[e] = IF e \in Event THEN announced[e] ELSE 0
  <1> DEFINE new == [i \in 1..k |-> Row(r)]
             none == [i \in 1..k |-> 0]
  <1>1. outbox \in Seq(Rows)
    BY DEF OutboxInv, OutboxTypeOK, Rows
  <1>2. announced \in Seq(Nat) /\ Len(announced) = Len(outbox)
    <2>1. announced \in [1..Len(outbox) -> Nat] /\ Len(outbox) \in Nat
      BY <1>1, LenProperties DEF OutboxInv, OutboxTypeOK, Event
    <2> QED BY <2>1, SeqDef
  <1>3. new \in Seq(Rows) /\ Len(new) = k
    <2>1. Row(r) \in Rows
      BY OutboxAssumption DEF Row, Rows
    <2>2. new \in [1..k -> Rows]
      BY <2>1
    <2> QED BY <2>2, SeqDef
  <1>4. none \in Seq(Nat) /\ Len(none) = k
    <2>1. none \in [1..k -> Nat]
      OBVIOUS
    <2> QED BY <2>1, SeqDef
  <1>5. /\ outbox' \in Seq(Rows) /\ Len(outbox') = Len(outbox) + k
        /\ \A e \in 1..(Len(outbox) + k) : outbox'[e] = IF e <= Len(outbox) THEN outbox[e] ELSE Row(r)
    <2> HIDE DEF new
    <2>1. outbox' = outbox \o new
      BY DEF Stage, new
    <2>2. \A i \in 1..k : new[i] = Row(r)
      BY DEF new
    <2>3. /\ outbox \o new \in Seq(Rows) /\ Len(outbox \o new) = Len(outbox) + k
          /\ \A e \in 1..(Len(outbox) + k) :
                (outbox \o new)[e] = IF e <= Len(outbox) THEN outbox[e] ELSE new[e - Len(outbox)]
      BY <1>1, <1>3, ConcatProperties
    <2>4. Len(outbox) \in Nat
      BY <1>1, LenProperties
    <2>5. \A e \in 1..(Len(outbox) + k) : ~(e <= Len(outbox)) => e - Len(outbox) \in 1..k
      BY <2>4
    <2> QED BY <2>1, <2>2, <2>3, <2>5
  <1>6. /\ announced' \in Seq(Nat) /\ Len(announced') = Len(outbox) + k
        /\ \A e \in 1..(Len(outbox) + k) :
              announced'[e] = IF e <= Len(outbox) THEN announced[e] ELSE 0
    <2> HIDE DEF none
    <2>1. announced' = announced \o none
      BY DEF Stage, none
    <2>2. \A i \in 1..k : none[i] = 0
      BY DEF none
    <2>3. /\ announced \o none \in Seq(Nat) /\ Len(announced \o none) = Len(outbox) + k
          /\ \A e \in 1..(Len(outbox) + k) :
                (announced \o none)[e] = IF e <= Len(outbox) THEN announced[e] ELSE none[e - Len(outbox)]
      <3>1. /\ announced \o none \in Seq(Nat)
            /\ Len(announced \o none) = Len(announced) + Len(none)
            /\ \A e \in 1..(Len(announced) + Len(none)) :
                  (announced \o none)[e] = IF e <= Len(announced) THEN announced[e]
                                           ELSE none[e - Len(announced)]
        BY <1>2, <1>4, ConcatProperties
      <3> QED BY <1>2, <1>4, <3>1
    <2>4. Len(outbox) \in Nat
      BY <1>1, LenProperties
    <2>5. \A e \in 1..(Len(outbox) + k) : ~(e <= Len(outbox)) => e - Len(outbox) \in 1..k
      BY <2>4
    <2> QED BY <2>1, <2>2, <2>3, <2>5
  <1>7. Len(outbox) \in Nat /\ Event \subseteq Event'
    BY <1>1, <1>5, LenProperties DEF Event
  <1>8. OutboxTypeOK'
    <2>1. announced' \in [Event' -> Nat]
      BY <1>5, <1>6, LenProperties DEF Event
    <2> QED BY <1>5, <1>7, <2>1 DEF Stage, OutboxInv, OutboxTypeOK, Rows
  <1>9. \A q \in Process : BatchInv(q)'
    BY <1>5, <1>6, <1>7 DEF Stage, OutboxInv, OutboxTypeOK, BatchInv, Event
  <1>10. MarkedIsAnnounced'
    BY <1>5, <1>6, <1>7 DEF OutboxInv, MarkedIsAnnounced, Event, Row
  <1>11. \A e \in Event' : /\ outbox'[e] = IF e \in Event THEN outbox[e] ELSE Row(r)
                           /\ announced'[e] = IF e \in Event THEN announced[e] ELSE 0
    BY <1>5, <1>6, <1>7 DEF Event
  <1> QED BY <1>5, <1>7, <1>8, <1>9, <1>10, <1>11 DEF OutboxInv, Event, Row

(* A batch is taken from the front of what can be claimed.                 *)
LEMMA BatchIsFirst ==
  ASSUME OutboxTypeOK, NEW f \in Batch, NEW e \in Claimable, e < f
  PROVE  e \in Batch
  <1> DEFINE Below(x) == {g \in Claimable : g < x}
  <1>1. Claimable \subseteq 1..Len(outbox) /\ Len(outbox) \in Nat
    BY LenProperties DEF Claimable, Event, OutboxTypeOK
  <1>2. IsFiniteSet(Below(f)) /\ Below(f) \in SUBSET (1..Len(outbox))
    <2>1. IsFiniteSet(1..Len(outbox))
      BY <1>1, FS_Interval
    <2> QED BY <1>1, <2>1, FS_Subset
  <1>3. Below(e) \in SUBSET Below(f)
    <2>1. e \in Nat /\ f \in Nat /\ \A x \in Claimable : x \in Nat
      BY <1>1 DEF Batch
    <2>2. \A x \in Claimable : x < e => x < f
      BY <2>1
    <2> QED BY <2>2
  <1>4. /\ Cardinality(Below(e)) <= Cardinality(Below(f))
        /\ Cardinality(Below(e)) \in Nat /\ Cardinality(Below(f)) \in Nat
    BY <1>2, <1>3, FS_Subset, FS_CardinalityType
  <1>5. Cardinality(Below(f)) < BatchSize
    BY DEF Batch
  <1> QED BY <1>4, <1>5, OutboxAssumption DEF Batch

(* No event is added or changes its run.                                   *)
SameEvents == Len(outbox') = Len(outbox) /\ \A e \in Event : outbox'[e].run = outbox[e].run

(* A batch that is leased keeps the invariant. *)
LEMMA ClaimStep ==
  ASSUME OutboxInv, NEW p \in Process, Claim(p)
  PROVE  OutboxInv' /\ SameEvents
  <1>0. OutboxTypeOK /\ SetStatus(Batch, "leased") /\ Len(outbox) \in Nat
    BY LenProperties DEF Claim, OutboxInv, OutboxTypeOK
  <1>1. /\ outbox' \in Seq(Rows)
        /\ Len(outbox') = Len(outbox) /\ Event' = Event
        /\ \A e \in Event : /\ outbox'[e].run = outbox[e].run
                            /\ outbox'[e].status = IF e \in Batch THEN "leased" ELSE outbox[e].status
    BY <1>0, InPlace
  <1>2. Batch \subseteq Event
    BY DEF Batch, Claimable
  <1>3. OutboxTypeOK'
    BY <1>1, <1>2 DEF Claim, OutboxInv, OutboxTypeOK, Rows
  <1>4. ASSUME NEW f \in Batch, NEW e \in 1..f PROVE outbox'[e].status # "pending"
    <2>1. f \in Event /\ e \in Event /\ (e = f \/ e < f)
      BY <1>0, <1>2 DEF Event
    <2>2. CASE outbox[e].status = "pending"
      BY <1>0, <1>1, <2>1, <2>2, BatchIsFirst DEF Claimable
    <2> QED BY <1>1, <2>1, <2>2
  <1>5. ASSUME NEW q \in Process PROVE BatchInv(q)'
    <2>1. CASE q = p
      BY <1>3, <1>4, <2>1 DEF Claim, OutboxInv, OutboxTypeOK, BatchInv
    <2>2. CASE q # p
      <3>1. held'[q] = held[q] /\ todo'[q] = todo[q] /\ pc'[q] = pc[q] /\ announced' = announced
        BY <2>2 DEF Claim, OutboxInv, OutboxTypeOK
      <3>2. held[q] \subseteq Event /\ BatchInv(q)
        BY DEF OutboxInv, OutboxTypeOK
      <3>3. ASSUME NEW f \in held[q], NEW e \in 1..f PROVE outbox'[e].status # "pending"
        <4>1. e \in Event
          BY <1>0, <3>2 DEF Event
        <4> QED BY <1>1, <3>2, <4>1 DEF BatchInv
      <3> QED BY <3>1, <3>2, <3>3 DEF BatchInv
    <2> QED BY <2>1, <2>2
  <1>6. MarkedIsAnnounced'
    BY <1>1 DEF Claim, OutboxInv, MarkedIsAnnounced
  <1> QED BY <1>1, <1>3, <1>5, <1>6 DEF OutboxInv, SameEvents

(* A row that is marked keeps the invariant. *)
LEMMA MarkStep ==
  ASSUME OutboxInv, NEW p \in Process, Mark(p)
  PROVE  OutboxInv' /\ SameEvents
  <1>m. PICK m \in held[p] :
          /\ SetStatus({m}, "published")
          /\ held' = [held EXCEPT ![p] = @ \ {m}]
          /\ pc' = [pc EXCEPT ![p] = IF held[p] = {m} THEN "idle" ELSE "publishing"]
    BY DEF Mark
  <1>0. OutboxTypeOK /\ Len(outbox) \in Nat /\ pc[p] = "publishing" /\ todo[p] = {}
    BY LenProperties DEF Mark, OutboxInv, OutboxTypeOK
  <1>1. /\ outbox' \in Seq(Rows)
        /\ Len(outbox') = Len(outbox) /\ Event' = Event
        /\ \A e \in Event : /\ outbox'[e].run = outbox[e].run
                            /\ outbox'[e].status = IF e \in {m} THEN "published" ELSE outbox[e].status
    BY <1>m, <1>0, InPlace
  <1>2. OutboxTypeOK'
    BY <1>m, <1>0, <1>1 DEF Mark, OutboxInv, OutboxTypeOK, Rows
  <1>3. ASSUME NEW q \in Process PROVE BatchInv(q)'
    <2>1. /\ held'[q] \subseteq held[q] /\ todo'[q] = todo[q] /\ announced' = announced
          /\ pc'[q] = "publishing" => pc[q] = "publishing"
          /\ todo[q] # {} => pc'[q] = pc[q] /\ held'[q] = held[q]
      BY <1>m, <1>0 DEF Mark, OutboxInv, OutboxTypeOK
    <2>2. held[q] \subseteq Event /\ BatchInv(q)
      BY DEF OutboxInv, OutboxTypeOK
    <2>3. ASSUME NEW f \in held'[q], NEW e \in 1..f PROVE outbox'[e].status # "pending"
      <3>1. e \in Event
        BY <1>0, <2>1, <2>2 DEF Event
      <3> QED BY <1>1, <2>1, <2>2, <3>1 DEF BatchInv
    <2> QED BY <2>1, <2>2, <2>3 DEF BatchInv
  <1>4. MarkedIsAnnounced'
    BY <1>m, <1>0, <1>1 DEF Mark, OutboxInv, BatchInv, MarkedIsAnnounced
  <1> QED BY <1>1, <1>2, <1>3, <1>4 DEF OutboxInv, SameEvents

(* The clock keeps the invariant. *)
LEMMA TickStep ==
  ASSUME OutboxInv, Tick
  PROVE  OutboxInv' /\ SameEvents
  <1>0. outbox \in Seq(Rows)
    BY DEF OutboxInv, OutboxTypeOK, Rows
  <1>1. Len(outbox) \in Nat /\ \A e \in Event : outbox[e] \in Rows
    BY <1>0, LenProperties, ElementOfSeq DEF Event
  <1>2. ASSUME NEW e \in Aging PROVE [outbox[e] EXCEPT !.age = @ + 1] \in Rows
    BY <1>1, OutboxAssumption DEF Aging, Rows
  <1>3. /\ outbox' \in [1..Len(outbox) -> Rows]
        /\ \A e \in Event : outbox'[e].run = outbox[e].run /\ outbox'[e].status = outbox[e].status
    BY <1>1, <1>2 DEF Tick, Event, Rows
  <1>4. outbox' \in Seq(Rows) /\ Len(outbox') = Len(outbox) /\ Event' = Event
    BY <1>1, <1>3, SeqDef DEF Event
  <1>5. OutboxTypeOK'
    <2>1. failures' \in 0..MaxFailures
      BY OutboxAssumption DEF Tick, OutboxInv, OutboxTypeOK
    <2> QED BY <1>4, <2>1 DEF Tick, OutboxInv, OutboxTypeOK, Rows
  <1>6. ASSUME NEW q \in Process PROVE BatchInv(q)'
    <2>1. held[q] \subseteq Event /\ BatchInv(q)
      BY DEF OutboxInv, OutboxTypeOK
    <2>2. ASSUME NEW f \in held[q], NEW e \in 1..f PROVE outbox'[e].status # "pending"
      <3>1. e \in Event
        BY <1>1, <2>1 DEF Event
      <3> QED BY <1>3, <2>1, <3>1 DEF BatchInv
    <2> QED BY <2>1, <2>2 DEF BatchInv, Tick
  <1>7. MarkedIsAnnounced'
    BY <1>3, <1>4 DEF Tick, OutboxInv, MarkedIsAnnounced
  <1> QED BY <1>3, <1>4, <1>5, <1>6, <1>7 DEF OutboxInv, SameEvents

(* An announcement keeps the invariant. *)
LEMMA PublishStep ==
  ASSUME OutboxInv, NEW p \in Process, Publish(p)
  PROVE  OutboxInv' /\ SameEvents
  <1>1. PICK e \in todo[p] : /\ announced' = [announced EXCEPT ![e] = @ + 1]
                             /\ todo' = [todo EXCEPT ![p] = @ \ {e}]
    BY DEF Publish
  <1>2. OutboxTypeOK'
    BY <1>1 DEF Publish, OutboxInv, OutboxTypeOK, Event
  <1>3. \A q \in Process : BatchInv(q)'
    BY <1>1 DEF Publish, OutboxInv, OutboxTypeOK, BatchInv
  <1>4. MarkedIsAnnounced'
    BY <1>1 DEF Publish, OutboxInv, OutboxTypeOK, MarkedIsAnnounced, Event
  <1> QED BY <1>2, <1>3, <1>4 DEF OutboxInv, SameEvents, Publish

(* Emissions, faults, deaths and starts keep the invariant. *)
LEMMA OtherStep ==
  ASSUME OutboxInv, NEW p \in Process, Emit(p) \/ DbFault(p) \/ Crash(p) \/ Restart(p)
  PROVE  OutboxInv' /\ SameEvents
  <1>1. OutboxTypeOK'
    <2>1. outbox' = outbox /\ announced' = announced /\ Event' = Event
      BY DEF Emit, DbFault, Crash, Restart, Event
    <2>2. failures' \in 0..MaxFailures /\ alive' \subseteq Publishing
      BY OutboxAssumption DEF Emit, DbFault, Crash, Restart, OutboxInv, OutboxTypeOK
    <2>3. pc' \in [Process -> {"idle", "emitting", "publishing", "down"}]
      BY DEF Emit, DbFault, Crash, Restart, OutboxInv, OutboxTypeOK
    <2>4. todo' \in [Process -> SUBSET Event] /\ held' \in [Process -> SUBSET Event]
      BY DEF Emit, DbFault, Crash, Restart, OutboxInv, OutboxTypeOK
    <2> QED BY <2>1, <2>2, <2>3, <2>4 DEF OutboxInv, OutboxTypeOK
  <1>2. \A q \in Process : BatchInv(q)'
    BY DEF Emit, DbFault, Crash, Restart, OutboxInv, OutboxTypeOK, BatchInv
  <1>3. MarkedIsAnnounced'
    BY DEF Emit, DbFault, Crash, Restart, OutboxInv, MarkedIsAnnounced, Event
  <1> QED BY <1>1, <1>2, <1>3 DEF OutboxInv, SameEvents, Emit, DbFault, Crash, Restart

(* Who announces an event passes over an earlier one that was never        *)
(* announced only if it is leased: it is older than the batch's first.     *)
LEMMA PublishInOrder ==
  ASSUME OutboxInv, NEW p \in Process, Publish(p),
         NEW e \in Event, NEW f \in Event, e < f,
         announced[e] = 0, announced[f] = 0, announced'[f] = 1
  PROVE  outbox[e].status = "leased"
  <1>1. PICK g \in todo[p] : /\ \A h \in todo[p] : g <= h
                             /\ announced' = [announced EXCEPT ![g] = @ + 1]
    BY DEF Publish
  <1>2. f = g /\ Event \subseteq Nat /\ todo[p] \subseteq Event
    BY <1>1 DEF OutboxInv, OutboxTypeOK, Event
  <1>3. f \in held[p] /\ BatchInv(p)
    BY <1>1, <1>2 DEF OutboxInv, BatchInv
  <1>4. outbox[e].status # "pending"
    BY <1>2, <1>3 DEF BatchInv, Event
  <1>5. outbox[e].status # "published"
    BY DEF OutboxInv, MarkedIsAnnounced
  <1>6. outbox[e].status \in {"pending", "leased", "published"}
    <2>1. outbox \in Seq(Rows)
      BY DEF OutboxInv, OutboxTypeOK, Rows
    <2>2. outbox[e] \in Rows
      BY <2>1, ElementOfSeq DEF Event
    <2> QED BY <2>2 DEF Rows
  <1> QED BY <1>4, <1>5, <1>6

-----------------------------------------------------------------------------
(* How often an event was announced and is going to be. *)

(* The processes that have yet to announce an event.                       *)
Holders(e) == {p \in Process : e \in todo[p]}

(* What was announced, and what is in hand. *)
Load(e) == announced[e] + Cardinality(Holders(e))

(* Nobody has a pending event, and one that can be claimed again, or is    *)
(* going to be, was paid for by a failure.                                 *)
Counted(e) ==
    /\ IsFiniteSet(Holders(e))
    /\ Load(e) <= 1 + failures
    /\ outbox[e].status = "pending" => Load(e) = 0
    /\ /\ outbox[e].status = "leased"
       /\ outbox[e].age >= LeaseTicks \/ \A p \in Process : e \notin held[p]
       => Load(e) <= failures

RepeatInv ==
    /\ \A p \in Process : pc[p] # "publishing" => held[p] = {}
    /\ \A e \in Event : Counted(e)

(* The numbers are numbers. *)
LEMMA LoadTyped ==
  ASSUME OutboxTypeOK, NEW e \in Event, IsFiniteSet(Holders(e))
  PROVE  /\ announced[e] \in Nat /\ Cardinality(Holders(e)) \in Nat /\ Load(e) \in Nat
         /\ failures \in Nat
  <1>1. Cardinality(Holders(e)) \in Nat
    BY FS_CardinalityType
  <1>2. announced[e] \in Nat /\ failures \in Nat
    BY OutboxAssumption DEF OutboxTypeOK
  <1> QED BY <1>1, <1>2 DEF Load

(* An event that a step does not touch. *)
LEMMA CountedAlike ==
  ASSUME NEW e, Counted(e), Holders(e)' = Holders(e), announced'[e] = announced[e],
         failures' = failures, outbox'[e] = outbox[e],
         (\A p \in Process : e \notin held'[p]) => \A p \in Process : e \notin held[p]
  PROVE  Counted(e)'
  <1>1. Load(e)' = Load(e)
    BY DEF Load
  <1> QED BY <1>1 DEF Counted

(* After a failure there is one repetition more to spend. *)
LEMMA CountedFailure ==
  ASSUME OutboxTypeOK, NEW e \in Event, Counted(e), Holders(e)' \in SUBSET Holders(e),
         announced'[e] = announced[e], failures' = failures + 1,
         outbox'[e].status = outbox[e].status
  PROVE  Counted(e)'
  <1>1. IsFiniteSet(Holders(e))
    BY DEF Counted
  <1>2. /\ IsFiniteSet(Holders(e)') /\ Cardinality(Holders(e)') <= Cardinality(Holders(e))
        /\ Cardinality(Holders(e)') \in Nat
    BY <1>1, FS_Subset, FS_CardinalityType
  <1>3. announced[e] \in Nat /\ Cardinality(Holders(e)) \in Nat /\ failures \in Nat
    BY <1>1, LoadTyped
  <1>4. Load(e)' <= Load(e) /\ Load(e)' \in Nat /\ Load(e) \in Nat
    BY <1>2, <1>3 DEF Load
  <1>5. Load(e) <= 1 + failures /\ (outbox[e].status = "pending" => Load(e) = 0)
    BY DEF Counted
  <1>6. /\ Load(e)' <= failures' /\ failures' <= 1 + failures'
        /\ Load(e)' <= 1 + failures'
        /\ outbox'[e].status = "pending" => Load(e)' = 0
    BY <1>3, <1>4, <1>5
  <1> QED BY <1>2, <1>6 DEF Counted

(* A step of the outbox counts every announcement. *)
LEMMA StageCounts ==
  ASSUME OutboxInv, RepeatInv, NEW p \in Process, NEW r \in Run, NEW k \in Nat, Stage(p, r, k)
  PROVE  RepeatInv'
  <1>1. /\ Event \subseteq Event'
        /\ \A e \in Event' : /\ outbox'[e] = IF e \in Event THEN outbox[e] ELSE Row(r)
                             /\ announced'[e] = IF e \in Event THEN announced[e] ELSE 0
    BY StageStep
  <1>2. todo' = todo /\ held' = held /\ failures' = failures
    BY DEF Stage
  <1>3. \A q \in Process : pc'[q] # "publishing" => held'[q] = {}
    BY <1>2 DEF Stage, RepeatInv, OutboxInv, OutboxTypeOK
  <1>4. ASSUME NEW e \in Event PROVE Counted(e)'
    <2>1. Counted(e) /\ Holders(e)' = Holders(e)
      BY <1>2 DEF RepeatInv, Holders
    <2>2. outbox'[e] = outbox[e] /\ announced'[e] = announced[e]
      BY <1>1
    <2> QED BY <1>2, <2>1, <2>2, CountedAlike
  <1>5. ASSUME NEW e \in Event', e \notin Event PROVE Counted(e)'
    <2>1. Holders(e)' = {}
      BY <1>2, <1>5 DEF Holders, OutboxInv, OutboxTypeOK
    <2>2. IsFiniteSet(Holders(e)') /\ Cardinality(Holders(e)') = 0
      BY <2>1, FS_EmptySet
    <2>3. announced'[e] = 0 /\ outbox'[e].status = "pending"
      BY <1>1, <1>5 DEF Row
    <2>4. Load(e)' = 0 /\ failures \in Nat
      BY <2>2, <2>3, OutboxAssumption DEF Load, OutboxInv, OutboxTypeOK
    <2> QED BY <1>2, <2>2, <2>3, <2>4 DEF Counted
  <1> QED BY <1>3, <1>4, <1>5 DEF RepeatInv

(* What can be claimed is not in hand, or was paid for. *)
LEMMA ClaimCounts ==
  ASSUME OutboxInv, RepeatInv, NEW p \in Process, Claim(p)
  PROVE  RepeatInv'
  <1>1. /\ Event' = Event
        /\ \A e \in Event : outbox'[e] = IF e \in Batch
                                         THEN [run |-> outbox[e].run, status |-> "leased", age |-> 0]
                                         ELSE outbox[e]
    <2>1. OutboxTypeOK /\ SetStatus(Batch, "leased")
      BY DEF OutboxInv, Claim
    <2> QED BY <2>1, InPlace DEF SetStatus
  <1>2. /\ \A q \in Process : held'[q] = IF q = p THEN Batch ELSE held[q]
        /\ \A q \in Process : todo'[q] = IF q = p THEN Batch ELSE todo[q]
        /\ announced' = announced /\ failures' = failures
        /\ todo[p] = {} /\ held[p] = {}
    BY DEF Claim, OutboxInv, OutboxTypeOK, BatchInv, RepeatInv
  <1>3. \A q \in Process : pc'[q] # "publishing" => held'[q] = {}
    BY <1>2 DEF Claim, RepeatInv, OutboxInv, OutboxTypeOK
  <1>4. ASSUME NEW e \in Event, e \notin Batch PROVE Counted(e)'
    <2>1. Counted(e) /\ Holders(e)' = Holders(e)
      BY <1>2, <1>4 DEF RepeatInv, Holders
    <2>2. (\A q \in Process : e \notin held'[q]) => \A q \in Process : e \notin held[q]
      BY <1>2
    <2>3. outbox'[e] = outbox[e] /\ announced'[e] = announced[e] /\ failures' = failures
      BY <1>1, <1>2, <1>4
    <2> QED BY <2>1, <2>2, <2>3, CountedAlike
  <1>5. ASSUME NEW e \in Event, e \in Batch PROVE Counted(e)'
    <2>1. Counted(e) /\ IsFiniteSet(Holders(e))
      BY DEF RepeatInv, Counted
    <2>2. /\ announced[e] \in Nat /\ Cardinality(Holders(e)) \in Nat /\ Load(e) \in Nat
          /\ failures \in Nat
      BY <2>1, LoadTyped DEF OutboxInv
    <2>3. Load(e) <= failures
      BY <1>5, <2>1, <2>2 DEF Counted, Batch, Claimable
    <2>4. Holders(e)' = Holders(e) \cup {p} /\ p \notin Holders(e)
      BY <1>2, <1>5 DEF Holders
    <2>5. IsFiniteSet(Holders(e)') /\ Cardinality(Holders(e)') = Cardinality(Holders(e)) + 1
      BY <2>1, <2>4, FS_AddElement
    <2>6. Load(e)' <= 1 + failures
      BY <1>2, <2>2, <2>3, <2>5 DEF Load
    <2>7. outbox'[e].status = "leased" /\ outbox'[e].age = 0 /\ e \in held'[p]
      <3>1. outbox'[e] = [run |-> outbox[e].run, status |-> "leased", age |-> 0]
        BY <1>1, <1>5
      <3>2. e \in held'[p]
        BY <1>2, <1>5
      <3> QED BY <3>1, <3>2
    <2>8. ~(0 >= LeaseTicks)
      BY OutboxAssumption
    <2> QED BY <1>2, <2>5, <2>6, <2>7, <2>8 DEF Counted
  <1> QED BY <1>1, <1>3, <1>4, <1>5 DEF RepeatInv

(* An announcement is out of hand and counted. *)
LEMMA PublishCounts ==
  ASSUME OutboxInv, RepeatInv, NEW p \in Process, Publish(p)
  PROVE  RepeatInv'
  <1>1. PICK f \in todo[p] : /\ announced' = [announced EXCEPT ![f] = @ + 1]
                             /\ todo' = [todo EXCEPT ![p] = @ \ {f}]
    BY DEF Publish
  <1>2. /\ UNCHANGED <<outbox, pc, held, failures>> /\ Event' = Event /\ f \in Event
        /\ announced \in [Event -> Nat] /\ todo \in [Process -> SUBSET Event]
    BY <1>1 DEF Publish, Event, OutboxInv, OutboxTypeOK
  <1>3. ASSUME NEW e \in Event, e # f PROVE Counted(e)'
    <2>1. Counted(e) /\ Holders(e)' = Holders(e)
      BY <1>1, <1>2, <1>3 DEF RepeatInv, Holders
    <2>2. announced'[e] = announced[e]
      BY <1>1, <1>2, <1>3
    <2> QED BY <1>2, <2>1, <2>2, CountedAlike
  <1>4. Counted(f)'
    <2>1. Counted(f) /\ IsFiniteSet(Holders(f))
      BY <1>2 DEF RepeatInv, Counted
    <2>2. announced[f] \in Nat /\ Cardinality(Holders(f)) \in Nat
      BY <1>2, <2>1, LoadTyped DEF OutboxInv
    <2>3. Holders(f)' = Holders(f) \ {p} /\ p \in Holders(f)
      BY <1>1, <1>2 DEF Holders
    <2>4. IsFiniteSet(Holders(f)') /\ Cardinality(Holders(f)') = Cardinality(Holders(f)) - 1
      BY <2>1, <2>3, FS_RemoveElement
    <2>5. announced'[f] = announced[f] + 1
      BY <1>1, <1>2
    <2>6. Load(f)' = Load(f)
      BY <2>2, <2>4, <2>5 DEF Load
    <2> QED BY <1>2, <2>1, <2>4, <2>6 DEF Counted
  <1> QED BY <1>2, <1>3, <1>4 DEF RepeatInv

(* What is marked is over. *)
LEMMA MarkCounts ==
  ASSUME OutboxInv, RepeatInv, NEW p \in Process, Mark(p)
  PROVE  RepeatInv'
  <1>m. PICK m \in held[p] :
          /\ SetStatus({m}, "published")
          /\ held' = [held EXCEPT ![p] = @ \ {m}]
          /\ pc' = [pc EXCEPT ![p] = IF held[p] = {m} THEN "idle" ELSE "publishing"]
    BY DEF Mark
  <1>1. /\ Event' = Event
        /\ \A e \in Event : outbox'[e] = IF e \in {m}
                                         THEN [run |-> outbox[e].run, status |-> "published", age |-> 0]
                                         ELSE outbox[e]
    <2>1. OutboxTypeOK /\ SetStatus({m}, "published")
      BY <1>m DEF OutboxInv
    <2> QED BY <2>1, InPlace DEF SetStatus
  <1>2. /\ \A q \in Process : held'[q] = IF q = p THEN held[q] \ {m} ELSE held[q]
        /\ announced' = announced /\ failures' = failures /\ todo' = todo
    BY <1>m DEF Mark, OutboxInv, OutboxTypeOK
  <1>3. \A q \in Process : pc'[q] # "publishing" => held'[q] = {}
    BY <1>m, <1>2 DEF RepeatInv, OutboxInv, OutboxTypeOK
  <1>4. ASSUME NEW e \in Event PROVE Counted(e)'
    <2>1. Counted(e) /\ Holders(e)' = Holders(e)
      BY <1>2 DEF RepeatInv, Holders
    <2>2. CASE e = m
      <3>1. outbox'[e] = [run |-> outbox[e].run, status |-> "published", age |-> 0]
        BY <1>1, <2>2
      <3>2. outbox'[e].status = "published"
        BY <3>1
      <3>3. Load(e)' = Load(e)
        BY <1>2, <2>1 DEF Load
      <3> QED BY <1>2, <2>1, <3>2, <3>3 DEF Counted
    <2>3. CASE e # m
      <3>1. outbox'[e] = outbox[e]
        BY <1>1, <2>3
      <3>2. (\A q \in Process : e \notin held'[q]) => \A q \in Process : e \notin held[q]
        BY <1>2, <2>3
      <3> QED BY <1>2, <2>1, <3>1, <3>2, CountedAlike
    <2> QED BY <2>2, <2>3
  <1> QED BY <1>1, <1>3, <1>4 DEF RepeatInv

(* A lease that runs out under a living loop is a failure. *)
LEMMA TickCounts ==
  ASSUME OutboxInv, RepeatInv, Tick
  PROVE  RepeatInv'
  <1>1. /\ UNCHANGED <<announced, pc, todo, held>> /\ Event' = Event
        /\ failures' = IF Late THEN failures + 1 ELSE failures
        /\ \A e \in Event : outbox'[e] = IF e \in Aging THEN [outbox[e] EXCEPT !.age = @ + 1]
                                                        ELSE outbox[e]
    BY TickStep DEF Tick, SameEvents, Event
  <1>2. \A e \in Event : outbox[e] \in Rows
    <2>1. outbox \in Seq(Rows)
      BY DEF OutboxInv, OutboxTypeOK, Rows
    <2> QED BY <2>1, ElementOfSeq DEF Event
  <1>3. ASSUME NEW e \in Event PROVE Counted(e)'
    <2>1. Counted(e) /\ Holders(e)' = Holders(e)
      BY <1>1 DEF RepeatInv, Holders
    <2>2. outbox'[e].status = outbox[e].status
      BY <1>1, <1>2 DEF Rows
    <2>3. CASE Late
      BY <1>1, <2>1, <2>2, <2>3, CountedFailure DEF OutboxInv
    <2>4. CASE ~Late /\ e \notin Aging
      <3>1. outbox'[e] = outbox[e] /\ failures' = failures
        BY <1>1, <2>4
      <3> QED BY <1>1, <2>1, <3>1, CountedAlike
    <2>5. CASE ~Late /\ e \in Aging
      <3>1. outbox'[e].age = outbox[e].age + 1 /\ outbox[e].age \in Nat /\ failures' = failures
        <4>1. outbox'[e] = [outbox[e] EXCEPT !.age = @ + 1] /\ failures' = failures
          BY <1>1, <2>5
        <4>2. outbox[e] \in Rows
          BY <1>2
        <4> QED BY <4>1, <4>2, OutboxAssumption DEF Rows
      <3>2. outbox[e].status = "leased" /\ outbox[e].age < LeaseTicks
        BY <2>5 DEF Aging
      <3>3. outbox'[e].age >= LeaseTicks => \A p \in Process : e \notin held[p]
        BY <2>5, <3>1, <3>2, OutboxAssumption DEF Late
      <3>4. Load(e)' = Load(e)
        BY <1>1, <2>1 DEF Load
      <3> QED BY <1>1, <2>1, <2>2, <3>1, <3>2, <3>3, <3>4 DEF Counted
    <2> QED BY <2>3, <2>4, <2>5
  <1> QED BY <1>1, <1>3 DEF RepeatInv

(* A death, of a loop or of a process, is one too. *)
LEMMA OtherCounts ==
  ASSUME OutboxInv, RepeatInv, NEW p \in Process, Emit(p) \/ DbFault(p) \/ Crash(p) \/ Restart(p)
  PROVE  RepeatInv'
  <1>1. UNCHANGED <<outbox, announced>> /\ Event' = Event
    BY DEF Emit, DbFault, Crash, Restart, Event
  <1>2. \A q \in Process : pc'[q] # "publishing" => held'[q] = {}
    BY DEF Emit, DbFault, Crash, Restart, RepeatInv, OutboxInv, OutboxTypeOK
  <1>3. ASSUME NEW e \in Event, DbFault(p) \/ Crash(p) PROVE Counted(e)'
    <2>1. Counted(e) /\ Holders(e)' \in SUBSET Holders(e) /\ failures' = failures + 1
      BY <1>3 DEF RepeatInv, Holders, DbFault, Crash, OutboxInv, OutboxTypeOK
    <2> QED BY <1>1, <2>1, CountedFailure DEF OutboxInv
  <1>4. ASSUME NEW e \in Event, Emit(p) \/ Restart(p) PROVE Counted(e)'
    <2>1. Counted(e) /\ UNCHANGED <<todo, held, failures>>
      BY <1>4 DEF RepeatInv, Emit, Restart
    <2>2. Holders(e)' = Holders(e)
      BY <2>1 DEF Holders
    <2> QED BY <1>1, <2>1, <2>2, CountedAlike
  <1> QED BY <1>1, <1>2, <1>3, <1>4 DEF RepeatInv

-----------------------------------------------------------------------------
(* The intake. *)

(* The requests that nobody has handled yet.                               *)
New == {q \in Request : request[q].state = "new"}

Types ==
    /\ created \in Seq(Key \cup {NoKey})
    /\ reserved \in [Key -> Run \cup {0}]
    /\ writer \in Process \cup {NoProcess}
    /\ found \in [request : Request \cup {NoKey}, run : Run \cup {0}]
    /\ request \in [Request -> [state : {"new", "served", "answered", "refused", "lost"},
                               at : Process \cup {NoProcess}, run : Run \cup {0}]]

(* Each run has used up a request.                                         *)
Numbered == Len(created) + Cardinality(New) <= Cardinality(Request)

(* The lookup is still true when the writer acts on it, because it holds   *)
(* the write lock.                                                         *)
LookedUp ==
    writer # NoProcess =>
        /\ found.request \in New
        /\ found.run = IF KeyOf[found.request] = NoKey THEN 0 ELSE reserved[KeyOf[found.request]]

(* Keys and runs name each other.                                          *)
KeysMatch ==
    /\ \A k \in Key : reserved[k] # 0 => reserved[k] \in Created /\ created[reserved[k]] = k
    /\ \A r \in Created : created[r] # NoKey => reserved[created[r]] = r

Answered ==
    \A q \in Request : request[q].state \in {"served", "answered"} =>
        request[q].run \in Created /\ created[request[q].run] = KeyOf[q]

Staged ==
    /\ \A e \in Event : outbox[e].run \in Created
    /\ \A r \in Created : \E e, f \in Event : e # f /\ outbox[e].run = r /\ outbox[f].run = r

IntakeInv == Types /\ Numbered /\ LookedUp /\ KeysMatch /\ Answered
Inv == OutboxInv /\ IntakeInv /\ Staged

Mapped == <<created, [q \in Request |-> [state |-> request[q].state, run |-> request[q].run]]>>

-----------------------------------------------------------------------------
(* The requests that have not begun are finitely many. *)
LEMMA NewFinite == IsFiniteSet(New) /\ Cardinality(New) \in Nat /\ Cardinality(Request) \in Nat
  BY TurnIntakeAssumption, FS_Subset, FS_CardinalityType DEF New

(* The runs that were created are run numbers. *)
LEMMA CreatedAreRuns ==
  ASSUME Types, Numbered
  PROVE  Len(created) \in Nat /\ Created \subseteq Run
  <1>1. Len(created) \in Nat
    BY LenProperties DEF Types
  <1> QED BY <1>1, NewFinite, TurnIntakeAssumption DEF Numbered, Created

(* The initial states.                                                     *)
LEMMA InvInit == Init => Inv
  <1> SUFFICES ASSUME Init PROVE Inv
    OBVIOUS
  <1>1. OutboxInv
    BY OutboxInitially DEF Init
  <1>2. Types
    BY DEF Init, Types, NotFound, Nowhere
  <1>3. Numbered
    <2>1. New = Request
      BY DEF Init, New, Nowhere
    <2> QED BY <2>1, NewFinite DEF Init, Numbered
  <1>4. LookedUp /\ KeysMatch /\ Answered /\ Staged
    BY DEF Init, LookedUp, KeysMatch, Answered, Staged, Created, Nowhere, OutboxInit, Event
  <1> QED BY <1>1, <1>2, <1>3, <1>4 DEF Inv, IntakeInv

(* What the outbox does for itself does not concern the intake.            *)
LEMMA OutboxAlone ==
  ASSUME Inv, OutboxInv', SameEvents, UNCHANGED intake
  PROVE  Inv' /\ UNCHANGED Mapped
  <1>1. IntakeInv'
    BY DEF intake, Inv, IntakeInv, Types, Numbered, New, LookedUp, KeysMatch, Answered, Created
  <1>2. Staged'
    <2>1. Event' = Event /\ Created' = Created
      BY DEF SameEvents, intake, Event, Created
    <2>2. \A e \in Event : outbox'[e].run = outbox[e].run
      BY DEF SameEvents
    <2> QED BY <2>1, <2>2 DEF Inv, Staged
  <1> QED BY <1>1, <1>2 DEF Inv, intake, Mapped

(* The commit of an event is invisible to clients. *)
LEMMA RecordStep ==
  ASSUME Inv, NEW p \in Process, Record(p)
  PROVE  Inv' /\ UNCHANGED Mapped
  <1>1. PICK r \in Created : Stage(p, r, 1)
    BY DEF Record
  <1>2. r \in Run
    BY CreatedAreRuns DEF Inv, IntakeInv
  <1>3. /\ OutboxInv' /\ Len(outbox') = Len(outbox) + 1
        /\ \A e \in Event' : outbox'[e].run = IF e \in Event THEN outbox[e].run ELSE r
    BY <1>1, <1>2, StageStep DEF Inv
  <1>4. UNCHANGED intake
    BY DEF Record
  <1>5. IntakeInv' /\ UNCHANGED Mapped
    BY <1>4 DEF intake, Inv, IntakeInv, Types, Numbered, New, LookedUp, KeysMatch, Answered,
                Created, Mapped
  <1>6. Event \subseteq Event'
    BY <1>3, LenProperties DEF Event, Inv, OutboxInv, OutboxTypeOK
  <1>7. \A e \in Event' : outbox'[e].run \in Created
    BY <1>1, <1>3 DEF Inv, Staged
  <1>8. \A s \in Created : \E e, f \in Event' : e # f /\ outbox'[e].run = s /\ outbox'[f].run = s
    BY <1>3, <1>6 DEF Inv, Staged
  <1> QED BY <1>3, <1>4, <1>5, <1>7, <1>8 DEF Inv, Staged, intake, Created

(* So is the beginning of a transaction. *)
LEMMA BeginStep ==
  ASSUME Inv, NEW p \in Process, NEW q \in Request, Begin(p, q)
  PROVE  Inv' /\ UNCHANGED Mapped
  <1>1. UNCHANGED outboxVars /\ created' = created /\ reserved' = reserved /\ request' = request
    BY DEF Begin
  <1>2. Types'
    <2>1. KeyOf[q] # NoKey => KeyOf[q] \in Key
      BY DEF Key
    <2>2. found' \in [request : Request \cup {NoKey}, run : Run \cup {0}]
      BY <2>1 DEF Begin, Inv, IntakeInv, Types
    <2> QED BY <1>1, <2>2 DEF Begin, Inv, IntakeInv, Types
  <1>3. Numbered' /\ KeysMatch' /\ Answered' /\ Staged'
    BY <1>1 DEF Inv, IntakeInv, Numbered, New, KeysMatch, Answered, Staged, Created, Event, outboxVars
  <1>4. LookedUp'
    BY <1>1 DEF Begin, LookedUp, New
  <1>5. OutboxInv'
    BY <1>1 DEF Inv, OutboxInv, OutboxTypeOK, BatchInv, MarkedIsAnnounced, Event, outboxVars
  <1> QED BY <1>1, <1>2, <1>3, <1>4, <1>5 DEF Inv, IntakeInv, Mapped

(* Whoever ends a request that nobody had handled.                         *)
LEMMA NewShrinks ==
  ASSUME NEW q \in New, New' = New \ {q}
  PROVE  /\ Cardinality(New') = Cardinality(New) - 1 /\ Cardinality(New) >= 1
         /\ Cardinality(New') \in Nat
  <1>1. IsFiniteSet(New) /\ Cardinality(New) \in Nat
    BY NewFinite
  <1>2. Cardinality(New \ {q}) = Cardinality(New) - 1
    BY <1>1, FS_RemoveElement
  <1>3. Cardinality(New \ {q}) \in Nat
    BY <1>1, FS_RemoveElement, FS_CardinalityType
  <1> QED BY <1>1, <1>2, <1>3

(* A step that leaves the outbox alone keeps its invariant. *)
LEMMA OutboxKept ==
  ASSUME OutboxInv, UNCHANGED outboxVars
  PROVE  OutboxInv' /\ Event' = Event
  BY DEF OutboxInv, OutboxTypeOK, BatchInv, MarkedIsAnnounced, Event, outboxVars

(* A repeated request is answered with the run of its key. *)
LEMMA RepeatStep ==
  ASSUME Inv, NEW p \in Process, NEW q \in Request, q = found.request, Repeat(p)
  PROVE  Inv' /\ Promised!Next
  <1>1. /\ UNCHANGED <<outboxVars, created, reserved>>
        /\ writer' = NoProcess /\ found' = NotFound
        /\ request' = [request EXCEPT ![q] = [state |-> "served", at |-> p, run |-> found.run]]
        /\ found.run # 0
    BY DEF Repeat, Serve, EndTransaction
  <1>2. q \in New /\ q \in Request /\ KeyOf[q] \in Key /\ found.run = reserved[KeyOf[q]]
    <2>1. writer # NoProcess
      BY TurnIntakeAssumption DEF Repeat
    <2>2. q \in New /\ q \in Request /\ KeyOf[q] # NoKey /\ found.run = reserved[KeyOf[q]]
      BY <1>1, <2>1 DEF Inv, IntakeInv, LookedUp, New
    <2> QED BY <2>2 DEF Key
  <1>3. found.run \in Created /\ created[found.run] = KeyOf[q]
    BY <1>1, <1>2 DEF Inv, IntakeInv, KeysMatch
  <1>4. New' = New \ {q}
    BY <1>1, <1>2 DEF New, Inv, IntakeInv, Types
  <1>5. Types'
    BY <1>1, <1>2 DEF Inv, IntakeInv, Types, NotFound
  <1>6. Numbered'
    <2>1. Cardinality(New') = Cardinality(New) - 1 /\ Cardinality(New) \in Nat
      BY <1>2, <1>4, NewShrinks, NewFinite
    <2>2. Len(created') = Len(created) /\ Len(created) \in Nat /\ Cardinality(Request) \in Nat
      BY <1>1, CreatedAreRuns, NewFinite DEF Inv, IntakeInv
    <2>3. Len(created) + Cardinality(New) <= Cardinality(Request)
      BY DEF Inv, IntakeInv, Numbered
    <2> QED BY <2>1, <2>2, <2>3 DEF Numbered
  <1>7. LookedUp' /\ KeysMatch'
    BY <1>1 DEF LookedUp, KeysMatch, Created, Inv, IntakeInv
  <1>8. Answered'
    BY <1>1, <1>2, <1>3 DEF Answered, Created, Inv, IntakeInv, Types
  <1>9. OutboxInv' /\ Staged'
    <2>1. OutboxInv' /\ Event' = Event /\ outbox' = outbox
      BY <1>1, OutboxKept DEF Inv, outboxVars
    <2>2. Created' = Created
      BY <1>1 DEF Created
    <2> QED BY <2>1, <2>2 DEF Inv, Staged
  <1>10. Promised!Join(q)
    <2>1. request[q].state = "new"
      BY <1>2 DEF New
    <2>2. found.run \in Promised!RunsOf(KeyOf[q])
      BY <1>2, <1>3 DEF Promised!RunsOf, Created, Key
    <2>3. [r \in Request |-> [state |-> request'[r].state, run |-> request'[r].run]]
            = [[r \in Request |-> [state |-> request[r].state, run |-> request[r].run]]
                 EXCEPT ![q] = [state |-> "served", run |-> found.run]]
      BY <1>1, <1>2 DEF Inv, IntakeInv, Types
    <2> QED BY <1>1, <1>2, <2>1, <2>2, <2>3 DEF Promised!Join
  <1>11. Promised!Next
    BY <1>10 DEF Promised!Next
  <1> QED BY <1>5, <1>6, <1>7, <1>8, <1>9, <1>11 DEF Inv, IntakeInv

(* A request with a new key creates its run. *)
LEMMA InsertStep ==
  ASSUME Inv, NEW p \in Process, NEW q \in Request, q = found.request, Insert(p)
  PROVE  Inv' /\ Promised!Next
  <1>1. /\ Stage(p, NewRun, 2)
        /\ created' = Append(created, KeyOf[q])
        /\ reserved' = [k \in Key |-> IF k = KeyOf[q] THEN NewRun ELSE reserved[k]]
        /\ writer' = NoProcess /\ found' = NotFound
        /\ request' = [request EXCEPT ![q] = [state |-> "served", at |-> p, run |-> NewRun]]
        /\ found.run = 0
    BY DEF Insert, Reserve, Serve, EndTransaction
  <1>2. /\ q \in New /\ q \in Request /\ KeyOf[q] \in Key \cup {NoKey}
        /\ KeyOf[q] \in Key => reserved[KeyOf[q]] = 0
    <2>1. writer # NoProcess
      BY TurnIntakeAssumption DEF Insert
    <2>2. q \in New /\ q \in Request /\ (KeyOf[q] # NoKey => reserved[KeyOf[q]] = 0)
      BY <1>1, <2>1 DEF Inv, IntakeInv, LookedUp, New
    <2> QED BY <2>2 DEF Key
  <1>3. New' = New \ {q}
    BY <1>1, <1>2 DEF New, Inv, IntakeInv, Types
  <1>4. Len(created) \in Nat /\ NewRun \in Run /\ NewRun = Len(created) + 1
    <2>1. Len(created) \in Nat
      BY CreatedAreRuns DEF Inv, IntakeInv
    <2>2. Cardinality(New) >= 1 /\ Cardinality(New) \in Nat /\ Cardinality(Request) \in Nat
      BY <1>2, <1>3, NewShrinks, NewFinite
    <2>3. Len(created) + Cardinality(New) <= Cardinality(Request)
      BY DEF Inv, IntakeInv, Numbered
    <2>4. Len(created) + 1 \in 1..Cardinality(Request)
      BY <2>1, <2>2, <2>3
    <2> QED BY <2>1, <2>4, TurnIntakeAssumption DEF NewRun
  <1>5. /\ created' \in Seq(Key \cup {NoKey}) /\ Len(created') = NewRun
        /\ Created' = Created \cup {NewRun} /\ NewRun \notin Created
        /\ created'[NewRun] = KeyOf[q] /\ \A r \in Created : created'[r] = created[r]
    BY <1>1, <1>2, <1>4 DEF Inv, IntakeInv, Types, Created
  <1>6. Types'
    BY <1>1, <1>2, <1>4, <1>5 DEF Inv, IntakeInv, Types, NotFound
  <1>7. Numbered'
    <2>1. Cardinality(New') = Cardinality(New) - 1 /\ Cardinality(New) \in Nat
      BY <1>2, <1>3, NewShrinks, NewFinite
    <2>2. Len(created') = Len(created) + 1 /\ Len(created) \in Nat /\ Cardinality(Request) \in Nat
      BY <1>4, <1>5, NewFinite
    <2>3. Len(created) + Cardinality(New) <= Cardinality(Request)
      BY DEF Inv, IntakeInv, Numbered
    <2> QED BY <2>1, <2>2, <2>3 DEF Numbered
  <1>8. LookedUp'
    BY <1>1 DEF LookedUp
  <1>9. KeysMatch'
    <2>1. NoKey \notin Key /\ 0 \notin Created
      BY DEF Key, Created
    <2>2. ASSUME NEW k \in Key, reserved'[k] # 0
          PROVE  reserved'[k] \in Created' /\ created'[reserved'[k]] = k
      <3>1. CASE k = KeyOf[q]
        BY <1>1, <1>5, <3>1
      <3>2. CASE k # KeyOf[q]
        BY <1>1, <1>5, <2>2, <3>2 DEF Inv, IntakeInv, KeysMatch
      <3> QED BY <3>1, <3>2
    <2>3. ASSUME NEW r \in Created', created'[r] # NoKey
          PROVE  reserved'[created'[r]] = r
      <3>1. CASE r = NewRun
        BY <1>1, <1>2, <1>5, <2>3, <3>1
      <3>2. CASE r # NewRun
        <4>1. r \in Created /\ created'[r] = created[r] /\ reserved[created[r]] = r
          BY <1>5, <2>3, <3>2 DEF Inv, IntakeInv, KeysMatch
        <4>2. created[r] \in Key
          BY <1>4, <2>3, <4>1, ElementOfSeq DEF Inv, IntakeInv, Types, Created
        <4>3. created[r] # KeyOf[q]
          BY <1>2, <2>1, <4>1, <4>2
        <4> QED BY <1>1, <4>1, <4>2, <4>3
      <3> QED BY <3>1, <3>2
    <2> QED BY <2>2, <2>3 DEF KeysMatch
  <1>10. Answered'
    BY <1>1, <1>2, <1>5 DEF Answered, Inv, IntakeInv, Types
  <1>11. /\ OutboxInv' /\ Len(outbox') = Len(outbox) + 2
         /\ \A e \in Event' : outbox'[e].run = IF e \in Event THEN outbox[e].run ELSE NewRun
    BY <1>1, <1>4, StageStep DEF Inv
  <1>12. Staged'
    <2>1. Len(outbox) \in Nat
      BY LenProperties DEF Inv, OutboxInv, OutboxTypeOK
    <2>2. /\ Event \subseteq Event'
          /\ Len(outbox) + 1 \in Event' \ Event /\ Len(outbox) + 2 \in Event' \ Event
          /\ Len(outbox) + 1 # Len(outbox) + 2
      BY <1>11, <2>1 DEF Event
    <2>3. \A e \in Event' : outbox'[e].run \in Created'
      BY <1>5, <1>11 DEF Inv, Staged
    <2>4. \A r \in Created' : \E e, f \in Event' : e # f /\ outbox'[e].run = r /\ outbox'[f].run = r
      <3>1. \A r \in Created : \E e, f \in Event' : e # f /\ outbox'[e].run = r /\ outbox'[f].run = r
        BY <1>11, <2>2 DEF Inv, Staged
      <3>2. \E e, f \in Event' : e # f /\ outbox'[e].run = NewRun /\ outbox'[f].run = NewRun
        BY <1>11, <2>2
      <3> QED BY <1>5, <3>1, <3>2
    <2> QED BY <2>3, <2>4 DEF Staged
  <1>13. Promised!Create(q)
    <2>1. request[q].state = "new"
      BY <1>2 DEF New
    <2>2. Promised!RunsOf(KeyOf[q]) = {}
      <3>1. ASSUME NEW r \in Created, created[r] = KeyOf[q], KeyOf[q] # NoKey PROVE FALSE
        <4>1. reserved[KeyOf[q]] = r /\ reserved[KeyOf[q]] = 0
          BY <1>2, <3>1 DEF Inv, IntakeInv, KeysMatch
        <4> QED BY <1>4, <4>1 DEF Created
      <3> QED BY <3>1 DEF Promised!RunsOf, Created
    <2>3. [r \in Request |-> [state |-> request'[r].state, run |-> request'[r].run]]
            = [[r \in Request |-> [state |-> request[r].state, run |-> request[r].run]]
                 EXCEPT ![q] = [state |-> "served", run |-> Len(created) + 1]]
      BY <1>1, <1>2, <1>4 DEF Inv, IntakeInv, Types
    <2>4. created' = Append(created, KeyOf[q])
      BY <1>1
    <2> QED BY <2>1, <2>2, <2>3, <2>4 DEF Promised!Create
  <1>14. Promised!Next
    BY <1>13 DEF Promised!Next
  <1> QED BY <1>6, <1>7, <1>8, <1>9, <1>10, <1>11, <1>12, <1>14 DEF Inv, IntakeInv

(* A rolled back request is refused. *)
LEMMA RollBackStep ==
  ASSUME Inv, NEW p \in Process, NEW q \in Request, q = found.request, RollBack(p)
  PROVE  Inv' /\ Promised!Next
  <1>1. /\ UNCHANGED <<outboxVars, created, reserved>>
        /\ writer' = NoProcess /\ found' = NotFound
        /\ request' = [request EXCEPT ![q].state = "refused"]
    BY DEF RollBack, EndTransaction
  <1>2. q \in New
    <2>1. writer # NoProcess
      BY TurnIntakeAssumption DEF RollBack
    <2> QED BY <2>1 DEF Inv, IntakeInv, LookedUp
  <1>3. New' = New \ {q}
    BY <1>1, <1>2 DEF New, Inv, IntakeInv, Types
  <1>4. Types'
    BY <1>1 DEF Inv, IntakeInv, Types, NotFound
  <1>5. Numbered'
    <2>1. Cardinality(New') = Cardinality(New) - 1 /\ Cardinality(New) \in Nat
      BY <1>2, <1>3, NewShrinks, NewFinite
    <2>2. Len(created') = Len(created) /\ Len(created) \in Nat /\ Cardinality(Request) \in Nat
      BY <1>1, CreatedAreRuns, NewFinite DEF Inv, IntakeInv
    <2>3. Len(created) + Cardinality(New) <= Cardinality(Request)
      BY DEF Inv, IntakeInv, Numbered
    <2> QED BY <2>1, <2>2, <2>3 DEF Numbered
  <1>6. LookedUp' /\ KeysMatch'
    BY <1>1 DEF LookedUp, KeysMatch, Created, Inv, IntakeInv
  <1>7. Answered'
    BY <1>1 DEF Answered, Created, Inv, IntakeInv, Types
  <1>8. OutboxInv' /\ Staged'
    <2>1. OutboxInv' /\ Event' = Event /\ outbox' = outbox
      BY <1>1, OutboxKept DEF Inv, outboxVars
    <2>2. Created' = Created
      BY <1>1 DEF Created
    <2> QED BY <2>1, <2>2 DEF Inv, Staged
  <1>9. Promised!Refuse(q)
    <2>1. request[q].state = "new"
      BY <1>2 DEF New
    <2>2. [r \in Request |-> [state |-> request'[r].state, run |-> request'[r].run]]
            = [[r \in Request |-> [state |-> request[r].state, run |-> request[r].run]]
                 EXCEPT ![q].state = "refused"]
      <3>1. request' = [request EXCEPT ![q].state = "refused"]
        BY <1>1
      <3>2. request \in [Request -> [state : {"new", "served", "answered", "refused", "lost"},
                                     at : Process \cup {NoProcess}, run : Run \cup {0}]]
        BY DEF Inv, IntakeInv, Types
      <3> QED BY <3>1, <3>2
    <2> QED BY <1>1, <2>1, <2>2 DEF Promised!Refuse
  <1>10. Promised!Next
    BY <1>9 DEF Promised!Next
  <1> QED BY <1>4, <1>5, <1>6, <1>7, <1>8, <1>10 DEF Inv, IntakeInv

(* An answer, or its loss, is the abstract one. *)
LEMMA ReplyStep ==
  ASSUME Inv, NEW q \in Request, Reply(q)
  PROVE  Inv' /\ Promised!Next
  <1>1. /\ UNCHANGED <<outboxVars, created, reserved, writer, found>>
        /\ request[q].state = "served"
        /\ request' = [request EXCEPT ![q].state = "answered"]
    BY DEF Reply
  <1>2. New' = New
    BY <1>1 DEF New, Inv, IntakeInv, Types
  <1>3. Types' /\ Numbered' /\ LookedUp' /\ KeysMatch'
    BY <1>1, <1>2 DEF Types, Numbered, LookedUp, KeysMatch, Created, Inv, IntakeInv
  <1>4. Answered'
    BY <1>1 DEF Answered, Created, Inv, IntakeInv, Types
  <1>5. OutboxInv' /\ Staged'
    <2>1. OutboxInv' /\ Event' = Event /\ outbox' = outbox
      BY <1>1, OutboxKept DEF Inv, outboxVars
    <2>2. Created' = Created
      BY <1>1 DEF Created
    <2> QED BY <2>1, <2>2 DEF Inv, Staged
  <1>6. Promised!Answer(q)
    <2>1. [r \in Request |-> [state |-> request'[r].state, run |-> request'[r].run]]
            = [[r \in Request |-> [state |-> request[r].state, run |-> request[r].run]]
                 EXCEPT ![q].state = "answered"]
      BY <1>1 DEF Inv, IntakeInv, Types
    <2> QED BY <1>1, <2>1 DEF Promised!Answer
  <1>7. Promised!Next
    BY <1>6 DEF Promised!Next
  <1> QED BY <1>3, <1>4, <1>5, <1>7 DEF Inv, IntakeInv

(* The requests that go down with process p.                               *)
Lost(p) == {q \in Request : \/ request[q].state = "served" /\ request[q].at = p
                            \/ writer = p /\ q = found.request}

(* A death loses the requests of its process. *)
LEMMA DieStep ==
  ASSUME Inv, NEW p \in Process, NEW lost, lost = Lost(p), Die(p)
  PROVE  Inv' /\ Promised!Next
  <1>1. /\ Crash(p) /\ created' = created /\ reserved' = reserved
        /\ writer' = IF writer = p THEN NoProcess ELSE writer
        /\ found' = IF writer = p THEN NotFound ELSE found
        /\ request' = [q \in Request |-> IF q \in lost THEN [request[q] EXCEPT !.state = "lost"]
                                                       ELSE request[q]]
    BY DEF Die, Lost
  <1>2. lost \subseteq Request /\ \A q \in lost : request[q].state \in {"new", "served"}
    <2>1. writer = p => found.request \in New
      BY TurnIntakeAssumption DEF Inv, IntakeInv, LookedUp
    <2> QED BY <2>1 DEF Lost, New
  <1>3. Types'
    BY <1>1 DEF Inv, IntakeInv, Types, NotFound
  <1>4. New' \in SUBSET New
    BY <1>1 DEF New, Inv, IntakeInv, Types
  <1>5. Numbered'
    <2>1. Cardinality(New') <= Cardinality(New) /\ Cardinality(New') \in Nat /\ Cardinality(New) \in Nat
      BY <1>4, NewFinite, FS_Subset, FS_CardinalityType
    <2>2. Len(created') = Len(created) /\ Len(created) \in Nat /\ Cardinality(Request) \in Nat
      BY <1>1, CreatedAreRuns, NewFinite DEF Inv, IntakeInv
    <2>3. Len(created) + Cardinality(New) <= Cardinality(Request)
      BY DEF Inv, IntakeInv, Numbered
    <2> QED BY <2>1, <2>2, <2>3 DEF Numbered
  <1>6. LookedUp'
    <2> SUFFICES ASSUME writer' # NoProcess
                 PROVE  /\ found'.request \in New'
                        /\ found'.run = IF KeyOf[found'.request] = NoKey THEN 0
                                        ELSE reserved'[KeyOf[found'.request]]
      BY DEF LookedUp
    <2>1. writer # p /\ writer # NoProcess /\ found' = found
      BY <1>1
    <2>2. found.request \in New
      BY <2>1 DEF Inv, IntakeInv, LookedUp
    <2>3. found.request \notin lost
      BY <2>1, <2>2 DEF Lost, New
    <2>4. found.request \in New'
      BY <1>1, <2>2, <2>3 DEF New, Inv, IntakeInv, Types
    <2> QED BY <1>1, <2>1, <2>4 DEF Inv, IntakeInv, LookedUp
  <1>7. KeysMatch'
    BY <1>1 DEF KeysMatch, Created, Inv, IntakeInv
  <1>8. Answered'
    BY <1>1 DEF Answered, Created, Inv, IntakeInv, Types
  <1>9. OutboxInv' /\ SameEvents
    BY <1>1, OtherStep DEF Inv
  <1>10. Staged'
    <2>1. Event' = Event /\ Created' = Created
      BY <1>1, <1>9 DEF SameEvents, Event, Created
    <2>2. \A e \in Event : outbox'[e].run = outbox[e].run
      BY <1>9 DEF SameEvents
    <2> QED BY <2>1, <2>2 DEF Inv, Staged
  <1>11. Promised!Lose(lost)
    <2>1. \A q \in lost : [r \in Request |-> [state |-> request[r].state, run |-> request[r].run]][q].state
                            \in {"new", "served"}
      BY <1>2
    <2>2. [r \in Request |-> [state |-> request'[r].state, run |-> request'[r].run]]
            = [q \in Request |->
                 IF q \in lost
                 THEN [[r \in Request |-> [state |-> request[r].state, run |-> request[r].run]][q]
                         EXCEPT !.state = "lost"]
                 ELSE [r \in Request |-> [state |-> request[r].state, run |-> request[r].run]][q]]
      BY <1>1 DEF Inv, IntakeInv, Types
    <2> QED BY <1>1, <2>1, <2>2 DEF Promised!Lose
  <1>12. Promised!Next
    BY <1>2, <1>11 DEF Promised!Next
  <1> QED BY <1>3, <1>5, <1>6, <1>7, <1>8, <1>9, <1>10, <1>12 DEF Inv, IntakeInv

-----------------------------------------------------------------------------
(* Every step keeps the invariant and is a step of the promise, or of      *)
(* nothing that a client could see.                                        *)
LEMMA InvNext ==
  ASSUME Inv, [Next]_vars
  PROVE  Inv' /\ (Promised!Next \/ UNCHANGED Mapped)
  <1>1. CASE Time
    BY <1>1, TickStep, OutboxAlone DEF Time, Inv
  <1>2. ASSUME NEW q \in Request, Reply(q)
        PROVE  Inv' /\ Promised!Next
    BY <1>2, ReplyStep
  <1>3. ASSUME NEW q \in Request, NEW p \in Process, Begin(p, q)
        PROVE  Inv' /\ UNCHANGED Mapped
    BY <1>3, BeginStep
  <1>4. ASSUME NEW p \in Process, Repeat(p) \/ Insert(p) \/ RollBack(p)
        PROVE  Inv' /\ Promised!Next
    <2>1. writer # NoProcess
      BY <1>4, TurnIntakeAssumption DEF Repeat, Insert, RollBack
    <2>2. PICK q \in Request : q = found.request
      BY <2>1 DEF Inv, IntakeInv, LookedUp, New
    <2> QED BY <1>4, <2>2, RepeatStep, InsertStep, RollBackStep
  <1>5. ASSUME NEW p \in Process, Record(p)
        PROVE  Inv' /\ UNCHANGED Mapped
    BY <1>5, RecordStep
  <1>6. ASSUME NEW p \in Process, Loop(p) \/ Announce(p) \/ Boot(p)
        PROVE  Inv' /\ UNCHANGED Mapped
    <2>1. OutboxInv' /\ SameEvents /\ UNCHANGED intake
      BY <1>6, ClaimStep, MarkStep, PublishStep, OtherStep DEF Loop, Announce, Boot, Inv
    <2> QED BY <2>1, OutboxAlone
  <1>7. ASSUME NEW p \in Process, Die(p)
        PROVE  Inv' /\ Promised!Next
    <2>1. PICK lost : lost = Lost(p)
      OBVIOUS
    <2> QED BY <1>7, <2>1, DieStep
  <1>8. CASE UNCHANGED vars
    <2>1. OutboxInv' /\ SameEvents
      BY <1>8, OutboxKept DEF vars, outboxVars, SameEvents, Inv
    <2> QED BY <1>8, <2>1, OutboxAlone DEF vars
  <1> QED BY <1>1, <1>2, <1>3, <1>4, <1>5, <1>6, <1>7, <1>8 DEF Next

(* The invariant of the intake holds at every step. *)
LEMMA Invariant == Spec => []Inv
  <1>1. Inv /\ [Next]_vars => Inv'
    BY InvNext
  <1> QED BY InvInit, <1>1, PTL DEF Spec

(* The next run has a number as long as somebody is about to create it.    *)
LEMMA NewRunIsRun ==
  ASSUME Inv, writer # NoProcess
  PROVE  NewRun \in Run
  <1>1. found.request \in New /\ found.request \in Request
    BY DEF Inv, IntakeInv, LookedUp, New
  <1>2. Cardinality(New) >= 1 /\ Cardinality(New) \in Nat /\ Cardinality(Request) \in Nat
    <2>1. IsFiniteSet(New) /\ Cardinality(New) \in Nat /\ Cardinality(Request) \in Nat
      BY NewFinite
    <2>2. Cardinality(New) # 0
      BY <1>1, <2>1, FS_EmptySet
    <2> QED BY <2>1, <2>2
  <1>3. Len(created) + Cardinality(New) <= Cardinality(Request) /\ Len(created) \in Nat
    BY CreatedAreRuns DEF Inv, IntakeInv, Numbered
  <1>4. Len(created) + 1 \in 1..Cardinality(Request)
    BY <1>2, <1>3
  <1> QED BY <1>4, TurnIntakeAssumption DEF NewRun

(* Every step of the intake counts every announcement. *)
LEMMA RepeatNext ==
  ASSUME Inv, RepeatInv, [Next]_vars
  PROVE  RepeatInv'
  <1>0. OutboxInv
    BY DEF Inv
  <1>1. ASSUME UNCHANGED outboxVars PROVE RepeatInv'
    BY <1>1 DEF outboxVars, RepeatInv, Counted, Load, Holders, Event
  <1>2. ASSUME NEW p \in Process, Insert(p) PROVE RepeatInv'
    <2>1. writer # NoProcess
      BY <1>2, TurnIntakeAssumption DEF Insert
    <2>2. NewRun \in Run
      BY <2>1, NewRunIsRun
    <2> QED BY <1>0, <1>2, <2>2, StageCounts DEF Insert
  <1>3. ASSUME NEW p \in Process, Record(p) PROVE RepeatInv'
    <2>1. PICK r \in Created : Stage(p, r, 1)
      BY <1>3 DEF Record
    <2>2. r \in Run
      BY CreatedAreRuns DEF Inv, IntakeInv
    <2> QED BY <1>0, <2>1, <2>2, StageCounts
  <1>4. ASSUME NEW p \in Process, Loop(p) \/ Announce(p) \/ Boot(p) \/ Die(p) PROVE RepeatInv'
    BY <1>0, <1>4, ClaimCounts, MarkCounts, PublishCounts, OtherCounts
       DEF Loop, Announce, Boot, Die
  <1>5. CASE Time
    BY <1>0, <1>5, TickCounts DEF Time
  <1>6. ASSUME NEW p \in Process, Repeat(p) \/ RollBack(p) PROVE RepeatInv'
    BY <1>1, <1>6 DEF Repeat, RollBack
  <1>7. ASSUME NEW q \in Request, Reply(q) \/ \E p \in Process : Begin(p, q) PROVE RepeatInv'
    BY <1>1, <1>7 DEF Reply, Begin
  <1>8. CASE UNCHANGED vars
    BY <1>1, <1>8 DEF vars
  <1> QED BY <1>2, <1>3, <1>4, <1>5, <1>6, <1>7, <1>8 DEF Next

-----------------------------------------------------------------------------
(* The theorems. *)

(* The variables have their types: rows, leases, keys and answers name     *)
(* events, runs and processes that exist.                                  *)
THEOREM TypeCorrect == Spec => []TypeOK
  <1>1. Inv => TypeOK
    BY DEF Inv, OutboxInv, IntakeInv, Types, TypeOK
  <1> QED BY Invariant, <1>1, PTL

(* Requests with the same idempotency key create one run.                  *)
THEOREM KeysCreateOneRun == Spec => []OneRunPerKey
  <1>1. Inv => OneRunPerKey
    BY DEF Inv, IntakeInv, KeysMatch, OneRunPerKey
  <1> QED BY Invariant, <1>1, PTL

(* Answers name a run of the key they were asked for.                      *)
THEOREM AnswersNameTheRun == Spec => []AnswersAgree
  <1>1. Inv => AnswersAgree
    BY DEF Inv, IntakeInv, Answered, AnswersAgree
  <1> QED BY Invariant, <1>1, PTL

(* A transaction of the intake leaves a run with its events and its key,   *)
(* or nothing, whoever dies and whatever is rolled back.                   *)
THEOREM WholeOrNothing == Spec => []AllOrNothing
  <1>1. ASSUME Inv PROVE AllOrNothing
    <2>1. \A k \in Key : reserved[k] # 0 => reserved[k] \in Created /\ created[reserved[k]] = k
      BY <1>1 DEF Inv, IntakeInv, KeysMatch
    <2>2. ASSUME NEW r \in Run
          PROVE  LET events == {e \in Event : outbox[e].run = r} IN
                   IF r \in Created THEN Cardinality(events) >= 2 ELSE events = {}
      <3> DEFINE events == {e \in Event : outbox[e].run = r}
      <3>1. CASE r \in Created
        <4>1. PICK e, f \in Event : e # f /\ outbox[e].run = r /\ outbox[f].run = r
          BY <1>1, <3>1 DEF Inv, Staged
        <4>2. Cardinality({e, f}) = 2
          <5>1. Cardinality({e}) = 1 /\ IsFiniteSet({e})
            BY FS_Singleton
          <5>2. {e, f} = {e} \cup {f} /\ f \notin {e}
            BY <4>1
          <5>3. Cardinality({e} \cup {f}) =
                  IF f \in {e} THEN Cardinality({e}) ELSE Cardinality({e}) + 1
            BY <5>1, FS_AddElement, Zenon
          <5>4. Cardinality({e} \cup {f}) = Cardinality({e}) + 1
            BY <5>2, <5>3, Zenon
          <5> HIDE DEF events
          <5> QED BY <5>1, <5>2, <5>4
        <4>3. IsFiniteSet(events)
          <5>1. Len(outbox) \in Nat
            BY <1>1, LenProperties DEF Inv, OutboxInv, OutboxTypeOK
          <5>2. IsFiniteSet(Event)
            BY <5>1, FS_Interval DEF Event
          <5> QED BY <5>2, FS_Subset
        <4>4. {e, f} \in SUBSET events
          BY <4>1
        <4>5. Cardinality({e, f}) <= Cardinality(events)
          BY <4>3, <4>4, FS_Subset
        <4>6. Cardinality(events) \in Nat
          BY <4>3, FS_CardinalityType
        <4>7. Cardinality(events) >= 2
          BY <4>2, <4>5, <4>6
        <4> QED BY <3>1, <4>7
      <3>2. CASE r \notin Created
        BY <1>1, <3>2 DEF Inv, Staged
      <3> QED BY <3>1, <3>2
    <2> QED BY <2>1, <2>2 DEF AllOrNothing
  <1> QED BY Invariant, <1>1, PTL

(* No event is marked that was not announced, whatever leases were lost.   *)
THEOREM NothingMarkedUnannounced == Spec => []MarkedIsAnnounced
  <1>1. Inv => MarkedIsAnnounced
    BY DEF Inv, OutboxInv
  <1> QED BY Invariant, <1>1, PTL

(* Only an event that some loop has leased is overtaken by a later one of  *)
(* its run.                                                                *)
THEOREM RunsStayInOrder == Spec => OvertakesOnlyLeased
  <1> DEFINE A == \A e, f \in Event :
                    /\ e < f /\ outbox[e].run = outbox[f].run
                    /\ announced[e] = 0
                    /\ announced[f] = 0 /\ announced'[f] = 1
                    => outbox[e].status = "leased"
  <1>1. ASSUME Inv, [Next]_vars PROVE [A]_outboxVars
    <2> SUFFICES ASSUME NEW e \in Event, NEW f \in Event, e < f,
                        announced[e] = 0, announced[f] = 0, announced'[f] = 1
                 PROVE  outbox[e].status = "leased"
      OBVIOUS
    <2>1. OutboxInv
      BY <1>1 DEF Inv
    <2>2. ASSUME NEW p \in Process, Publish(p) PROVE outbox[e].status = "leased"
      BY <2>1, <2>2, PublishInOrder
    <2>3. \E p \in Process : Publish(p)
      <3>1. announced' # announced
        OBVIOUS
      <3>2. ASSUME NEW p \in Process, NEW r, NEW k \in {1, 2}, Stage(p, r, k)
            PROVE  announced'[f] = announced[f]
        <4>1. announced \in Seq(Nat) /\ Len(announced) = Len(outbox) /\ Len(outbox) \in Nat
          <5>1. Len(outbox) \in Nat
            BY <2>1, LenProperties DEF OutboxInv, OutboxTypeOK
          <5>2. announced \in [1..Len(outbox) -> Nat]
            BY <2>1 DEF OutboxInv, OutboxTypeOK, Event
          <5> QED BY <5>1, <5>2, SeqDef
        <4>2. [i \in 1..k |-> 0] \in Seq(Nat)
          <5>1. [i \in 1..k |-> 0] \in [1..k -> Nat] /\ k \in Nat
            OBVIOUS
          <5> QED BY <5>1, SeqDef
        <4>3. announced' = announced \o [i \in 1..k |-> 0]
          BY <3>2 DEF Stage
        <4> QED BY <4>1, <4>2, <4>3, ConcatProperties, LenProperties DEF Event
      <3>3. ASSUME NEW p \in Process, Insert(p) \/ Record(p) PROVE FALSE
        BY <3>2, <3>3 DEF Insert, Record
      <3>4. CASE Time
        BY <3>1, <3>4 DEF Time, Tick
      <3>5. ASSUME NEW p \in Process,
                   \/ Repeat(p) \/ RollBack(p) \/ Loop(p) \/ Boot(p) \/ Die(p) \/ Emit(p)
                   \/ \E q \in Request : Reply(q) \/ Begin(p, q)
            PROVE  FALSE
        BY <3>1, <3>5 DEF Repeat, RollBack, Loop, Boot, Die, Emit, Reply, Begin, Claim, Mark,
                          DbFault, Restart, Crash, outboxVars
      <3>6. ASSUME NEW q \in Request, Reply(q) PROVE FALSE
        BY <3>1, <3>6 DEF Reply, outboxVars
      <3>7. CASE UNCHANGED vars
        BY <3>1, <3>7 DEF vars, outboxVars
      <3> QED BY <1>1, <3>3, <3>4, <3>5, <3>6, <3>7 DEF Next, Announce
    <2> QED BY <2>2, <2>3
  <1>2. Spec => [][A]_outboxVars
    BY Invariant, <1>1, PTL DEF Spec
  <1> QED BY <1>2 DEF OvertakesOnlyLeased

(* No event is announced more often than once and once more for each loop  *)
(* or process that died and each batch that outlived its lease.            *)
THEOREM OncePerFailure == Spec => []RepeatsNeedFailures
  <1>1. Init => RepeatInv
    <2> SUFFICES ASSUME Init PROVE RepeatInv
      OBVIOUS
    <2>1. Event = {} /\ \A p \in Process : held[p] = {}
      BY DEF Init, OutboxInit, Event
    <2> QED BY <2>1 DEF RepeatInv
  <1>2. Inv /\ RepeatInv /\ [Next]_vars => RepeatInv'
    BY RepeatNext
  <1>3. ASSUME Inv, RepeatInv PROVE RepeatsNeedFailures
    <2> SUFFICES ASSUME NEW e \in Event PROVE announced[e] <= 1 + failures
      BY DEF RepeatsNeedFailures
    <2>1. Counted(e) /\ IsFiniteSet(Holders(e))
      BY <1>3 DEF RepeatInv, Counted
    <2>2. announced[e] \in Nat /\ Cardinality(Holders(e)) \in Nat /\ failures \in Nat
      BY <1>3, <2>1, LoadTyped DEF Inv, OutboxInv
    <2> QED BY <2>1, <2>2 DEF Counted, Load
  <1> QED BY <1>1, <1>2, <1>3, Invariant, PTL DEF Spec

(* Clients see requests handled one at a time: the processes, their        *)
(* transactions and the outbox implement IdempotentIntake.                 *)
THEOREM Implements == Spec => KeepsPromise
  <1>1. Init => Promised!Init
    BY DEF Init, Promised!Init, Nowhere
  <1>2. Inv /\ [Next]_vars => [Promised!Next]_Mapped
    BY InvNext DEF Mapped
  <1> QED BY Invariant, <1>1, <1>2, PTL DEF Spec, KeepsPromise, Promised!Spec, Mapped
=============================================================================
