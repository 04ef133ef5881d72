------------------------------- MODULE Outbox -------------------------------
(***************************************************************************)
(* The transactional outbox: events are staged in the transaction that     *)
(* commits them (sqlite_runtime_transaction.py), announced on the event    *)
(* bus of the process right after the commit (transition_recorder.py), and *)
(* announced again by the publisher loops (outbox_publisher.py), which     *)
(* lease a batch of rows, publish it and only then mark it.                *)
(*                                                                         *)
(* A process runs one event loop, and EventBus.publish never suspends: a   *)
(* process that emits or publishes does nothing else, but it may die.      *)
(***************************************************************************)
EXTENDS Naturals, Sequences, FiniteSets

CONSTANTS
    Process,
    Publishing,  \* processes with a publisher loop: roles all and worker, flag on
    Run,
    BatchSize,
    LeaseTicks,  \* lease_seconds in ticks
    MaxEvents,   \* bound: rows in the outbox
    MaxFailures  \* bound: processes and loops that die, batches that take too long

ASSUME OutboxAssumption ==
    /\ Publishing \subseteq Process
    /\ BatchSize \in Nat \ {0}
    /\ LeaseTicks \in Nat \ {0}
    /\ MaxEvents \in Nat
    /\ MaxFailures \in Nat

VARIABLES
    outbox,     \* runtime_outbox in the order of created_at; a row is an event
    announced,  \* how often each event was announced by a publisher loop
    pc,         \* what the event loop of each process is busy with
    held,       \* the batch its publisher loop has leased
    todo,       \* the events of the batch it has yet to announce
    alive,      \* the processes whose publisher loop runs
    failures

outboxVars == <<outbox, announced, pc, todo, held, alive, failures>>

Event == 1..Len(outbox)

OutboxTypeOK ==
    /\ outbox \in Seq([run : Run, status : {"pending", "leased", "published"},
                       age : 0..LeaseTicks])
    /\ announced \in [Event -> Nat]
    /\ pc \in [Process -> {"idle", "emitting", "publishing", "down"}]
    /\ todo \in [Process -> SUBSET Event] /\ held \in [Process -> SUBSET Event]
    /\ alive \subseteq Publishing
    /\ failures \in 0..MaxFailures

OutboxInit ==
    /\ outbox = <<>>
    /\ announced = <<>>
    /\ pc = [p \in Process |-> "idle"]
    /\ todo = [p \in Process |-> {}]
    /\ held = [p \in Process |-> {}]
    /\ alive = Publishing
    /\ failures = 0

-----------------------------------------------------------------------------
(* The one who commits. *)

Row(r) == [run |-> r, status |-> "pending", age |-> 0]

(* One transaction with k events of run r. *)
Stage(p, r, k) ==
    /\ pc[p] = "idle"
    /\ Len(outbox) + k <= MaxEvents
    /\ outbox' = outbox \o [i \in 1..k |-> Row(r)]
    /\ announced' = announced \o [i \in 1..k |-> 0]
    /\ pc' = [pc EXCEPT ![p] = "emitting"]
    /\ UNCHANGED <<todo, held, alive, failures>>

(* The committed events go to the subscribers in this process, which may   *)
(* die first: what is announced here counts for nothing below.             *)
Emit(p) ==
    /\ pc[p] = "emitting"
    /\ pc' = [pc EXCEPT ![p] = "idle"]
    /\ UNCHANGED <<outbox, announced, todo, held, alive, failures>>

-----------------------------------------------------------------------------
(* The publisher loop. *)

(* Mutant: the rows that were left leased are not looked at. *)
ClaimablePending == {e \in Event : outbox[e].status = "pending"}

(* Mutant: every row that is not published, whoever has leased it. *)
ClaimableAny == {e \in Event : outbox[e].status # "published"}

Claimable ==
    {e \in Event : \/ outbox[e].status = "pending"
                   \/ outbox[e].status = "leased" /\ outbox[e].age >= LeaseTicks}

(* Mutant: ORDER BY created_at DESC. *)
BatchLatest ==
    {e \in Claimable : Cardinality({f \in Claimable : f > e}) < BatchSize}

(* The first BatchSize of them. *)
Batch == {e \in Claimable : Cardinality({f \in Claimable : f < e}) < BatchSize}

SetStatus(es, status) ==
    outbox' = [e \in Event |->
        IF e \in es THEN [run |-> outbox[e].run, status |-> status, age |-> 0] ELSE outbox[e]]

Claim(p) ==
    /\ p \in alive /\ pc[p] = "idle"
    /\ Claimable # {}
    /\ SetStatus(Batch, "leased")
    /\ held' = [held EXCEPT ![p] = Batch]
    /\ todo' = [todo EXCEPT ![p] = Batch]
    /\ pc' = [pc EXCEPT ![p] = "publishing"]
    /\ UNCHANGED <<announced, alive, failures>>

(* Oldest first. *)
Publish(p) ==
    /\ pc[p] = "publishing"
    /\ \E e \in todo[p] :
          /\ \A f \in todo[p] : e <= f
          /\ announced' = [announced EXCEPT ![e] = @ + 1]
          /\ todo' = [todo EXCEPT ![p] = @ \ {e}]
    /\ UNCHANGED <<outbox, pc, held, alive, failures>>

(* mark_published asks neither for the lease nor for the worker, and       *)
(* commits row by row.                                                     *)
Mark(p) ==
    /\ pc[p] = "publishing" /\ todo[p] = {}
    /\ \E e \in held[p] :
          /\ \A f \in held[p] : e <= f
          /\ SetStatus({e}, "published")
          /\ held' = [held EXCEPT ![p] = @ \ {e}]
          /\ pc' = [pc EXCEPT ![p] = IF held[p] = {e} THEN "idle" ELSE "publishing"]
    /\ UNCHANGED <<announced, todo, alive, failures>>

(* The database refuses claim_pending or mark_published: the exception     *)
(* ends the loop, and nothing starts it again while the process lives.     *)
DbFault(p) ==
    /\ failures < MaxFailures
    /\ p \in alive
    /\ \/ pc[p] = "idle"
       \/ pc[p] = "publishing" /\ todo[p] = {}
    /\ alive' = alive \ {p}
    /\ held' = [held EXCEPT ![p] = {}]
    /\ pc' = [pc EXCEPT ![p] = "idle"]
    /\ failures' = failures + 1
    /\ UNCHANGED <<outbox, announced, todo>>

-----------------------------------------------------------------------------
(* The processes and the clock. *)

Crash(p) ==
    /\ failures < MaxFailures
    /\ pc[p] # "down"
    /\ pc' = [pc EXCEPT ![p] = "down"]
    /\ todo' = [todo EXCEPT ![p] = {}]
    /\ held' = [held EXCEPT ![p] = {}]
    /\ alive' = alive \ {p}
    /\ failures' = failures + 1
    /\ UNCHANGED <<outbox, announced>>

Restart(p) ==
    /\ pc[p] = "down"
    /\ pc' = [pc EXCEPT ![p] = "idle"]
    /\ alive' = alive \cup ({p} \cap Publishing)
    /\ UNCHANGED <<outbox, announced, todo, held, failures>>

Aging == {e \in Event : outbox[e].status = "leased" /\ outbox[e].age < LeaseTicks}

(* The batch of a living process outlives its lease. *)
Late == \E p \in Process : \E e \in held[p] \cap Aging : outbox[e].age + 1 = LeaseTicks

Tick ==
    /\ Aging # {}
    /\ Late => failures < MaxFailures
    /\ failures' = IF Late THEN failures + 1 ELSE failures
    /\ outbox' = [e \in Event |-> IF e \in Aging THEN [outbox[e] EXCEPT !.age = @ + 1]
                                                 ELSE outbox[e]]
    /\ UNCHANGED <<announced, pc, todo, held, alive>>

OutboxNext ==
    \/ Tick
    \/ \E p \in Process :
          \/ \E r \in Run, k \in 1..MaxEvents : Stage(p, r, k)
          \/ Emit(p) \/ Claim(p) \/ Publish(p) \/ Mark(p) \/ DbFault(p)
          \/ Crash(p) \/ Restart(p)

OutboxSpec == OutboxInit /\ [][OutboxNext]_outboxVars

-----------------------------------------------------------------------------
(* Properties. *)

(* At least once: a row is marked only after its event was announced, also *)
(* when leases were lost and several loops hold the same row.              *)
MarkedIsAnnounced ==
    \A e \in Event : outbox[e].status = "published" => announced[e] > 0

(* At most once per failure: an event is repeated only after a loop or a   *)
(* process died, or a batch took longer than its lease.                    *)
RepeatsNeedFailures == \A e \in Event : announced[e] <= 1 + failures

(* In order: an event is announced before an earlier one of its run only   *)
(* while that one is leased, so while another loop has it or has died.     *)
OvertakesOnlyLeased ==
    [][\A e, f \in Event :
         /\ e < f /\ outbox[e].run = outbox[f].run
         /\ announced[e] = 0
         /\ announced[f] = 0 /\ announced'[f] = 1
         => outbox[e].status = "leased"]_outboxVars

(* Every staged event is announced by a loop, whoever died and whatever    *)
(* was leased, as long as some loop goes on for ever.                      *)
Drains ==
    (\E p \in Publishing : <>[](p \in alive))
    => \A e \in 1..MaxEvents : [](e \in Event => <>(e \in Event /\ announced[e] > 0))
=============================================================================
