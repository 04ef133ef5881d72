----------------------------- MODULE TurnIntake -----------------------------
(***************************************************************************)
(* How a session turn becomes a run: SQLiteAgentUnitOfWork                 *)
(* .enqueue_run_and_turn (sqlite_uow.py) looks up or reserves the          *)
(* idempotency key of the request and inserts run, turn, queue row and two *)
(* events in one transaction, which stages the events in the Outbox.       *)
(*                                                                         *)
(* Runs are numbered in the order of their commits.  A client that gets no *)
(* answer sends another request with the same key.                         *)
(***************************************************************************)
EXTENDS Outbox

CONSTANTS
    Request,
    NoKey,      \* the request has no Idempotency-Key
    KeyOf,      \* [Request -> keys, or NoKey]
    NoProcess

VARIABLES
    created,    \* the key of each run, in the order of creation
    reserved,   \* idempotency_keys of one session: the run of each key, 0 if it is free
    writer,     \* the process whose transaction holds the database
    found,      \* the request it serves, and the run that its lookup found
    request     \* where each request is, and the run that answers it

intake == <<created, reserved, writer, found, request>>
vars == <<outboxVars, intake>>

Created == 1..Len(created)
Key == {KeyOf[q] : q \in Request} \ {NoKey}

ASSUME TurnIntakeAssumption ==
    /\ NoProcess \notin Process
    /\ DOMAIN KeyOf = Request
    /\ IsFiniteSet(Request)
    /\ Run = 1..Cardinality(Request)

NotFound == [request |-> NoKey, run |-> 0]

Nowhere == [state |-> "new", at |-> NoProcess, run |-> 0]

TypeOK ==
    /\ OutboxTypeOK
    /\ created \in Seq(Key \cup {NoKey})
    /\ reserved \in [Key -> Run \cup {0}]
    /\ writer \in Process \cup {NoProcess}
    /\ found \in [request : Request \cup {NoKey}, run : Run \cup {0}]
    /\ request \in [Request -> [state : {"new", "served", "answered", "refused", "lost"},
                               at : Process \cup {NoProcess}, run : Run \cup {0}]]

Init ==
    /\ OutboxInit
    /\ created = <<>>
    /\ reserved = [k \in Key |-> 0]
    /\ writer = NoProcess
    /\ found = NotFound
    /\ request = [q \in Request |-> Nowhere]

-----------------------------------------------------------------------------
NewRun == Len(created) + 1

(* BEGIN IMMEDIATE and the lookup of the key. *)
Begin(p, q) ==
    /\ writer = NoProcess /\ pc[p] = "idle"
    /\ request[q].state = "new"
    /\ writer' = p
    /\ found' = [request |-> q,
                 run |-> IF KeyOf[q] = NoKey THEN 0 ELSE reserved[KeyOf[q]]]
    /\ UNCHANGED <<outboxVars, created, reserved, request>>

Serve(p, run) ==
    request' = [request EXCEPT ![found.request] = [state |-> "served", at |-> p, run |-> run]]

EndTransaction == writer' = NoProcess /\ found' = NotFound

(* The key is known: its run is the answer, nothing is written. *)
Repeat(p) ==
    /\ writer = p /\ found.run # 0
    /\ Serve(p, found.run)
    /\ EndTransaction
    /\ UNCHANGED <<outboxVars, created, reserved>>

Reserve(key, run) ==
    reserved' = [k \in Key |-> IF k = key THEN run ELSE reserved[k]]

(* Mutant: the lookup is made before the lock is taken. *)
InsertBlindly(p) ==
    /\ writer = p
    /\ Reserve(KeyOf[found.request], NewRun)
    /\ created' = Append(created, KeyOf[found.request])
    /\ Stage(p, NewRun, 2)
    /\ Serve(p, NewRun)
    /\ EndTransaction

(* The key is free: run, turn, queue row and the events RUN_CREATED and    *)
(* RUN_QUEUED are inserted and committed, and then announced.              *)
Insert(p) ==
    /\ writer = p /\ found.run = 0
    /\ Reserve(KeyOf[found.request], NewRun)
    /\ created' = Append(created, KeyOf[found.request])
    /\ Stage(p, NewRun, 2)
    /\ Serve(p, NewRun)
    /\ EndTransaction

(* No such session, or any error of the inserts or the commit. *)
RollBack(p) ==
    /\ writer = p
    /\ request' = [request EXCEPT ![found.request].state = "refused"]
    /\ EndTransaction
    /\ UNCHANGED <<outboxVars, created, reserved>>

(* The response, after the events were announced in this process. *)
Reply(q) ==
    /\ request[q].state = "served"
    /\ pc[request[q].at] = "idle" /\ writer # request[q].at
    /\ request' = [request EXCEPT ![q].state = "answered"]
    /\ UNCHANGED <<outboxVars, created, reserved, writer, found>>

(* Any other transition of a run commits one event. *)
Record(p) ==
    /\ writer = NoProcess
    /\ \E r \in Created : Stage(p, r, 1)
    /\ UNCHANGED intake

Loop(p) ==
    /\ writer = NoProcess
    /\ Claim(p) \/ Mark(p) \/ DbFault(p)
    /\ UNCHANGED intake

Announce(p) == (Emit(p) \/ Publish(p)) /\ UNCHANGED intake

Boot(p) == Restart(p) /\ UNCHANGED intake

(* The clock does not stop inside a transaction, but nothing reads it. *)
Time == Tick /\ UNCHANGED intake

(* The transaction of the process is rolled back, its requests get no      *)
(* answer.                                                                 *)
Die(p) ==
    /\ Crash(p)
    /\ writer' = IF writer = p THEN NoProcess ELSE writer
    /\ request' = [q \in Request |->
         IF \/ request[q].state = "served" /\ request[q].at = p
            \/ writer = p /\ q = found.request
         THEN [request[q] EXCEPT !.state = "lost"] ELSE request[q]]
    /\ found' = IF writer = p THEN NotFound ELSE found
    /\ UNCHANGED <<created, reserved>>

Next ==
    \/ Time
    \/ \E q \in Request : Reply(q) \/ \E p \in Process : Begin(p, q)
    \/ \E p \in Process :
          \/ Repeat(p) \/ Insert(p) \/ RollBack(p) \/ Record(p)
          \/ Loop(p) \/ Announce(p) \/ Boot(p) \/ Die(p)

Spec == Init /\ [][Next]_vars

(* The event loops run what is ready and time passes; nobody has to send a *)
(* request, and a process that died need not come back.                    *)
Fairness ==
    /\ WF_vars(Time)
    /\ \A p \in Process :
          /\ WF_vars(Announce(p))
          /\ WF_vars(Repeat(p) \/ Insert(p) \/ RollBack(p))
          /\ SF_vars(Loop(p))

FairSpec == Spec /\ Fairness

-----------------------------------------------------------------------------
(* Properties. *)

(* Requests with the same key create one run, whichever processes they     *)
(* reach, whoever dies and whatever is rolled back.                        *)
OneRunPerKey ==
    \A r, s \in Created : created[r] = created[s] /\ created[r] # NoKey => r = s

(* An answer names a run that exists and belongs to the key of the         *)
(* request, so equal keys get equal answers.                               *)
AnswersAgree ==
    \A q \in Request : request[q].state = "answered" =>
        /\ request[q].run \in Created
        /\ created[request[q].run] = KeyOf[q]

(* A run exists together with its two events, or not at all.               *)
AllOrNothing ==
    /\ \A r \in Run : LET events == {e \in Event : outbox[e].run = r} IN
          IF r \in Created THEN Cardinality(events) >= 2 ELSE events = {}
    /\ \A k \in Key : reserved[k] # 0 => reserved[k] \in Created /\ created[reserved[k]] = k

Promised ==
    INSTANCE IdempotentIntake
      WITH runs <- created,
           outcome <- [q \in Request |-> [state |-> request[q].state, run |-> request[q].run]]

(* Clients see a service that handles each request in one atomic step,     *)
(* except that an answer may be lost.                                      *)
KeepsPromise == Promised!Spec
=============================================================================
