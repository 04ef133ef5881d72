------------------------------ MODULE RunQueue ------------------------------
(***************************************************************************)
(* The durable queue of runs (SQLiteRunQueue) and the loops that consume   *)
(* it (AsyncioWorker._process_loop).                                       *)
(*                                                                         *)
(* Table run_queue is a log: every operation but the heartbeat appends a   *)
(* row, and only the latest row of a run is ever read.  The model keeps    *)
(* that row, and the order of the latest rows in the table.  A lease is    *)
(* kept as the time it has left, so leased_at and lease_expires_at, which  *)
(* are always written together, are one number.                            *)
(***************************************************************************)
EXTENDS Naturals, FiniteSets

CONSTANTS
    Run,             \* run identifiers
    Worker,          \* worker loops, in processes of their own
    Producer,        \* coroutines that append a 'queued' row
    Nobody,          \* no run, no worker
    LeaseTicks,      \* lease_seconds
    MaxAttempts,     \* max_attempts
    MaxAppends,      \* bound: rows the producers append
    Timely,          \* TRUE: a heartbeat that is alive comes before the expiry
    HeartbeatFaults, \* TRUE: a heartbeat may raise, which ends its task
    AtomicAppend,    \* TRUE: nothing happens between the two statements of
                     \* append_status
    Disciplined      \* TRUE: no row is appended for a run that is executing

ASSUME RunQueueAssumption ==
    /\ Nobody \notin Run \cup Worker
    /\ LeaseTicks \in Nat \ {0}
    /\ MaxAttempts \in Nat \ {0}
    /\ MaxAppends \in Nat
    /\ {Timely, HeartbeatFaults, AtomicAppend, Disciplined} \subseteq BOOLEAN

VARIABLES
    row,      \* the latest row of each run
    before,   \* the pairs of runs whose latest rows are in this order
    pc,       \* where each worker loop is
    holds,    \* the run each worker loop claimed and has not released
    beat,     \* whether the heartbeat task of the loop is alive
    seen,     \* what a producer read in append_status, and has not written
    claims,   \* how often each run was claimed
    appends   \* rows the producers appended so far

table == <<row, before>>
loops == <<pc, holds, beat>>
vars  == <<table, loops, seen, claims, appends>>

Settled == {"done", "failed", "cancelled", "dead_letter"}

Entry == [status : {"absent", "queued", "running"} \cup Settled,
          worker : Worker \cup {Nobody}, left : Nat, attempts : Nat]

Note == [run : Run \cup {Nobody}, attempts : Nat]

TypeOK ==
    /\ row \in [Run -> Entry]
    /\ before \subseteq Run \X Run
    /\ pc \in [Worker -> {"down", "polling", "executing", "ended"}]
    /\ holds \in [Worker -> Run \cup {Nobody}]
    /\ beat \in [Worker -> BOOLEAN]
    /\ seen \in [Producer -> Note]
    /\ claims \in [Run -> Nat]
    /\ appends \in Nat

Init ==
    /\ row = [r \in Run |-> [status |-> "absent", worker |-> Nobody, left |-> 0, attempts |-> 0]]
    /\ before = {}
    /\ pc = [w \in Worker |-> "down"]
    /\ holds = [w \in Worker |-> Nobody]
    /\ beat = [w \in Worker |-> FALSE]
    /\ seen = [p \in Producer |-> [run |-> Nobody, attempts |-> 0]]
    /\ claims = [r \in Run |-> 0]
    /\ appends = 0

-----------------------------------------------------------------------------
(* The table. *)

Present == {r \in Run : row[r].status # "absent"}

(* Mutant: a lease that still runs does not protect a claim. *)
ClaimableLeased(r) == row[r].status \in {"queued", "running"}

(* Mutant: an expired lease is left to the next start. *)
ClaimableQueued(r) == row[r].status = "queued"

Claimable(r) ==
    \/ row[r].status = "queued"
    \/ row[r].status = "running" /\ row[r].left = 0

(* ORDER BY queue_id ASC LIMIT 1 *)
First(r) ==
    /\ Claimable(r)
    /\ \A s \in Run \ {r} : Claimable(s) => <<r, s>> \in before

(* A new row is the last of the table. *)
Insert(r, status, worker, left, attempts) ==
    /\ row' = [row EXCEPT ![r] = [status |-> status, worker |-> worker,
                                  left |-> left, attempts |-> attempts]]
    /\ before' = {p \in before : r \notin {p[1], p[2]}}
                   \cup ((Present \ {r}) \X {r})

Owns(w, r) == row[r].status = "running" /\ row[r].worker = w

(* Time passes for the leases. *)
Tick ==
    /\ \E r \in Run : row[r].status = "running" /\ row[r].left > 0
    /\ Timely => \A w \in Worker :
                   beat[w] /\ holds[w] \in Run /\ Owns(w, holds[w]) => row[holds[w]].left # 1
    /\ row' = [r \in Run |-> IF row[r].status = "running" /\ row[r].left > 0
                             THEN [row[r] EXCEPT !.left = row[r].left - 1]
                             ELSE row[r]]
    /\ UNCHANGED <<before, loops, seen, claims, appends>>

-----------------------------------------------------------------------------
(* Producers: append_status reads the attempts of the latest row, and then *)
(* inserts the new row.                                                    *)

(* Mutant: a new row starts to count again. *)
AppendStatusReset(p, r) ==
    /\ seen[p].run = Nobody
    /\ appends < MaxAppends
    /\ \A w \in Worker : ~(holds[w] = r /\ pc[w] = "executing")
    /\ Insert(r, "queued", Nobody, 0, 0)
    /\ appends' = appends + 1
    /\ UNCHANGED <<loops, seen, claims>>

AppendStatus(p, r) ==
    /\ seen[p].run = Nobody
    /\ appends < MaxAppends
    /\ Disciplined => \A w \in Worker : ~(holds[w] = r /\ pc[w] = "executing")
    /\ appends' = appends + 1
    /\ IF AtomicAppend
       THEN Insert(r, "queued", Nobody, 0, row[r].attempts) /\ UNCHANGED seen
       ELSE /\ seen' = [seen EXCEPT ![p] = [run |-> r, attempts |-> row[r].attempts]]
            /\ UNCHANGED table
    /\ UNCHANGED <<loops, claims>>

AppendWrite(p) ==
    /\ seen[p].run # Nobody
    /\ Insert(seen[p].run, "queued", Nobody, 0, seen[p].attempts)
    /\ seen' = [seen EXCEPT ![p] = [run |-> Nobody, attempts |-> 0]]
    /\ UNCHANGED <<loops, claims, appends>>

-----------------------------------------------------------------------------
(* A worker loop. *)

Stalled == {r \in Run : row[r].status = "running" /\ row[r].left = 0}

(* start(): recover_stalled_leases, once, and then the loop polls. *)
Start(w) ==
    /\ pc[w] = "down"
    /\ pc' = [pc EXCEPT ![w] = "polling"]
    /\ row' = [r \in Run |->
                 IF r \notin Stalled THEN row[r]
                 ELSE [status |-> IF row[r].attempts >= MaxAttempts THEN "dead_letter" ELSE "queued",
                       worker |-> Nobody, left |-> 0, attempts |-> row[r].attempts]]
    /\ before' = {p \in before : p[1] \in Stalled => p[2] \in Stalled}
                   \cup ((Present \ Stalled) \X Stalled)
    /\ UNCHANGED <<holds, beat, seen, claims, appends>>

(* A run whose attempts are used up is moved out of the way, and the loop  *)
(* goes on polling.                                                        *)
DeadLetter(w) ==
    /\ pc[w] = "polling"
    /\ \E r \in Run :
         /\ First(r)
         /\ row[r].attempts + 1 > MaxAttempts
         /\ Insert(r, "dead_letter", Nobody, 0, row[r].attempts)
    /\ UNCHANGED <<loops, seen, claims, appends>>

ClaimAtomic(w) ==
    /\ pc[w] = "polling"
    /\ \E r \in Run :
         /\ First(r)
         /\ row[r].attempts + 1 <= MaxAttempts
         /\ Insert(r, "running", w, LeaseTicks, row[r].attempts + 1)
         /\ holds' = [holds EXCEPT ![w] = r]
         /\ claims' = [claims EXCEPT ![r] = claims[r] + 1]
    /\ pc' = [pc EXCEPT ![w] = "executing"]
    /\ beat' = [beat EXCEPT ![w] = TRUE]
    /\ UNCHANGED <<seen, appends>>

Heartbeat(w) ==
    /\ beat[w]
    /\ \E r \in Run :
         /\ r = holds[w]
         /\ Owns(w, r) /\ row[r].left < LeaseTicks
         /\ row' = [row EXCEPT ![r] = [row[r] EXCEPT !.left = LeaseTicks]]
    /\ UNCHANGED <<before, loops, seen, claims, appends>>

(* The database is locked for too long: the exception ends the task, and   *)
(* nobody looks at it before the execution is over.                        *)
HeartbeatDies(w) ==
    /\ HeartbeatFaults
    /\ beat[w]
    /\ beat' = [beat EXCEPT ![w] = FALSE]
    /\ UNCHANGED <<table, pc, holds, seen, claims, appends>>

(* run_to_pause_or_completion returned or raised. *)
End(w) ==
    /\ pc[w] = "executing"
    /\ pc' = [pc EXCEPT ![w] = "ended"]
    /\ UNCHANGED <<table, holds, beat, seen, claims, appends>>

(* Mutant: whoever holds the claim now loses it. *)
ReleaseClaimUnfenced(w) ==
    /\ pc[w] = "ended"
    /\ \E r \in Run, final \in {"done", "failed", "cancelled"} :
         /\ r = holds[w]
         /\ Insert(r, final, w, 0, row[r].attempts)
    /\ pc' = [pc EXCEPT ![w] = "polling"]
    /\ holds' = [holds EXCEPT ![w] = Nobody]
    /\ beat' = [beat EXCEPT ![w] = FALSE]
    /\ UNCHANGED <<seen, claims, appends>>

(* A row that is no longer this worker's claim is left alone. *)
ReleaseClaim(w) ==
    /\ pc[w] = "ended"
    /\ \E r \in Run, final \in {"done", "failed", "cancelled"} :
         /\ r = holds[w]
         /\ IF Owns(w, r)
            THEN Insert(r, final, w, 0, row[r].attempts)
            ELSE UNCHANGED table
    /\ pc' = [pc EXCEPT ![w] = "polling"]
    /\ holds' = [holds EXCEPT ![w] = Nobody]
    /\ beat' = [beat EXCEPT ![w] = FALSE]
    /\ UNCHANGED <<seen, claims, appends>>

(* The process dies or is stopped: stop() cancels the loop, and no claim   *)
(* is released.                                                            *)
Crash(w) ==
    /\ pc[w] # "down"
    /\ pc' = [pc EXCEPT ![w] = "down"]
    /\ holds' = [holds EXCEPT ![w] = Nobody]
    /\ beat' = [beat EXCEPT ![w] = FALSE]
    /\ UNCHANGED <<table, seen, claims, appends>>

Produce(p) == AppendWrite(p) \/ \E r \in Run : AppendStatus(p, r)

Poll(w) == DeadLetter(w) \/ ClaimAtomic(w)

Work(w) ==
    \/ Start(w) \/ Poll(w) \/ Heartbeat(w) \/ HeartbeatDies(w)
    \/ End(w) \/ ReleaseClaim(w) \/ Crash(w)

Next ==
    \/ Tick
    \/ \E p \in Producer : Produce(p)
    \/ \E w \in Worker : Work(w)

Spec == Init /\ [][Next]_vars

(* A process that died is started again, and not always killed before its  *)
(* loop polls; every execution ends (models and tools are called with      *)
(* timeouts), heartbeats are sent and time passes.                         *)
Fairness ==
    /\ WF_vars(Tick)
    /\ \A w \in Worker : /\ WF_vars(Start(w)) /\ SF_vars(Poll(w)) /\ WF_vars(Heartbeat(w))
                         /\ WF_vars(End(w)) /\ WF_vars(ReleaseClaim(w))

FairSpec == Spec /\ Fairness

-----------------------------------------------------------------------------
(* Properties. *)

(* No run is executed by two workers at the same time. *)
MutualExclusion ==
    \A v, w \in Worker :
        pc[v] = "executing" /\ pc[w] = "executing" /\ holds[v] = holds[w] => v = w

Open == {r \in Run : row[r].status \in {"queued", "running"}}
Doing == [w \in Worker |-> IF pc[w] = "executing" THEN holds[w] ELSE Nobody]

Dispatched == INSTANCE RunDispatch WITH open <- Open, doing <- Doing, handed <- claims

(* Whoever queues runs sees one queue without leases or processes: it      *)
(* hands an open run to one worker at a time, and closes it only after it  *)
(* was worked on or when its attempts are used up.                         *)
HandsOut == Dispatched!Spec

(* A run is handed to workers at most MaxAttempts times, and is given up   *)
(* only after it was handed out that often.                                *)
AttemptsExact ==
    \A r \in Run : /\ claims[r] <= MaxAttempts
                   /\ row[r].status = "dead_letter" => claims[r] = MaxAttempts

(* While its lease runs, a claim is ended by the worker that holds it or   *)
(* by a row a producer appends, and by nothing else: neither a worker that *)
(* lost the claim nor a starting one touches it.                           *)
Fenced ==
    [][\A r \in Run :
         row[r].status = "running" /\ row[r].left > 0 =>
           \/ row'[r].status = "running" /\ row'[r].worker = row[r].worker
           \/ row'[r].status = "queued"
           \/ holds[row[r].worker] = r /\ holds'[row[r].worker] = Nobody]_vars

(* Every run that is queued or claimed is settled in the end, and no run   *)
(* that keeps killing its worker holds up the others.                      *)
Settles ==
    \A r \in Run : row[r].status \in {"queued", "running"} ~> row[r].status \in Settled
=============================================================================
