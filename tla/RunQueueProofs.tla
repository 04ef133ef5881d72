--------------------------- MODULE RunQueueProofs ---------------------------
(***************************************************************************)
(* Proofs about RunQueue, for any number of runs, workers and producers,   *)
(* any lease and any number of attempts.                                   *)
(***************************************************************************)
EXTENDS RunQueue, TLAPS

USE DEF table, loops

-----------------------------------------------------------------------------
(* Types. *)

(* A row inserted with values of the right types keeps the table typed. *)
LEMMA InsertTyped ==
  ASSUME TypeOK, NEW r \in Run, NEW status \in {"queued", "running"} \cup Settled,
         NEW worker \in Worker \cup {Nobody}, NEW left \in Nat, NEW attempts \in Nat,
         Insert(r, status, worker, left, attempts)
  PROVE  row' \in [Run -> Entry] /\ before' \subseteq Run \X Run
  <1>1. row' \in [Run -> Entry]
    BY DEF TypeOK, Insert, Entry
  <1>2. before' \subseteq Run \X Run
    BY DEF TypeOK, Insert, Present
  <1> QED BY <1>1, <1>2

(* An empty queue has its types. *)
LEMMA TypeInit == RunQueueAssumption /\ Init => TypeOK
  BY DEF Init, TypeOK, Entry, Note

(* Attempts and leases are numbers. *)
LEMMA AttemptsTyped ==
  ASSUME TypeOK, NEW r \in Run
  PROVE  row[r] \in Entry /\ row[r].attempts \in Nat /\ row[r].left \in Nat
  BY DEF TypeOK, Entry

(* Every step keeps the types. *)
LEMMA TypeNext ==
  ASSUME RunQueueAssumption, TypeOK, [Next]_vars
  PROVE  TypeOK'
  <1>1. CASE Tick
    <2>1. row' \in [Run -> Entry]
      BY <1>1 DEF Tick, TypeOK, Entry
    <2> QED BY <1>1, <2>1 DEF Tick, TypeOK
  <1>2. ASSUME NEW p \in Producer, NEW r \in Run, AppendStatus(p, r) PROVE TypeOK'
    <2>0. appends' \in Nat
      BY <1>2 DEF AppendStatus, TypeOK
    <2>1. CASE AtomicAppend
      <3>1. Insert(r, "queued", Nobody, 0, row[r].attempts)
        BY <1>2, <2>1 DEF AppendStatus
      <3>2. row' \in [Run -> Entry] /\ before' \subseteq Run \X Run
        BY <3>1, InsertTyped, AttemptsTyped
      <3> QED BY <1>2, <2>0, <2>1, <3>2 DEF AppendStatus, TypeOK
    <2>2. CASE ~AtomicAppend
      <3>1. seen' \in [Producer -> Note]
        BY <1>2, <2>2, AttemptsTyped DEF AppendStatus, TypeOK, Note
      <3> QED BY <1>2, <2>0, <2>2, <3>1 DEF AppendStatus, TypeOK
    <2> QED BY <2>1, <2>2
  <1>3. ASSUME NEW p \in Producer, AppendWrite(p) PROVE TypeOK'
    <2>1. seen[p] \in Note /\ seen[p].run \in Run /\ seen[p].attempts \in Nat
      BY <1>3 DEF AppendWrite, TypeOK, Note
    <2>2. row' \in [Run -> Entry] /\ before' \subseteq Run \X Run
      BY <1>3, <2>1, InsertTyped DEF AppendWrite
    <2>3. seen' \in [Producer -> Note]
      BY <1>3 DEF AppendWrite, TypeOK, Note
    <2> QED BY <1>3, <2>2, <2>3 DEF AppendWrite, TypeOK
  <1>4. ASSUME NEW w \in Worker, Start(w) PROVE TypeOK'
    <2>1. row' \in [Run -> Entry]
      <3>1. ASSUME NEW r \in Run PROVE row'[r] \in Entry
        BY <1>4, AttemptsTyped DEF Start, Entry, Settled
      <3> QED BY <1>4, <3>1 DEF Start
    <2>2. before' \subseteq Run \X Run
      BY <1>4 DEF Start, TypeOK, Present, Stalled
    <2> QED BY <1>4, <2>1, <2>2 DEF Start, TypeOK
  <1>5. ASSUME NEW w \in Worker, DeadLetter(w) PROVE TypeOK'
    <2>1. PICK r \in Run : Insert(r, "dead_letter", Nobody, 0, row[r].attempts)
      BY <1>5 DEF DeadLetter
    <2>2. row' \in [Run -> Entry] /\ before' \subseteq Run \X Run
      BY <2>1, InsertTyped, AttemptsTyped DEF Settled
    <2> QED BY <1>5, <2>2 DEF DeadLetter, TypeOK
  <1>6. ASSUME NEW w \in Worker, ClaimAtomic(w) PROVE TypeOK'
    <2>1. PICK r \in Run : /\ Insert(r, "running", w, LeaseTicks, row[r].attempts + 1)
                           /\ holds' = [holds EXCEPT ![w] = r]
                           /\ claims' = [claims EXCEPT ![r] = claims[r] + 1]
      BY <1>6 DEF ClaimAtomic
    <2>2. row' \in [Run -> Entry] /\ before' \subseteq Run \X Run
      <3>1. row[r].attempts + 1 \in Nat /\ LeaseTicks \in Nat
        BY AttemptsTyped DEF RunQueueAssumption
      <3> QED BY <2>1, <3>1, InsertTyped
    <2>3. holds' \in [Worker -> Run \cup {Nobody}]
      BY <2>1 DEF TypeOK
    <2>4. claims' \in [Run -> Nat]
      BY <2>1 DEF TypeOK
    <2>5. /\ pc' \in [Worker -> {"down", "polling", "executing", "ended"}]
          /\ beat' \in [Worker -> BOOLEAN]
          /\ seen' = seen /\ appends' = appends
      BY <1>6 DEF ClaimAtomic, TypeOK
    <2> QED BY <2>2, <2>3, <2>4, <2>5 DEF TypeOK
  <1>7. ASSUME NEW w \in Worker, Heartbeat(w) PROVE TypeOK'
    <2>1. row' \in [Run -> Entry]
      BY <1>7 DEF Heartbeat, TypeOK, Entry, RunQueueAssumption
    <2> QED BY <1>7, <2>1 DEF Heartbeat, TypeOK
  <1>8. ASSUME NEW w \in Worker, ReleaseClaim(w) PROVE TypeOK'
    <2>1. row' \in [Run -> Entry] /\ before' \subseteq Run \X Run
      <3>1. PICK r \in Run, final \in {"done", "failed", "cancelled"} :
              IF Owns(w, r) THEN Insert(r, final, w, 0, row[r].attempts) ELSE UNCHANGED table
        BY <1>8 DEF ReleaseClaim
      <3>2. CASE Insert(r, final, w, 0, row[r].attempts)
        BY <3>2, InsertTyped, AttemptsTyped DEF Settled
      <3>3. CASE UNCHANGED table
        BY <3>3 DEF TypeOK
      <3> QED BY <3>1, <3>2, <3>3
    <2> QED BY <1>8, <2>1 DEF ReleaseClaim, TypeOK
  <1>9. ASSUME NEW w \in Worker, HeartbeatDies(w) \/ End(w) \/ Crash(w) PROVE TypeOK'
    BY <1>9 DEF HeartbeatDies, End, Crash, TypeOK
  <1>10. CASE UNCHANGED vars
    BY <1>10 DEF vars, TypeOK
  <1> QED
    BY <1>1, <1>2, <1>3, <1>4, <1>5, <1>6, <1>7, <1>8, <1>9, <1>10 DEF Next, Produce, Work, Poll

(* Every variable keeps its type. *)
THEOREM TypeCorrect == Spec => []TypeOK
  <1>1. Init => TypeOK
    BY RunQueueAssumption, TypeInit
  <1>2. TypeOK /\ [Next]_vars => TypeOK'
    BY RunQueueAssumption, TypeNext
  <1> QED BY <1>1, <1>2, PTL DEF Spec

-----------------------------------------------------------------------------
(* Exclusion, when heartbeats arrive in time, append_status is one step    *)
(* and nobody appends a row for a run that is executing.                   *)

Leased == Timely /\ ~HeartbeatFaults /\ AtomicAppend /\ Disciplined

(* No producer is between the two statements of append_status. *)
NothingSeen == \A p \in Producer : seen[p].run = Nobody

(* An executing worker has a claim whose lease runs, and keeps it alive. *)
ClaimLive ==
    \A w \in Worker : pc[w] = "executing" =>
        holds[w] \in Run /\ beat[w] /\ Owns(w, holds[w]) /\ row[holds[w]].left > 0

ExclusionInv == TypeOK /\ NothingSeen /\ ClaimLive

(* A claim that is live is not claimable, nor recovered by a start. *)
LEMMA LiveNotFirst ==
  ASSUME NEW r \in Run, row[r].status = "running", row[r].left > 0
  PROVE  ~First(r) /\ r \notin Stalled
  BY DEF First, Claimable, Stalled

(* Inserting a row leaves the rows of the other runs alone. *)
LEMMA InsertElsewhere ==
  ASSUME TypeOK, NEW r \in Run, NEW status, NEW worker, NEW left, NEW attempts,
         Insert(r, status, worker, left, attempts), NEW s \in Run, s # r
  PROVE  row'[s] = row[s]
  BY DEF Insert, TypeOK

(* An inserted row is the latest of its run. *)
LEMMA InsertThere ==
  ASSUME TypeOK, NEW r \in Run, NEW status, NEW worker, NEW left, NEW attempts,
         Insert(r, status, worker, left, attempts)
  PROVE  /\ row'[r].status = status /\ row'[r].worker = worker
         /\ row'[r].left = left /\ row'[r].attempts = attempts
  BY DEF Insert, TypeOK

(* With an atomic append nobody holds what it read of a row. *)
LEMMA NothingSeenKept ==
  ASSUME AtomicAppend, NothingSeen, [Next]_vars
  PROVE  NothingSeen'
  <1>1. ASSUME NEW p \in Producer, AppendWrite(p) PROVE FALSE
    BY <1>1 DEF AppendWrite, NothingSeen
  <1>2. seen' = seen
    BY <1>1 DEF Next, Produce, Work, Poll, vars, Tick, AppendStatus, Start, DeadLetter, ClaimAtomic,
                Heartbeat, HeartbeatDies, End, ReleaseClaim, Crash
  <1> QED BY <1>2 DEF NothingSeen

(* What ClaimLive says of one worker. *)
Live(w) == holds[w] \in Run /\ beat[w] /\ Owns(w, holds[w]) /\ row[holds[w]].left > 0

(* A worker keeps its claim while its own variables and the row of its run *)
(* stay as they are.                                                       *)
LEMMA ClaimStays ==
  ASSUME NEW w \in Worker, Live(w),
         holds'[w] = holds[w], beat'[w] = beat[w], row'[holds[w]] = row[holds[w]]
  PROVE  Live(w)'
  BY DEF Live, Owns

(* Every step keeps executions on live claims. *)
LEMMA ClaimLiveNext ==
  ASSUME RunQueueAssumption, Leased, ExclusionInv, [Next]_vars
  PROVE  ClaimLive'
  <1> SUFFICES ASSUME NEW v \in Worker, pc'[v] = "executing"
               PROVE  Live(v)'
    BY DEF ClaimLive, Live
  <1>0. TypeOK /\ (pc[v] = "executing" => Live(v))
    BY DEF ExclusionInv, ClaimLive, Live
  <1>1. CASE Tick
    <2>1. Live(v) /\ holds'[v] = holds[v] /\ beat'[v] = beat[v]
      BY <1>0, <1>1 DEF Tick
    <2>2. row[holds[v]].left # 1 /\ row[holds[v]].left \in Nat
      BY <1>0, <1>1, <2>1, AttemptsTyped DEF Tick, Leased, Live
    <2>3. row'[holds[v]] = [row[holds[v]] EXCEPT !.left = row[holds[v]].left - 1]
      BY <1>1, <2>1 DEF Tick, Live, Owns
    <2>4. row[holds[v]] \in Entry
      BY <1>0, <2>1, AttemptsTyped DEF Live
    <2>5. /\ row'[holds[v]].status = row[holds[v]].status
          /\ row'[holds[v]].worker = row[holds[v]].worker
          /\ row'[holds[v]].left = row[holds[v]].left - 1
      BY <2>3, <2>4 DEF Entry
    <2> QED BY <2>1, <2>2, <2>5 DEF Live, Owns
  <1>2. ASSUME NEW p \in Producer, NEW r \in Run, AppendStatus(p, r) PROVE Live(v)'
    <2>1. pc[v] = "executing" /\ holds'[v] = holds[v] /\ beat'[v] = beat[v]
      BY <1>2 DEF AppendStatus
    <2>2. Insert(r, "queued", Nobody, 0, row[r].attempts) /\ r # holds[v]
      BY <1>2, <2>1 DEF AppendStatus, Leased
    <2>3. row'[holds[v]] = row[holds[v]]
      BY <1>0, <2>1, <2>2, InsertElsewhere DEF Live
    <2> QED BY <1>0, <2>1, <2>3, ClaimStays
  <1>3. ASSUME NEW p \in Producer, AppendWrite(p) PROVE Live(v)'
    BY <1>3 DEF AppendWrite, ExclusionInv, NothingSeen
  <1>4. ASSUME NEW w \in Worker, Start(w) PROVE Live(v)'
    <2>1. pc[v] = "executing" /\ holds'[v] = holds[v] /\ beat'[v] = beat[v]
      BY <1>0, <1>4 DEF Start, TypeOK
    <2>2. holds[v] \in Run \ Stalled
      BY <1>0, <2>1, LiveNotFirst DEF Live, Owns
    <2>3. row'[holds[v]] = row[holds[v]]
      BY <1>4, <2>2 DEF Start
    <2> QED BY <1>0, <2>1, <2>3, ClaimStays
  <1>5. ASSUME NEW w \in Worker, DeadLetter(w) PROVE Live(v)'
    <2>1. pc[v] = "executing" /\ holds'[v] = holds[v] /\ beat'[v] = beat[v]
      BY <1>5 DEF DeadLetter
    <2>2. PICK r \in Run : First(r) /\ Insert(r, "dead_letter", Nobody, 0, row[r].attempts)
      BY <1>5 DEF DeadLetter
    <2>3. r # holds[v]
      BY <1>0, <2>1, <2>2, LiveNotFirst DEF Live, Owns
    <2>4. row'[holds[v]] = row[holds[v]]
      BY <1>0, <2>1, <2>2, <2>3, InsertElsewhere DEF Live
    <2> QED BY <1>0, <2>1, <2>4, ClaimStays
  <1>6. ASSUME NEW w \in Worker, ClaimAtomic(w) PROVE Live(v)'
    <2>1. PICK r \in Run : /\ First(r)
                           /\ Insert(r, "running", w, LeaseTicks, row[r].attempts + 1)
                           /\ holds' = [holds EXCEPT ![w] = r]
      BY <1>6 DEF ClaimAtomic
    <2>2. beat' = [beat EXCEPT ![w] = TRUE] /\ pc' = [pc EXCEPT ![w] = "executing"]
      BY <1>6 DEF ClaimAtomic
    <2>3. CASE v = w
      <3>1. holds'[v] = r /\ beat'[v]
        BY <1>0, <2>1, <2>2, <2>3 DEF TypeOK
      <3>2. row'[r].status = "running" /\ row'[r].worker = w /\ row'[r].left = LeaseTicks
        BY <1>0, <2>1, InsertThere
      <3>3. LeaseTicks > 0
        BY DEF RunQueueAssumption
      <3> QED BY <2>3, <3>1, <3>2, <3>3 DEF Live, Owns
    <2>4. CASE v # w
      <3>1. pc[v] = "executing" /\ holds'[v] = holds[v] /\ beat'[v] = beat[v]
        BY <1>0, <2>1, <2>2, <2>4 DEF TypeOK
      <3>2. r # holds[v]
        BY <1>0, <2>1, <3>1, LiveNotFirst DEF Live, Owns
      <3>3. row'[holds[v]] = row[holds[v]]
        BY <1>0, <2>1, <3>1, <3>2, InsertElsewhere DEF Live
      <3> QED BY <1>0, <3>1, <3>3, ClaimStays
    <2> QED BY <2>3, <2>4
  <1>7. ASSUME NEW w \in Worker, Heartbeat(w) PROVE Live(v)'
    <2>1. Live(v) /\ holds'[v] = holds[v] /\ beat'[v] = beat[v]
      BY <1>0, <1>7 DEF Heartbeat
    <2>2. PICK r \in Run : row' = [row EXCEPT ![r] = [row[r] EXCEPT !.left = LeaseTicks]]
      BY <1>7 DEF Heartbeat
    <2>3. CASE r # holds[v]
      <3>1. row'[holds[v]] = row[holds[v]]
        BY <1>0, <2>1, <2>2, <2>3 DEF TypeOK, Live
      <3> QED BY <2>1, <3>1, ClaimStays
    <2>4. CASE r = holds[v]
      <3>1. row[r] \in Entry /\ row'[r] = [row[r] EXCEPT !.left = LeaseTicks]
        BY <1>0, <2>2 DEF TypeOK
      <3>2. /\ row'[r].status = row[r].status /\ row'[r].worker = row[r].worker
            /\ row'[r].left = LeaseTicks
        BY <3>1 DEF Entry
      <3>3. LeaseTicks > 0
        BY DEF RunQueueAssumption
      <3> QED BY <2>1, <2>4, <3>2, <3>3 DEF Live, Owns
    <2> QED BY <2>3, <2>4
  <1>8. ASSUME NEW w \in Worker, HeartbeatDies(w) PROVE Live(v)'
    BY <1>8 DEF HeartbeatDies, Leased
  <1>9. ASSUME NEW w \in Worker, End(w) \/ Crash(w) PROVE Live(v)'
    <2>1. v # w
      BY <1>0, <1>9 DEF End, Crash, TypeOK
    <2>2. /\ pc[v] = "executing" /\ holds'[v] = holds[v] /\ beat'[v] = beat[v]
          /\ row' = row
      BY <1>0, <1>9, <2>1 DEF End, Crash, TypeOK
    <2> QED BY <1>0, <2>2, ClaimStays
  <1>10. ASSUME NEW w \in Worker, ReleaseClaim(w) PROVE Live(v)'
    <2>1. v # w
      BY <1>0, <1>10 DEF ReleaseClaim, TypeOK
    <2>2. pc[v] = "executing" /\ holds'[v] = holds[v] /\ beat'[v] = beat[v]
      BY <1>0, <1>10, <2>1 DEF ReleaseClaim, TypeOK
    <2>3. PICK r \in Run, final \in {"done", "failed", "cancelled"} :
            IF Owns(w, r) THEN Insert(r, final, w, 0, row[r].attempts) ELSE UNCHANGED table
      BY <1>10 DEF ReleaseClaim
    <2>4. CASE Owns(w, r)
      <3>1. r # holds[v]
        BY <1>0, <2>1, <2>2, <2>4 DEF Live, Owns
      <3>2. row'[holds[v]] = row[holds[v]]
        BY <1>0, <2>2, <2>3, <2>4, <3>1, InsertElsewhere DEF Live
      <3> QED BY <1>0, <2>2, <3>2, ClaimStays
    <2>5. CASE ~Owns(w, r)
      <3>1. row' = row
        BY <2>3, <2>5
      <3> QED BY <1>0, <2>2, <3>1, ClaimStays
    <2> QED BY <2>4, <2>5
  <1>11. CASE UNCHANGED vars
    BY <1>0, <1>11 DEF vars, Live, Owns
  <1> QED
    BY <1>1, <1>2, <1>3, <1>4, <1>5, <1>6, <1>7, <1>8, <1>9, <1>10, <1>11
       DEF Next, Produce, Work, Poll

(* Executions are on live claims, always. *)
LEMMA ExclusionAlways ==
  ASSUME Leased
  PROVE  Spec => []ExclusionInv
  <1>1. Init => ExclusionInv
    <2>1. Init => TypeOK
      BY RunQueueAssumption, TypeInit
    <2> QED BY <2>1 DEF Init, ExclusionInv, NothingSeen, ClaimLive
  <1>2. ExclusionInv /\ [Next]_vars => ExclusionInv'
    BY RunQueueAssumption, TypeNext, NothingSeenKept, ClaimLiveNext DEF ExclusionInv, Leased
  <1> QED BY <1>1, <1>2, PTL DEF Spec

(* No run is executed by two workers at the same time.  The invariant is   *)
(* that an executing worker owns the latest row of its run and that its    *)
(* lease runs: two workers cannot both be named in one row.                *)
THEOREM Exclusive ==
  ASSUME Leased
  PROVE  Spec => []MutualExclusion
  <1>1. ExclusionInv => MutualExclusion
    BY DEF ExclusionInv, ClaimLive, MutualExclusion, Owns
  <1> QED BY <1>1, ExclusionAlways, PTL

-----------------------------------------------------------------------------
(* The attempts, when append_status is one step. *)

(* The latest row of a run counts the claims of the run, and is a dead     *)
(* letter only when the count is full.                                     *)
CountOf(r) ==
    /\ claims[r] = row[r].attempts
    /\ row[r].attempts <= MaxAttempts
    /\ row[r].status = "dead_letter" => row[r].attempts = MaxAttempts
    /\ row[r].status = "running" => row[r].attempts > 0

Counted == \A r \in Run : CountOf(r)

CountInv == TypeOK /\ NothingSeen /\ Counted

(* A row that repeats the attempts of the row before it keeps the count.   *)
LEMMA CountCarried ==
  ASSUME TypeOK, Counted, NEW r \in Run, NEW status, NEW worker, NEW left,
         status = "dead_letter" => row[r].attempts = MaxAttempts, status # "running",
         Insert(r, status, worker, left, row[r].attempts), claims' = claims
  PROVE  Counted'
  <1> SUFFICES ASSUME NEW s \in Run
               PROVE  CountOf(s)'
    BY DEF Counted
  <1>1. CASE s = r
    <2>1. row'[r].attempts = row[r].attempts /\ row'[r].status = status
      BY InsertThere
    <2> QED BY <1>1, <2>1 DEF Counted, CountOf
  <1>2. CASE s # r
    <2>1. row'[s] = row[s]
      BY <1>2, InsertElsewhere
    <2> QED BY <2>1 DEF Counted, CountOf
  <1> QED BY <1>1, <1>2

(* Neither does a step that changes only the lease of rows change it. *)
LEMMA CountKept ==
  ASSUME Counted, claims' = claims,
         \A r \in Run : row'[r].attempts = row[r].attempts /\ row'[r].status = row[r].status
  PROVE  Counted'
  BY DEF Counted, CountOf

(* Every step keeps the attempts equal to the claims. *)
LEMMA CountedNext ==
  ASSUME RunQueueAssumption, AtomicAppend, CountInv, [Next]_vars
  PROVE  Counted'
  <1>0. TypeOK /\ Counted /\ NothingSeen
    BY DEF CountInv
  <1>1. CASE Tick
    <2>1. ASSUME NEW r \in Run
          PROVE  row'[r].attempts = row[r].attempts /\ row'[r].status = row[r].status
      <3>1. row[r] \in Entry
        BY <1>0, AttemptsTyped
      <3>2. row'[r] = row[r] \/ row'[r] = [row[r] EXCEPT !.left = row[r].left - 1]
        BY <1>1 DEF Tick
      <3> QED BY <3>1, <3>2 DEF Entry
    <2>2. claims' = claims
      BY <1>1 DEF Tick
    <2> QED BY <1>0, <2>1, <2>2, CountKept
  <1>2. ASSUME NEW p \in Producer, NEW r \in Run, AppendStatus(p, r) PROVE Counted'
    <2>1. Insert(r, "queued", Nobody, 0, row[r].attempts) /\ claims' = claims
      BY <1>2 DEF AppendStatus
    <2> QED BY <1>0, <2>1, CountCarried
  <1>3. ASSUME NEW p \in Producer, AppendWrite(p) PROVE Counted'
    BY <1>0, <1>3 DEF AppendWrite, NothingSeen
  <1>4. ASSUME NEW w \in Worker, Start(w) PROVE Counted'
    <2> SUFFICES ASSUME NEW r \in Run
                 PROVE  CountOf(r)'
      BY DEF Counted
    <2>1. claims' = claims /\ CountOf(r) /\ row[r].attempts \in Nat /\ MaxAttempts \in Nat
      BY <1>0, <1>4, AttemptsTyped DEF Start, Counted, RunQueueAssumption
    <2>2. CASE r \notin Stalled
      <3>1. row'[r] = row[r]
        BY <1>4, <2>2 DEF Start
      <3> QED BY <2>1, <3>1 DEF CountOf
    <2>3. CASE r \in Stalled
      <3>1. /\ row'[r].attempts = row[r].attempts
            /\ row'[r].status = IF row[r].attempts >= MaxAttempts THEN "dead_letter" ELSE "queued"
        BY <1>4, <2>3 DEF Start
      <3> QED BY <2>1, <3>1 DEF CountOf
    <2> QED BY <2>2, <2>3
  <1>5. ASSUME NEW w \in Worker, DeadLetter(w) PROVE Counted'
    <2>1. PICK r \in Run : /\ row[r].attempts + 1 > MaxAttempts
                           /\ Insert(r, "dead_letter", Nobody, 0, row[r].attempts)
      BY <1>5 DEF DeadLetter
    <2>2. row[r].attempts \in Nat /\ MaxAttempts \in Nat /\ row[r].attempts <= MaxAttempts
      BY <1>0, AttemptsTyped DEF Counted, CountOf, RunQueueAssumption
    <2>3. row[r].attempts = MaxAttempts
      BY <2>1, <2>2
    <2>4. claims' = claims
      BY <1>5 DEF DeadLetter
    <2> QED BY <1>0, <2>1, <2>3, <2>4, CountCarried
  <1>6. ASSUME NEW w \in Worker, ClaimAtomic(w) PROVE Counted'
    <2>1. PICK r \in Run : /\ row[r].attempts + 1 <= MaxAttempts
                           /\ Insert(r, "running", w, LeaseTicks, row[r].attempts + 1)
                           /\ claims' = [claims EXCEPT ![r] = claims[r] + 1]
      BY <1>6 DEF ClaimAtomic
    <2> SUFFICES ASSUME NEW s \in Run
                 PROVE  CountOf(s)'
      BY DEF Counted
    <2>2. CASE s = r
      <3>1. row'[r].attempts = row[r].attempts + 1 /\ row'[r].status = "running"
        BY <1>0, <2>1, InsertThere
      <3>2. claims'[r] = claims[r] + 1
        BY <1>0, <2>1 DEF TypeOK
      <3>3. row[r].attempts \in Nat
        BY <1>0, AttemptsTyped
      <3> QED BY <1>0, <2>1, <2>2, <3>1, <3>2, <3>3 DEF Counted, CountOf
    <2>3. CASE s # r
      <3>1. row'[s] = row[s]
        BY <1>0, <2>1, <2>3, InsertElsewhere
      <3>2. claims'[s] = claims[s]
        BY <1>0, <2>1, <2>3 DEF TypeOK
      <3> QED BY <1>0, <3>1, <3>2 DEF Counted, CountOf
    <2> QED BY <2>2, <2>3
  <1>7. ASSUME NEW w \in Worker, Heartbeat(w) PROVE Counted'
    <2>1. PICK r \in Run : row' = [row EXCEPT ![r] = [row[r] EXCEPT !.left = LeaseTicks]]
      BY <1>7 DEF Heartbeat
    <2>2. ASSUME NEW s \in Run
          PROVE  row'[s].attempts = row[s].attempts /\ row'[s].status = row[s].status
      <3>1. row[s] \in Entry
        BY <1>0, AttemptsTyped
      <3>2. row'[s] = row[s] \/ row'[s] = [row[s] EXCEPT !.left = LeaseTicks]
        BY <1>0, <2>1 DEF TypeOK
      <3> QED BY <3>1, <3>2 DEF Entry
    <2>3. claims' = claims
      BY <1>7 DEF Heartbeat
    <2> QED BY <1>0, <2>2, <2>3, CountKept
  <1>8. ASSUME NEW w \in Worker, ReleaseClaim(w) PROVE Counted'
    <2>1. claims' = claims
      BY <1>8 DEF ReleaseClaim
    <2>2. PICK r \in Run, final \in {"done", "failed", "cancelled"} :
            IF Owns(w, r) THEN Insert(r, final, w, 0, row[r].attempts) ELSE UNCHANGED table
      BY <1>8 DEF ReleaseClaim
    <2>3. CASE Owns(w, r)
      BY <1>0, <2>1, <2>2, <2>3, CountCarried
    <2>4. CASE ~Owns(w, r)
      BY <1>0, <2>1, <2>2, <2>4 DEF Counted, CountOf
    <2> QED BY <2>3, <2>4
  <1>9. ASSUME NEW w \in Worker, HeartbeatDies(w) \/ End(w) \/ Crash(w) PROVE Counted'
    BY <1>0, <1>9 DEF HeartbeatDies, End, Crash, Counted, CountOf
  <1>10. CASE UNCHANGED vars
    BY <1>0, <1>10 DEF vars, Counted, CountOf
  <1> QED BY <1>1, <1>2, <1>3, <1>4, <1>5, <1>6, <1>7, <1>8, <1>9, <1>10
             DEF Next, Produce, Work, Poll

(* The attempts are the claims at every step. *)
LEMMA CountInvariant ==
  ASSUME AtomicAppend
  PROVE  Spec => []CountInv
  <1>1. Init => CountInv
    <2>1. Init => TypeOK
      BY RunQueueAssumption, TypeInit
    <2>2. Init => Counted
      BY RunQueueAssumption DEF Init, Counted, CountOf, RunQueueAssumption
    <2> QED BY <2>1, <2>2 DEF Init, CountInv, NothingSeen
  <1>2. CountInv /\ [Next]_vars => CountInv'
    BY RunQueueAssumption, TypeNext, NothingSeenKept, CountedNext DEF CountInv
  <1> QED BY <1>1, <1>2, PTL DEF Spec

(* A run is claimed at most MaxAttempts times, and given up only when it   *)
(* was, whatever the leases and the heartbeats do.  The invariant is that  *)
(* the latest row carries the number of claims from row to row.            *)
THEOREM AttemptsCounted ==
  ASSUME AtomicAppend
  PROVE  Spec => []AttemptsExact
  <1>1. CountInv => AttemptsExact
    BY DEF CountInv, Counted, CountOf, AttemptsExact
  <1> QED BY <1>1, CountInvariant, PTL

-----------------------------------------------------------------------------
(* Fencing: no assumption at all. *)

(* What Fenced says of one run in one step. *)
FencedStep(r) ==
    row[r].status = "running" /\ row[r].left > 0 =>
       \/ row'[r].status = "running" /\ row'[r].worker = row[r].worker
       \/ row'[r].status = "queued"
       \/ holds[row[r].worker] = r /\ holds'[row[r].worker] = Nobody

(* No step but its holder's ends a live claim. *)
LEMMA FencedNext ==
  ASSUME RunQueueAssumption, TypeOK, [Next]_vars, NEW s \in Run
  PROVE  FencedStep(s)
  <1> SUFFICES ASSUME row[s].status = "running", row[s].left > 0
               PROVE  FencedStep(s)
    BY DEF FencedStep
  <1>0. row'[s] = row[s] => FencedStep(s)
    BY DEF FencedStep
  <1>1. CASE Tick
    <2>1. row[s] \in Entry
      BY AttemptsTyped
    <2>2. row'[s] = row[s] \/ row'[s] = [row[s] EXCEPT !.left = row[s].left - 1]
      BY <1>1 DEF Tick
    <2>3. row'[s].status = row[s].status /\ row'[s].worker = row[s].worker
      BY <2>1, <2>2 DEF Entry
    <2> QED BY <2>3 DEF FencedStep
  <1>2. ASSUME NEW r \in Run, NEW left, NEW attempts, Insert(r, "queued", Nobody, left, attempts)
        PROVE  FencedStep(s)
    <2>1. CASE r = s
      BY <1>2, <2>1, InsertThere DEF FencedStep
    <2>2. CASE r # s
      BY <1>0, <1>2, <2>2, InsertElsewhere
    <2> QED BY <2>1, <2>2
  <1>3. ASSUME NEW p \in Producer, NEW r \in Run, AppendStatus(p, r) PROVE FencedStep(s)
    BY <1>0, <1>2, <1>3 DEF AppendStatus
  <1>4. ASSUME NEW p \in Producer, AppendWrite(p) PROVE FencedStep(s)
    <2>1. seen[p].run \in Run
      BY <1>4 DEF AppendWrite, TypeOK, Note
    <2>2. Insert(seen[p].run, "queued", Nobody, 0, seen[p].attempts)
      BY <1>4 DEF AppendWrite
    <2> QED BY <1>2, <2>1, <2>2
  <1>5. ASSUME NEW w \in Worker, Start(w) PROVE FencedStep(s)
    <2>1. s \notin Stalled
      BY LiveNotFirst
    <2> QED BY <1>0, <1>5, <2>1 DEF Start
  <1>6. ASSUME NEW w \in Worker, Poll(w) PROVE FencedStep(s)
    <2>1. PICK r \in Run :
            First(r) /\ \E status, worker, left, attempts :
                           Insert(r, status, worker, left, attempts)
      BY <1>6 DEF Poll, DeadLetter, ClaimAtomic
    <2>2. r # s
      BY <2>1, LiveNotFirst
    <2>3. row'[s] = row[s]
      BY <2>1, <2>2, InsertElsewhere
    <2> QED BY <1>0, <2>3
  <1>7. ASSUME NEW w \in Worker, Heartbeat(w) PROVE FencedStep(s)
    <2>1. row[s] \in Entry
      BY AttemptsTyped
    <2>2. row'[s] = row[s] \/ row'[s] = [row[s] EXCEPT !.left = LeaseTicks]
      BY <1>7 DEF Heartbeat, TypeOK
    <2>3. row'[s].status = row[s].status /\ row'[s].worker = row[s].worker
      BY <2>1, <2>2 DEF Entry
    <2> QED BY <2>3 DEF FencedStep
  <1>8. ASSUME NEW w \in Worker, ReleaseClaim(w) PROVE FencedStep(s)
    <2>1. PICK r \in Run, final \in {"done", "failed", "cancelled"} :
            /\ r = holds[w]
            /\ IF Owns(w, r) THEN Insert(r, final, w, 0, row[r].attempts) ELSE UNCHANGED table
      BY <1>8 DEF ReleaseClaim
    <2>2. CASE ~Owns(w, r)
      BY <1>0, <2>1, <2>2
    <2>3. CASE Owns(w, r) /\ r # s
      BY <1>0, <2>1, <2>3, InsertElsewhere
    <2>4. CASE Owns(w, r) /\ r = s
      <3>1. row[s].worker = w /\ holds[w] = s
        BY <2>1, <2>4 DEF Owns
      <3>2. holds'[w] = Nobody
        BY <1>8 DEF ReleaseClaim, TypeOK
      <3> QED BY <3>1, <3>2 DEF FencedStep
    <2> QED BY <2>2, <2>3, <2>4
  <1>9. ASSUME NEW w \in Worker, HeartbeatDies(w) \/ End(w) \/ Crash(w) PROVE FencedStep(s)
    BY <1>0, <1>9 DEF HeartbeatDies, End, Crash
  <1>10. CASE UNCHANGED vars
    BY <1>0, <1>10 DEF vars
  <1> QED BY <1>1, <1>3, <1>4, <1>5, <1>6, <1>7, <1>8, <1>9, <1>10 DEF Next, Produce, Work

(* A worker that lost its claim, or a starting one, never touches the live *)
(* claim of another: only its holder or a producer ends it.  This needs no *)
(* assumption on heartbeats, leases or producers.                          *)
THEOREM ClaimsFenced == Spec => Fenced
  <1>1. TypeOK /\ [Next]_vars => [\A r \in Run : FencedStep(r)]_vars
    BY RunQueueAssumption, FencedNext
  <1> QED BY <1>1, TypeCorrect, PTL DEF Spec, Fenced, FencedStep

-----------------------------------------------------------------------------
(* The refinement, under the assumptions of Exclusive. *)

DispatchInv == ExclusionInv /\ CountInv

(* A new row opens its run or closes it. *)
LEMMA InsertOpens ==
  ASSUME TypeOK, NEW r \in Run, NEW status, NEW worker, NEW left, NEW attempts,
         Insert(r, status, worker, left, attempts)
  PROVE  Open' = IF status \in {"queued", "running"} THEN Open \cup {r} ELSE Open \ {r}
  <1>1. row'[r].status = status
    BY InsertThere
  <1>2. \A s \in Run : s # r => row'[s] = row[s]
    BY InsertElsewhere
  <1> QED BY <1>1, <1>2 DEF Open

(* What the workers do depends on their own variables. *)
LEMMA SameDoing == ASSUME pc' = pc, holds' = holds PROVE Doing' = Doing
  BY DEF Doing

(* A run without a live claim is idle, and one that is claimed by a worker *)
(* which does not execute it. *)
LEMMA IsIdle ==
  ASSUME ExclusionInv, NEW r \in Run,
         \/ row[r].status # "running"
         \/ ~(row[r].left > 0)
         \/ pc[row[r].worker] # "executing"
  PROVE  Dispatched!Idle(r)
  <1> SUFFICES ASSUME NEW w \in Worker, Doing[w] = r PROVE FALSE
    BY DEF Dispatched!Idle
  <1>1. pc[w] = "executing" /\ holds[w] = r
    BY RunQueueAssumption DEF Doing, RunQueueAssumption
  <1>2. Owns(w, r) /\ row[r].left > 0
    BY <1>1 DEF ExclusionInv, ClaimLive
  <1> QED BY <1>1, <1>2 DEF Owns

(* A run that nobody executes is idle. *)
LEMMA NobodyOnIt ==
  ASSUME NEW r \in Run, \A w \in Worker : ~(holds[w] = r /\ pc[w] = "executing")
  PROVE  Dispatched!Idle(r)
  BY RunQueueAssumption DEF Dispatched!Idle, Doing, RunQueueAssumption

(* Each step of the queue is one of the dispatcher, or changes nothing     *)
(* that it speaks of.                                                      *)
LEMMA Dispatches ==
  ASSUME Leased, DispatchInv, [Next]_vars
  PROVE  Dispatched!Next \/ UNCHANGED <<Open, Doing, claims>>
  <1>0. TypeOK /\ NothingSeen /\ ClaimLive /\ Counted /\ ExclusionInv
    BY DEF DispatchInv, ExclusionInv, CountInv
  <1>k. MaxAttempts \in Nat /\ Nobody \notin Run
    BY RunQueueAssumption DEF RunQueueAssumption
  <1>s. ASSUME \A r \in Run : row'[r].status = row[r].status PROVE Open' = Open
    BY <1>s DEF Open
  <1>1. CASE Tick
    <2>1. ASSUME NEW r \in Run PROVE row'[r].status = row[r].status
      <3>1. row[r] \in Entry
        BY <1>0, AttemptsTyped
      <3>2. row'[r] = row[r] \/ row'[r] = [row[r] EXCEPT !.left = row[r].left - 1]
        BY <1>1 DEF Tick
      <3> QED BY <3>1, <3>2 DEF Entry
    <2>2. pc' = pc /\ holds' = holds /\ claims' = claims
      BY <1>1 DEF Tick
    <2> QED BY <1>s, <2>1, <2>2, SameDoing
  <1>2. ASSUME NEW p \in Producer, NEW r \in Run, AppendStatus(p, r)
        PROVE  Dispatched!Next
    <2>1. /\ Insert(r, "queued", Nobody, 0, row[r].attempts)
          /\ pc' = pc /\ holds' = holds /\ claims' = claims
          /\ \A w \in Worker : ~(holds[w] = r /\ pc[w] = "executing")
      BY <1>2 DEF AppendStatus, Leased
    <2>2. Open' = Open \cup {r}
      BY <1>0, <2>1, InsertOpens
    <2>3. Dispatched!Offer(r)
      BY <2>1, <2>2, NobodyOnIt, SameDoing DEF Dispatched!Offer
    <2> QED BY <2>3 DEF Dispatched!Next
  <1>3. ASSUME NEW p \in Producer, AppendWrite(p) PROVE FALSE
    BY <1>0, <1>3 DEF AppendWrite, NothingSeen
  <1>4. ASSUME NEW w \in Worker, Start(w) PROVE Dispatched!Next
    <2> DEFINE spent == {r \in Stalled : row[r].attempts >= MaxAttempts}
    <2>1. ASSUME NEW r \in Run
          PROVE  row'[r].status = IF r \in spent THEN "dead_letter"
                                  ELSE IF r \in Stalled THEN "queued" ELSE row[r].status
      BY <1>4, <2>1 DEF Start
    <2>2. \A r \in Stalled : r \in Run /\ row[r].status = "running" /\ row[r].left = 0
      BY DEF Stalled
    <2>3. Open' = Open \ spent /\ spent \subseteq Open
      BY <2>1, <2>2 DEF Open
    <2>4. ASSUME NEW r \in spent PROVE Dispatched!Idle(r) /\ claims[r] = MaxAttempts
      <3>1. r \in Run /\ ~(row[r].left > 0)
        BY <2>2
      <3>2. claims[r] = row[r].attempts /\ row[r].attempts <= MaxAttempts /\ row[r].attempts \in Nat
        BY <1>0, <3>1, AttemptsTyped DEF Counted, CountOf
      <3>3. claims[r] = MaxAttempts
        BY <1>k, <3>2
      <3> QED BY <1>0, <3>1, <3>3, IsIdle
    <2>5. Doing' = Doing /\ claims' = claims
      BY <1>0, <1>4 DEF Start, Doing, TypeOK
    <2>6. spent \in SUBSET Run
      BY <2>2
    <2> HIDE DEF spent
    <2>7. Dispatched!GiveUp(spent)
      BY <2>3, <2>4, <2>5 DEF Dispatched!GiveUp
    <2> QED BY <2>6, <2>7 DEF Dispatched!Next
  <1>5. ASSUME NEW w \in Worker, DeadLetter(w) PROVE Dispatched!Next
    <2>1. PICK r \in Run : /\ First(r) /\ row[r].attempts + 1 > MaxAttempts
                           /\ Insert(r, "dead_letter", Nobody, 0, row[r].attempts)
      BY <1>5 DEF DeadLetter
    <2>2. Open' = Open \ {r}
      BY <1>0, <2>1, InsertOpens
    <2>3. r \in Open /\ (row[r].status # "running" \/ ~(row[r].left > 0))
      BY <2>1 DEF First, Claimable, Open
    <2>4. Dispatched!Idle(r)
      BY <1>0, <2>3, IsIdle
    <2>5. claims[r] = row[r].attempts /\ row[r].attempts <= MaxAttempts /\ row[r].attempts \in Nat
      BY <1>0, AttemptsTyped DEF Counted, CountOf
    <2>6. claims[r] = MaxAttempts
      BY <1>k, <2>1, <2>5
    <2>7. Doing' = Doing /\ claims' = claims
      BY <1>5, SameDoing DEF DeadLetter
    <2>8. Dispatched!GiveUp({r})
      BY <2>2, <2>3, <2>4, <2>6, <2>7 DEF Dispatched!GiveUp
    <2> QED BY <2>8 DEF Dispatched!Next
  <1>6. ASSUME NEW w \in Worker, ClaimAtomic(w) PROVE Dispatched!Next
    <2>1. PICK r \in Run : /\ First(r) /\ row[r].attempts + 1 <= MaxAttempts
                           /\ Insert(r, "running", w, LeaseTicks, row[r].attempts + 1)
                           /\ holds' = [holds EXCEPT ![w] = r]
                           /\ claims' = [claims EXCEPT ![r] = claims[r] + 1]
      BY <1>6 DEF ClaimAtomic
    <2>2. r \in Open /\ (row[r].status # "running" \/ ~(row[r].left > 0))
      BY <2>1 DEF First, Claimable, Open
    <2>3. Open' = Open
      BY <1>0, <2>1, <2>2, InsertOpens
    <2>4. Dispatched!Idle(r)
      BY <1>0, <2>2, IsIdle
    <2>5. claims[r] < MaxAttempts
      <3>1. claims[r] = row[r].attempts /\ row[r].attempts \in Nat
        BY <1>0, AttemptsTyped DEF Counted, CountOf
      <3> QED BY <1>k, <2>1, <3>1
    <2>6. Doing[w] = Nobody /\ Doing' = [Doing EXCEPT ![w] = r]
      <3>1. pc[w] = "polling" /\ pc' = [pc EXCEPT ![w] = "executing"]
        BY <1>6 DEF ClaimAtomic
      <3> QED BY <1>0, <2>1, <3>1 DEF Doing, TypeOK
    <2>7. Dispatched!Hand(w, r)
      BY <2>1, <2>2, <2>3, <2>4, <2>5, <2>6 DEF Dispatched!Hand
    <2> QED BY <2>7 DEF Dispatched!Next
  <1>7. ASSUME NEW w \in Worker, Heartbeat(w) PROVE UNCHANGED <<Open, Doing, claims>>
    <2>1. PICK r \in Run : row' = [row EXCEPT ![r] = [row[r] EXCEPT !.left = LeaseTicks]]
      BY <1>7 DEF Heartbeat
    <2>2. ASSUME NEW s \in Run PROVE row'[s].status = row[s].status
      <3>1. row[s] \in Entry
        BY <1>0, AttemptsTyped
      <3>2. row'[s] = row[s] \/ row'[s] = [row[s] EXCEPT !.left = LeaseTicks]
        BY <1>0, <2>1 DEF TypeOK
      <3> QED BY <3>1, <3>2 DEF Entry
    <2>3. pc' = pc /\ holds' = holds /\ claims' = claims
      BY <1>7 DEF Heartbeat
    <2> QED BY <1>s, <2>2, <2>3, SameDoing
  <1>8. ASSUME NEW w \in Worker, HeartbeatDies(w) PROVE FALSE
    BY <1>8 DEF HeartbeatDies, Leased
  <1>9. ASSUME NEW w \in Worker, End(w) \/ Crash(w)
        PROVE  Dispatched!Next \/ UNCHANGED <<Open, Doing, claims>>
    <2>1. Open' = Open /\ claims' = claims
      BY <1>9 DEF End, Crash, Open
    <2>2. Doing' = [Doing EXCEPT ![w] = Nobody]
      BY <1>0, <1>9 DEF End, Crash, Doing, TypeOK
    <2>3. CASE Doing[w] = Nobody
      BY <2>1, <2>2, <2>3 DEF Doing
    <2>4. CASE Doing[w] # Nobody
      <3>1. Dispatched!Stop(w)
        BY <2>1, <2>2, <2>4 DEF Dispatched!Stop
      <3> QED BY <3>1 DEF Dispatched!Next
    <2> QED BY <2>3, <2>4
  <1>10. ASSUME NEW w \in Worker, ReleaseClaim(w)
         PROVE  Dispatched!Next \/ UNCHANGED <<Open, Doing, claims>>
    <2>1. PICK r \in Run, final \in {"done", "failed", "cancelled"} :
            IF Owns(w, r) THEN Insert(r, final, w, 0, row[r].attempts) ELSE UNCHANGED table
      BY <1>10 DEF ReleaseClaim
    <2>2. pc[w] = "ended" /\ Doing' = Doing /\ claims' = claims
      BY <1>0, <1>10 DEF ReleaseClaim, Doing, TypeOK
    <2>3. CASE Owns(w, r)
      <3>1. Open' = Open \ {r}
        BY <1>0, <2>1, <2>3, InsertOpens
      <3>2. r \in Open /\ row[r].worker = w /\ row[r].status = "running"
        BY <2>3 DEF Owns, Open
      <3>3. Dispatched!Idle(r)
        BY <1>0, <2>2, <3>2, IsIdle
      <3>4. claims[r] > 0
        BY <1>0, <3>2 DEF Counted, CountOf
      <3>5. Dispatched!Close(r)
        BY <2>2, <3>1, <3>2, <3>3, <3>4 DEF Dispatched!Close
      <3> QED BY <3>5 DEF Dispatched!Next
    <2>4. CASE ~Owns(w, r)
      BY <2>1, <2>2, <2>4 DEF Open
    <2> QED BY <2>3, <2>4
  <1>11. CASE UNCHANGED vars
    BY <1>11, SameDoing DEF vars, Open
  <1> QED
    BY <1>1, <1>2, <1>3, <1>4, <1>5, <1>6, <1>7, <1>8, <1>9, <1>10, <1>11
       DEF Next, Produce, Work, Poll

(* With heartbeats in time, an atomic append and disciplined producers the *)
(* queue is a dispatcher: leases, expiry, recovery and fencing are not     *)
(* seen by those who queue runs.                                           *)
THEOREM QueueDispatches ==
  ASSUME Leased
  PROVE  Spec => HandsOut
  <1>1. Init => Dispatched!Init
    BY DEF Init, Dispatched!Init, Open, Doing
  <1>2. DispatchInv /\ [Next]_vars => [Dispatched!Next]_<<Open, Doing, claims>>
    BY Dispatches
  <1>3. Spec => []ExclusionInv
    BY ExclusionAlways
  <1>4. Spec => []CountInv
    BY CountInvariant DEF Leased
  <1>5. ExclusionInv /\ CountInv => DispatchInv
    BY DEF DispatchInv
  <1> QED BY <1>1, <1>2, <1>3, <1>4, <1>5, PTL DEF Spec, HandsOut, Dispatched!Spec
=============================================================================
