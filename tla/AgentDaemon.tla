---------------------------- MODULE AgentDaemon ----------------------------
(***************************************************************************)
(* One agent run in the daemon: RunKernel and RunQueue put together by     *)
(* AsyncioWorker (src/doge/application/agent/worker.py), which claims the  *)
(* run, executes it and releases it, and which puts it into the queue      *)
(* again when an approval is resolved.                                     *)
(*                                                                         *)
(* RunKernel leaves open when an execution starts, and RunQueue what a     *)
(* worker does with its claim and who appends rows.  Here both are fixed,  *)
(* and what each of them assumes of the other becomes a property.          *)
(***************************************************************************)
EXTENDS Naturals, Sequences, FiniteSets

CONSTANTS
    Worker, Client, Process, Home, Approval, NoActor,
    MaxRounds, MaxCalls, MaxExecs, MaxRequests,
    FaultyWrites, Resubmission,
    LeaseTicks, MaxAttempts, Timely, HeartbeatFaults,
    Run,          \* the one run
    InlineResume, \* TRUE: clients call POST /v1/runs/{id}/resume
    MaxCrashes    \* bound: processes that die

VARIABLES
    run, log, artifacts, approval, pc, hdr, calls, round, target, loop,
    execs, requests,
    row, before, duty, holds, beat, seen, claims, appends,
    outcome,      \* the status the task of each worker returned
    owes,         \* the requests that still have to put the run into the queue
    crashes       \* processes that died so far

kernel == <<run, log, artifacts, approval, pc, hdr, calls, round, target, loop,
            execs, requests>>
queue  == <<row, before, duty, holds, beat, seen, claims, appends>>
vars   == <<kernel, queue, outcome, owes, crashes>>

K == INSTANCE RunKernel WITH Exclusive <- FALSE

Q == INSTANCE RunQueue
       WITH Producer <- Client, Nobody <- NoActor, pc <- duty, AtomicAppend <- TRUE,
            MaxAppends <- MaxRequests + 1, Disciplined <- FALSE

ASSUME AgentDaemonAssumption ==
    /\ \E x \in Run : Run = {x}
    /\ InlineResume \in BOOLEAN
    /\ MaxCrashes \in Nat
    /\ \A v, w \in Worker : Home[v] = Home[w] => v = w

(* Both halves get constants they can live with. *)
ASSUME HalvesAssumption == K!RunKernelAssumption /\ Q!RunQueueAssumption

r == CHOOSE x \in Run : TRUE

Created ==
    /\ K!Init
    /\ row = [x \in Run |-> [status |-> IF run.status = "QUEUED" THEN "queued" ELSE "absent",
                             worker |-> NoActor, left |-> 0, attempts |-> 0]]
    /\ before = {}
    /\ duty = [w \in Worker |-> "down"]
    /\ holds = [w \in Worker |-> NoActor]
    /\ beat = [w \in Worker |-> FALSE]
    /\ seen = [c \in Client |-> [run |-> NoActor, attempts |-> 0]]
    /\ claims = [x \in Run |-> 0]
    /\ appends = 0
    /\ outcome = [w \in Worker |-> "done"]
    /\ crashes = 0

(* A session turn inserts the run and its queue row in one transaction.  A *)
(* case execution creates the run, and the request then queues it.         *)
Init ==
    /\ Created
    /\ \/ run.status = "QUEUED" /\ owes = {}
       \/ run.status = "CREATED" /\ \E c \in Client : owes = {c}

-----------------------------------------------------------------------------
(* A request that resolved an approval puts the run into the queue before  *)
(* any other coroutine of its process runs.                                *)
Free(a) ==
    /\ K!CanRun(a)
    /\ \A c \in owes : Home[c] = Home[a] => c = a

(* _queue_status_for_run of the run the task returned: the header it last  *)
(* wrote, or read if it found the run terminal.                            *)
QueueStatus(status) == CASE status = "FAILED"    -> "failed"
                         [] status = "CANCELLED" -> "cancelled"
                         [] OTHER                -> "done"

Start(w) ==
    /\ Free(w)
    /\ Q!Start(w)
    /\ UNCHANGED <<kernel, outcome, owes, crashes>>

GiveUp(w) ==
    /\ Free(w) /\ pc[w] = "idle"
    /\ Q!DeadLetter(w)
    /\ UNCHANGED <<kernel, outcome, owes, crashes>>

(* Mutant: no worker is sent to a run that is being cancelled. *)
ClaimActive(w) ==
    /\ Free(w)
    /\ run.status # "CANCELLING"
    /\ Q!ClaimAtomic(w)
    /\ K!Begin(w)
    /\ UNCHANGED <<outcome, owes, crashes>>

(* Mutant: a run that was claimed once is not claimed again. *)
ClaimFresh(w) ==
    /\ Free(w)
    /\ row[r].attempts = 0
    /\ Q!ClaimAtomic(w)
    /\ K!Begin(w)
    /\ UNCHANGED <<outcome, owes, crashes>>

Claim(w) ==
    /\ Free(w)
    /\ Q!ClaimAtomic(w)
    /\ K!Begin(w)
    /\ UNCHANGED <<outcome, owes, crashes>>

(* A step of the execution; the last one is the end of the task. *)
Execute(w) ==
    /\ Free(w)
    /\ duty[w] = "executing"
    /\ K!Step(w)
    /\ IF pc'[w] \in {"returned", "failed"}
       THEN /\ Q!End(w)
            /\ outcome' = [outcome EXCEPT ![w] = IF pc'[w] = "failed" THEN "failed"
                                                ELSE QueueStatus(run'.status)]
       ELSE UNCHANGED <<queue, outcome>>
    /\ UNCHANGED <<owes, crashes>>

(* Mutant: the claim of a task that ended is left to expire. *)
ReleaseForgotten(w) ==
    /\ Free(w)
    /\ duty[w] = "ended"
    /\ duty' = [duty EXCEPT ![w] = "polling"]
    /\ holds' = [holds EXCEPT ![w] = NoActor]
    /\ beat' = [beat EXCEPT ![w] = FALSE]
    /\ K!Finish(w) /\ pc'[w] = "idle"
    /\ UNCHANGED <<row, before, seen, claims, appends, outcome, owes, crashes>>

(* The loop gets the result of the task, perhaps after other coroutines,   *)
(* releases the claim and then waits for the heartbeat task.  After a      *)
(* failure it has waited for it before.                                    *)
Release(w) ==
    /\ Free(w)
    /\ Q!ReleaseClaim(w)
    /\ Q!Owns(w, r) => row'[r].status = outcome[w]
    /\ K!Finish(w)
    /\ pc'[w] = IF pc[w] = "returned" /\ ~beat[w] THEN "failure" ELSE "idle"
    /\ UNCHANGED <<outcome, owes, crashes>>

(* The exception of the heartbeat task: a failure is recorded, and the     *)
(* claim, which this worker no longer has, is released again.              *)
AfterRelease(w) ==
    /\ Free(w)
    /\ duty[w] = "polling"
    /\ K!Step(w)
    /\ UNCHANGED <<queue, outcome, owes, crashes>>

Heartbeats(w) ==
    /\ Free(w)
    /\ Q!Heartbeat(w) \/ Q!HeartbeatDies(w)
    /\ UNCHANGED <<kernel, outcome, owes, crashes>>

(* A step of a request.  The one that approves still owes the queue a row, *)
(* unless it is a resume, which executes the run itself.                   *)
Request(c) ==
    /\ Free(c) /\ c \notin owes
    /\ K!Step(c) \/ K!Handle(c)
    /\ pc'[c] # "queueing"
    /\ pc[c] = "idle" /\ pc'[c] = "step" => InlineResume
    /\ owes' \in IF pc[c] = "approving" /\ log' # log
                 THEN {owes \cup {c}} \cup (IF InlineResume THEN {owes} ELSE {})
                 ELSE {owes}
    /\ UNCHANGED <<queue, outcome, crashes>>

(* Mutant: the run is queued, the row is forgotten. *)
ContinueUnqueued(c) ==
    /\ c \in owes /\ Free(c)
    /\ owes' = owes \ {c}
    /\ UNCHANGED <<kernel, queue, outcome, crashes>>

(* enqueue_continuation: a run that is not QUEUED goes through queue_run,  *)
(* which refuses what the state machine refuses and leaves a terminal run  *)
(* alone; then a row is appended.                                          *)
Continue(c) ==
    /\ c \in owes /\ Free(c)
    /\ owes' = owes \ {c}
    /\ \/ run.status \in {"QUEUED"} \cup K!Terminal
          /\ Q!AppendStatus(c, r)
          /\ UNCHANGED kernel
       \/ run.status \notin {"QUEUED"} \cup K!Terminal
          /\ K!CanTransition(run.status, "QUEUED")
          /\ Q!AppendStatus(c, r)
          /\ run' = [run EXCEPT !.status = "QUEUED"]
          /\ log' = Append(log, "RUN_QUEUED")
          /\ UNCHANGED <<artifacts, approval, pc, hdr, calls, round, target, loop,
                         execs, requests>>
       \/ ~K!CanTransition(run.status, "QUEUED")
          /\ run.status \notin K!Terminal
          /\ UNCHANGED <<kernel, queue>>
    /\ UNCHANGED <<outcome, crashes>>

Crash(p) ==
    /\ crashes < MaxCrashes
    /\ crashes' = crashes + 1
    /\ K!Crash(p)
    /\ owes' = {c \in owes : Home[c] # p}
    /\ \/ \E w \in Worker : Home[w] = p /\ Q!Crash(w)
       \/ (\A w \in Worker : Home[w] = p => duty[w] = "down") /\ UNCHANGED queue
    /\ UNCHANGED outcome

Tick == Q!Tick /\ UNCHANGED <<kernel, outcome, owes, crashes>>

Next ==
    \/ Tick
    \/ \E w \in Worker : \/ Start(w) \/ GiveUp(w) \/ Claim(w) \/ Execute(w)
                         \/ Release(w) \/ AfterRelease(w) \/ Heartbeats(w)
    \/ \E c \in Client : Request(c) \/ Continue(c)
    \/ \E p \in Process : Crash(p)

Spec == Init /\ [][Next]_vars

(* Loops poll, models and tools answer, tasks and requests are scheduled,  *)
(* time passes.  Nobody has to send a request.                             *)
Fairness ==
    /\ WF_vars(Tick)
    /\ \A w \in Worker : /\ WF_vars(Start(w)) /\ SF_vars(Claim(w)) /\ SF_vars(GiveUp(w))
                         /\ SF_vars(Execute(w)) /\ SF_vars(Release(w))
                         /\ SF_vars(AfterRelease(w)) /\ WF_vars(Heartbeats(w))
    /\ \A c \in Client : /\ SF_vars(Continue(c))
                         /\ SF_vars(Request(c) /\ pc[c] # "idle")

FairSpec == Spec /\ Fairness

-----------------------------------------------------------------------------
(* Properties. *)

(* What RunKernel assumes of the queue (Exclusive): an execution starts    *)
(* only when no other one goes on and no approval is waited for.           *)
DispatchIsExclusive ==
    [][\A a \in Worker \cup Client : pc[a] = "idle" /\ pc'[a] \in {"begin", "step"} =>
         /\ run.status # "AWAITING_APPROVAL"
         /\ \A b \in Worker \cup Client :
                K!Executing(b) => pc[b] \in {"returned", "failed"}]_vars

(* What RunQueue assumes of its producers (Disciplined): no row is         *)
(* appended while a worker executes the run.                               *)
ProducersAreDisciplined ==
    [][appends' # appends => \A w \in Worker : duty[w] # "executing"]_vars

(* Each half of the daemon gives the other what it assumes. *)
HalvesFit == DispatchIsExclusive /\ ProducersAreDisciplined

(* A run that waits for an approval is left alone until it is decided or   *)
(* cancelled, and goes on only when nothing is pending any more.           *)
GateHolds ==
    [][run.status = "AWAITING_APPROVAL" /\ run'.status # "AWAITING_APPROVAL" =>
         \/ run'.status = "CANCELLING"
         \/ /\ approval' # approval
            /\ \A ap \in Approval : approval'[ap] # "pending"]_vars

(* With the dispatch that the queue really gives, the run has one artifact *)
(* even if processes die.                                                  *)
OneArtifact == K!OneArtifact

(* A run that should go on is in the queue, claimed, or about to be        *)
(* queued: nobody has to look for forgotten runs.                          *)
Attended ==
    run.status \in {"QUEUED", "RUNNING"} =>
        row[r].status \in {"queued", "running"} \/ owes # {}

Seen ==
    INSTANCE RunLog
      WITH status <- IF run.status \in K!Terminal \cup {"AWAITING_APPROVAL"}
                     THEN run.status ELSE "ACTIVE",
           events <- [i \in 1..Len(log) |->
                        CASE log[i] = "APPROVAL_REQUESTED" -> "approval_requested"
                          [] log[i] = "ARTIFACT_CREATED"   -> "artifact_created"
                          [] log[i] = "ERROR"              -> "error"
                          [] log[i] = "RUN_CANCELLED"      -> "run_cancelled"
                          [] OTHER                         -> "step"]

(* The log that readers of this run follow is one that streams can close:  *)
(* its last event comes with its last status, and the only end without a   *)
(* closing event is the denial of an approval.                             *)
FeedsStreams == Seen!Spec

GivenUp == row[r].status = "dead_letter"

(* A cancelled run that is queued or executed ends, even if the process    *)
(* dies, unless its attempts are used up: its task was cancelled in the    *)
(* same step and has to finalize it, or another worker comes to it later.  *)
CancelSettles ==
    run.status = "CANCELLING"
      /\ \/ row[r].status = "queued"
         \/ \E w \in Worker : pc[w] \in {"begin", "model", "tool", "finalize", "finalizing"}
    ~> run.status \in K!Terminal \/ GivenUp

(* A run in the queue reaches its next pause or its end, even if the       *)
(* process dies, unless its attempts are used up.                          *)
GoesOn ==
    run.status = "QUEUED" /\ row[r].status \in {"queued", "running"}
    ~> run.status \in K!Terminal \cup {"AWAITING_APPROVAL", "CANCELLING"} \/ GivenUp
=============================================================================
