----------------------------- MODULE RunKernel -----------------------------
(***************************************************************************)
(* The life of one agent run: the database rows that describe it and every *)
(* coroutine that works on it (src/doge/application/agent).                *)
(*                                                                         *)
(* The code never updates a run in place.  It reads the header, decides on *)
(* that in-memory copy, and TransitionRecorder.record then writes the      *)
(* whole copy back in one SQLite transaction.  Coroutines of one process   *)
(* share an asyncio loop, and no coroutine is suspended between such a     *)
(* read and its write; coroutines of different processes interleave        *)
(* between them.  loop[p] is the coroutine process p is running, if any.   *)
(***************************************************************************)
EXTENDS Naturals, Sequences, FiniteSets

CONSTANTS
    Worker,       \* AsyncioWorker coroutines that execute the run
    Client,       \* request coroutines: HTTP handlers, the CLI
    Process,      \* operating-system processes
    Home,         \* the process each coroutine lives in
    Approval,     \* approval identifiers
    NoActor,      \* nobody
    MaxRounds,    \* ModelPolicy.max_tool_rounds
    MaxCalls,     \* bound: tool calls of one model response
    MaxExecs,     \* bound: executions of the run
    MaxRequests,  \* bound: client requests
    Exclusive,    \* TRUE: the dispatcher starts an execution only when no other
                  \* is active and the run is not waiting for an approval
    FaultyWrites, \* TRUE: a transaction may fail (watcher veto, locked file)
    Resubmission  \* TRUE: a client may decide an approval that is resolved

Actor == Worker \cup Client

ASSUME RunKernelAssumption ==
    /\ Worker \cap Client = {}
    /\ NoActor \notin Actor
    /\ Home \in [Actor -> Process]
    /\ Approval # {}
    /\ MaxRounds \in Nat
    /\ MaxCalls \in Nat
    /\ MaxExecs \in Nat
    /\ MaxRequests \in Nat
    /\ Exclusive \in BOOLEAN
    /\ FaultyWrites \in BOOLEAN
    /\ Resubmission \in BOOLEAN

(* Every coroutine in one process: `doged serve --role all`. *)
OneLoop == \A a, b \in Actor : Home[a] = Home[b]

-----------------------------------------------------------------------------
(* The state machine of runs. *)

Terminal == {"COMPLETED", "FAILED", "CANCELLED"}

Status == {"CREATED", "QUEUED", "RUNNING", "AWAITING_APPROVAL", "CANCELLING"}
            \cup Terminal

ValidTransitions == [s \in Status |->
    CASE s = "CREATED"           -> {"QUEUED", "RUNNING", "CANCELLING", "FAILED"}
      [] s = "QUEUED"            -> {"RUNNING", "CANCELLING", "CANCELLED", "FAILED"}
      [] s = "RUNNING"           -> {"AWAITING_APPROVAL", "CANCELLING", "CANCELLED",
                                     "COMPLETED", "FAILED"}
      [] s = "AWAITING_APPROVAL" -> {"QUEUED", "RUNNING", "CANCELLING", "CANCELLED",
                                     "FAILED"}
      [] s = "CANCELLING"        -> {"CANCELLED", "FAILED"}
      [] OTHER                   -> {}]

CanTransition(current, target) ==
    target = current \/ target \in ValidTransitions[current]

EventType == {"MODEL_RESPONSE", "TOOL_CALL", "TOOL_RESULT", "APPROVAL_REQUESTED",
              "APPROVAL_RESOLVED", "RUN_QUEUED", "ARTIFACT_CREATED",
              "RUN_CANCELLED", "ERROR"}

Row == [status : Status, cancelReq : BOOLEAN]

(* A coroutine that holds no header. *)
Blank == [status |-> "CREATED", cancelReq |-> FALSE]

-----------------------------------------------------------------------------
VARIABLES
    run,        \* the row of table runs
    log,        \* the rows of table events, in sequence order
    artifacts,  \* how many rows of table artifacts the run has
    approval,   \* the rows of table approvals
    pc,         \* where each coroutine is
    hdr,        \* the header each coroutine last read
    calls,      \* tool calls of the current response still to execute
    round,      \* rounds of the current execution already done
    target,     \* the approval a request resolves
    loop,       \* the coroutine each process is running, or NoActor
    execs,      \* executions started so far
    requests    \* client requests so far

db     == <<run, log, artifacts, approval>>
mem    == <<hdr, calls, round, target>>
bounds == <<execs, requests>>
vars   == <<db, mem, pc, loop, bounds>>

(* Suspended in a call to the model or to a tool, or created and not yet   *)
(* started: the places where task.cancel() takes effect.                   *)
Suspended == {"begin", "model", "tool"}

(* Inside a segment that cannot be suspended: about to write what the      *)
(* header in hand decided, or about to read the header again.              *)
Deciding == {"start", "response", "call", "result", "ask", "continue", "complete",
             "mark_cancelled", "mark_failed", "finalizing", "failing",
             "cancelling", "approving", "denying", "queueing"}

Segment == Deciding \cup {"step", "next_call"}

(* The status each decision records; the three others record an event only. *)
Decision == [start |-> "RUNNING", continue |-> "RUNNING", ask |-> "AWAITING_APPROVAL",
             complete |-> "COMPLETED", mark_cancelled |-> "CANCELLED",
             finalizing |-> "CANCELLED", mark_failed |-> "FAILED", failing |-> "FAILED",
             cancelling |-> "CANCELLING", approving |-> "QUEUED", denying |-> "FAILED",
             queueing |-> "QUEUED"]

(* Neither: idle, or a worker about to deal with an execution that ended. *)
Parked == {"idle", "finalize", "failure", "returned", "failed"}

(* The coroutine has an execution of the run that it has not finished with. *)
Executing(a) == pc[a] \notin {"idle", "cancelling", "approving", "denying", "queueing"}

TypeOK ==
    /\ run \in Row
    /\ log \in Seq(EventType)
    /\ artifacts \in Nat
    /\ approval \in [Approval -> {"absent", "pending", "approved", "denied"}]
    /\ pc \in [Actor -> Suspended \cup Segment \cup Parked]
    /\ hdr \in [Actor -> Row]
    /\ calls \in [Actor -> Nat]
    /\ round \in [Actor -> Nat]
    /\ target \in [Actor -> Approval]
    /\ loop \in [Process -> Actor \cup {NoActor}]
    /\ execs \in Nat
    /\ requests \in Nat

(* A session turn inserts the run as QUEUED, create_run as CREATED. *)
Init ==
    /\ run \in [status : {"CREATED", "QUEUED"}, cancelReq : {FALSE}]
    /\ log = <<>>
    /\ artifacts = 0
    /\ approval = [ap \in Approval |-> "absent"]
    /\ pc = [a \in Actor |-> "idle"]
    /\ hdr = [a \in Actor |-> Blank]
    /\ calls = [a \in Actor |-> 0]
    /\ round = [a \in Actor |-> 0]
    /\ target = [a \in Actor |-> CHOOSE ap \in Approval : TRUE]
    /\ loop = [p \in Process |-> NoActor]
    /\ execs = 0
    /\ requests = 0

-----------------------------------------------------------------------------
(* Control of a coroutine. *)

CanRun(a) == loop[Home[a]] \in {a, NoActor}

Stay(a, l) ==
    /\ pc' = [pc EXCEPT ![a] = l]
    /\ loop' = [loop EXCEPT ![Home[a]] = a]

(* The coroutine waits; it reads the header again before it decides. *)
Suspend(a, l) ==
    /\ pc' = [pc EXCEPT ![a] = l]
    /\ loop' = [loop EXCEPT ![Home[a]] = NoActor]
    /\ hdr' = [hdr EXCEPT ![a] = Blank]

(* The call ends; its local variables are gone. *)
Leave(a, l) ==
    /\ Suspend(a, l)
    /\ calls' = [calls EXCEPT ![a] = 0]
    /\ round' = [round EXCEPT ![a] = 0]

ReadHeader(a) == hdr' = [hdr EXCEPT ![a] = run]

(* Mutant: record() forgets ensure_transition. *)
RecordUnchecked(a, header, events) ==
    /\ run' = [header EXCEPT !.status = Decision[pc[a]]]
    /\ log' = log \o events

(* TransitionRecorder.record: the in-memory header with its new status and *)
(* the events commit together.                                             *)
Record(a, header, events) ==
    /\ CanTransition(header.status, Decision[pc[a]])
    /\ run' = [header EXCEPT !.status = Decision[pc[a]]]
    /\ log' = log \o events

(* record() without a status: events only, the row is not written. *)
AppendEvent(event) ==
    /\ log' = Append(log, event)
    /\ UNCHANGED <<run, artifacts, approval>>

-----------------------------------------------------------------------------
(* RunLifecycleService.run_to_pause_or_completion and RunStepper.step. *)

Begin(a) ==
    /\ pc[a] = "idle"
    /\ execs < MaxExecs
    /\ Exclusive => /\ run.status # "AWAITING_APPROVAL"
                    /\ \A b \in Actor : ~Executing(b)
    /\ pc' = [pc EXCEPT ![a] = "begin"]
    /\ execs' = execs + 1
    /\ UNCHANGED <<db, mem, loop, requests>>

(* The header is read; a terminal run returns, a cancelled one is marked.  *)
(* When the rounds are used up the run is failed, whatever its status.     *)
StepRead(a) ==
    /\ pc[a] \in {"begin", "step"} /\ CanRun(a)
    /\ IF round[a] < MaxRounds /\ run.status \in Terminal
       THEN Leave(a, "returned")
       ELSE /\ ReadHeader(a)
            /\ Stay(a, CASE round[a] >= MaxRounds       -> "mark_failed"
                         [] run.status = "CANCELLING"   -> "mark_cancelled"
                         [] OTHER                       -> "start")
            /\ UNCHANGED <<calls, round>>
    /\ UNCHANGED <<db, target, bounds>>

(* RUNNING is recorded, then the model is awaited. *)
StepStart(a) ==
    /\ pc[a] = "start"
    /\ Record(a, hdr[a], <<>>)
    /\ Suspend(a, "model")
    /\ UNCHANGED <<artifacts, approval, calls, round, target, bounds>>

(* Mutant: the status is looked at, but the old header is kept. *)
ModelReturnStale(a) ==
    /\ pc[a] = "model" /\ CanRun(a)
    /\ IF run.status = "CANCELLING"
       THEN Stay(a, "mark_cancelled")
       ELSE \E l \in {"mark_failed", "response"} : Stay(a, l)
    /\ UNCHANGED <<db, hdr, calls, round, target, bounds>>

(* The model answers, or nothing came.  Only CANCELLING is looked for. *)
ModelReturn(a) ==
    /\ pc[a] = "model" /\ CanRun(a)
    /\ ReadHeader(a)
    /\ IF run.status = "CANCELLING"
       THEN Stay(a, "mark_cancelled")
       ELSE \E l \in {"mark_failed", "response"} : Stay(a, l)
    /\ UNCHANGED <<db, calls, round, target, bounds>>

(* The response is over budget, or final, or asks for n tool calls. *)
RecordResponse(a) ==
    /\ pc[a] = "response"
    /\ AppendEvent("MODEL_RESPONSE")
    /\ \/ /\ \E l \in {"mark_failed", "complete"} : Stay(a, l)
          /\ UNCHANGED calls
       \/ /\ \E n \in 1..MaxCalls : calls' = [calls EXCEPT ![a] = n]
          /\ Stay(a, "next_call")
    /\ UNCHANGED <<hdr, round, target, bounds>>

NextCall(a) ==
    /\ pc[a] = "next_call"
    /\ ReadHeader(a)
    /\ Stay(a, IF run.status = "CANCELLING" THEN "mark_cancelled" ELSE "call")
    /\ UNCHANGED <<db, calls, round, target, bounds>>

(* TOOL_CALL is recorded, then the tool is awaited. *)
RecordCall(a) ==
    /\ pc[a] = "call"
    /\ AppendEvent("TOOL_CALL")
    /\ Suspend(a, "tool")
    /\ UNCHANGED <<calls, round, target, bounds>>

ToolReturn(a) ==
    /\ pc[a] = "tool" /\ CanRun(a)
    /\ ReadHeader(a)
    /\ Stay(a, IF run.status = "CANCELLING" THEN "mark_cancelled" ELSE "result")
    /\ UNCHANGED <<db, calls, round, target, bounds>>

Fresh == {ap \in Approval : approval[ap] = "absent"}

(* The result may require an approval; else the next call or the next      *)
(* round follows.                                                          *)
RecordResult(a) ==
    /\ pc[a] = "result"
    /\ AppendEvent("TOOL_RESULT")
    /\ calls' = [calls EXCEPT ![a] = calls[a] - 1]
    /\ \/ Stay(a, IF calls[a] > 1 THEN "next_call" ELSE "continue")
       \/ Fresh # {} /\ Stay(a, "ask")
    /\ UNCHANGED <<hdr, round, target, bounds>>

(* The remaining calls of the response are dropped. *)
AskApproval(a) ==
    /\ pc[a] = "ask"
    /\ Record(a, hdr[a], <<"APPROVAL_REQUESTED">>)
    /\ \E ap \in Fresh : approval' = [approval EXCEPT ![ap] = "pending"]
    /\ Leave(a, "returned")
    /\ UNCHANGED <<artifacts, target, bounds>>

(* RUNNING is recorded again, and the next round begins. *)
EndRound(a) ==
    /\ pc[a] = "continue"
    /\ Record(a, hdr[a], <<>>)
    /\ round' = [round EXCEPT ![a] = round[a] + 1]
    /\ Stay(a, "step")
    /\ UNCHANGED <<artifacts, approval, hdr, calls, target, bounds>>

(* Mutant: the completion is recorded without its artifact. *)
CompleteUnsaved(a) ==
    /\ pc[a] = "complete"
    /\ Record(a, hdr[a], <<"ARTIFACT_CREATED">>)
    /\ Leave(a, "returned")
    /\ UNCHANGED <<artifacts, approval, target, bounds>>

(* Mutant: the artifact and its event are committed, the status is not. *)
CompleteLate(a) ==
    /\ pc[a] = "complete"
    /\ log' = Append(log, "ARTIFACT_CREATED")
    /\ artifacts' = artifacts + 1
    /\ Leave(a, "returned")
    /\ UNCHANGED <<run, approval, target, bounds>>

Complete(a) ==
    /\ pc[a] = "complete"
    /\ Record(a, hdr[a], <<"ARTIFACT_CREATED">>)
    /\ artifacts' = artifacts + 1
    /\ Leave(a, "returned")
    /\ UNCHANGED <<approval, target, bounds>>

(* mark_cancelled of the stepper, and of finalize_cancelled. *)
MarkCancelled(a) ==
    /\ pc[a] \in {"mark_cancelled", "finalizing"}
    /\ Record(a, hdr[a], <<"RUN_CANCELLED">>)
    /\ Leave(a, "returned")
    /\ UNCHANGED <<artifacts, approval, target, bounds>>

(* mark_failed of the stepper and of the round limit, and record_failure. *)
MarkFailed(a) ==
    /\ pc[a] \in {"mark_failed", "failing"}
    /\ Record(a, hdr[a], <<"ERROR">>)
    /\ Leave(a, IF pc[a] = "failing" THEN "failed" ELSE "returned")
    /\ UNCHANGED <<artifacts, approval, target, bounds>>

-----------------------------------------------------------------------------
(* Exceptions, and what the worker loop does with an execution that ended  *)
(* badly.                                                                  *)

(* The exception leaves the coroutine.  The worker loop catches it and     *)
(* records a failure; record_failure itself is called under suppress(); a  *)
(* request just ends with an error response.                               *)
Raise(a) ==
    Leave(a, IF a \in Client THEN "idle"
             ELSE IF pc[a] = "failing" THEN "failed" ELSE "failure")

(* ensure_transition refuses the status, or the transaction rolls back. *)
RecordRaises(a) ==
    /\ pc[a] \in Deciding
    /\ \/ FaultyWrites
       \/ /\ pc[a] \in DOMAIN Decision
          /\ ~CanTransition(hdr[a].status, Decision[pc[a]])
    /\ Raise(a)
    /\ UNCHANGED <<db, target, bounds>>

(* The call to the model or to the tool raises. *)
CallRaises(a) ==
    /\ pc[a] \in {"model", "tool"} /\ CanRun(a)
    /\ Raise(a)
    /\ UNCHANGED <<db, target, bounds>>

(* Mutant: a run that is being cancelled is taken for settled. *)
FinalizeSkips(a) ==
    /\ pc[a] = "finalize" /\ CanRun(a)
    /\ IF run.status \in Terminal \cup {"CANCELLING"}
       THEN Leave(a, "returned")
       ELSE ReadHeader(a) /\ Stay(a, "finalizing") /\ UNCHANGED <<calls, round>>
    /\ UNCHANGED <<db, target, bounds>>

(* After task.cancel(): finalize_cancelled. *)
FinalizeRead(a) ==
    /\ pc[a] = "finalize" /\ CanRun(a)
    /\ IF run.status \in Terminal
       THEN Leave(a, "returned")
       ELSE ReadHeader(a) /\ Stay(a, "finalizing") /\ UNCHANGED <<calls, round>>
    /\ UNCHANGED <<db, target, bounds>>

(* After an exception: record_failure. *)
FailureRead(a) ==
    /\ pc[a] = "failure" /\ CanRun(a)
    /\ IF run.status \in Terminal
       THEN Leave(a, "failed")
       ELSE ReadHeader(a) /\ Stay(a, "failing") /\ UNCHANGED <<calls, round>>
    /\ UNCHANGED <<db, target, bounds>>

(* The claim is released.  If its heartbeat had died, the exception of     *)
(* that task is raised now, and is handled like one of the execution.      *)
Finish(a) ==
    /\ pc[a] \in {"returned", "failed"} /\ CanRun(a)
    /\ \/ pc' = [pc EXCEPT ![a] = "idle"] /\ UNCHANGED loop
       \/ a \in Worker /\ pc[a] = "returned" /\ Stay(a, "failure")
    /\ UNCHANGED <<db, mem, bounds>>

-----------------------------------------------------------------------------
(* Requests. *)

Request(c) ==
    /\ pc[c] = "idle" /\ CanRun(c)
    /\ requests < MaxRequests
    /\ requests' = requests + 1
    /\ UNCHANGED <<db, calls, round, execs>>

(* AsyncioWorker.cancel_run, in the process of the request: the task that  *)
(* executes the run here, if there is one, gets a CancelledError.          *)
CancelTask(c) ==
    /\ pc' = [a \in Actor |->
                CASE a = c -> "idle"
                  [] a \in Worker /\ Home[a] = Home[c] /\ pc[a] \in Suspended -> "finalize"
                  [] OTHER -> pc[a]]
    /\ loop' = [loop EXCEPT ![Home[c]] = NoActor]
    /\ hdr' = [hdr EXCEPT ![c] = Blank]

(* cancel_run: a terminal run is returned as it is. *)
CancelRead(c) ==
    /\ Request(c)
    /\ IF run.status \in Terminal
       THEN CancelTask(c)
       ELSE ReadHeader(c) /\ Stay(c, "cancelling")
    /\ UNCHANGED target

(* CANCELLING is recorded, or the header of a run that already was         *)
(* CANCELLING is saved again.                                              *)
CancelWrite(c) ==
    /\ pc[c] = "cancelling"
    /\ Record(c, [hdr[c] EXCEPT !.cancelReq = TRUE], <<>>)
    /\ CancelTask(c)
    /\ UNCHANGED <<artifacts, approval, calls, round, target, bounds>>

(* ApprovalCoordinator.resolve reads the run and the approval.  Whether    *)
(* the approval is still pending is not looked at.                         *)
ResolveRead(c) ==
    /\ Request(c)
    /\ \E ap \in Approval :
         /\ IF Resubmission THEN approval[ap] # "absent" ELSE approval[ap] = "pending"
         /\ target' = [target EXCEPT ![c] = ap]
    /\ ReadHeader(c)
    /\ \E l \in {"approving", "denying"} : Stay(c, l)

ResolveApproved(c) ==
    /\ pc[c] = "approving"
    /\ Record(c, hdr[c], <<"APPROVAL_RESOLVED", "RUN_QUEUED">>)
    /\ approval' = [approval EXCEPT ![target[c]] = "approved"]
    /\ Leave(c, "idle")
    /\ UNCHANGED <<artifacts, target, bounds>>

ResolveDenied(c) ==
    /\ pc[c] = "denying"
    /\ Record(c, hdr[c], <<"APPROVAL_RESOLVED">>)
    /\ approval' = [approval EXCEPT ![target[c]] = "denied"]
    /\ Leave(c, "idle")
    /\ UNCHANGED <<artifacts, target, bounds>>

(* queue_run, as enqueue_continuation calls it on a run just created. *)
QueueRead(c) ==
    /\ Request(c)
    /\ run.status = "CREATED"
    /\ ReadHeader(c)
    /\ Stay(c, "queueing")
    /\ UNCHANGED target

QueueWrite(c) ==
    /\ pc[c] = "queueing"
    /\ Record(c, hdr[c], <<"RUN_QUEUED">>)
    /\ Leave(c, "idle")
    /\ UNCHANGED <<artifacts, approval, target, bounds>>

(* resume_run executes a CREATED or QUEUED run in the request coroutine,   *)
(* at once and without asking the queue; every other status is returned or *)
(* refused.                                                                *)
Resume(c) ==
    /\ pc[c] = "idle" /\ CanRun(c)
    /\ execs < MaxExecs
    /\ run.status \in {"CREATED", "QUEUED"}
    /\ Exclusive => \A b \in Actor : ~Executing(b)
    /\ Stay(c, "step")
    /\ execs' = execs + 1
    /\ UNCHANGED <<db, mem, requests>>

(* The process dies: its coroutines and their memory are gone. *)
Crash(p) ==
    /\ pc' = [a \in Actor |-> IF Home[a] = p THEN "idle" ELSE pc[a]]
    /\ hdr' = [a \in Actor |-> IF Home[a] = p THEN Blank ELSE hdr[a]]
    /\ calls' = [a \in Actor |-> IF Home[a] = p THEN 0 ELSE calls[a]]
    /\ round' = [a \in Actor |-> IF Home[a] = p THEN 0 ELSE round[a]]
    /\ loop' = [loop EXCEPT ![p] = NoActor]
    /\ UNCHANGED <<db, target, bounds>>

Step(a) ==
    \/ StepRead(a) \/ StepStart(a) \/ ModelReturn(a) \/ RecordResponse(a)
    \/ NextCall(a) \/ RecordCall(a) \/ ToolReturn(a) \/ RecordResult(a)
    \/ AskApproval(a) \/ EndRound(a) \/ Complete(a)
    \/ MarkCancelled(a) \/ MarkFailed(a)
    \/ RecordRaises(a) \/ CallRaises(a)
    \/ FinalizeRead(a) \/ FailureRead(a) \/ Finish(a)

Handle(c) ==
    \/ CancelRead(c) \/ CancelWrite(c)
    \/ ResolveRead(c) \/ ResolveApproved(c) \/ ResolveDenied(c)
    \/ QueueRead(c) \/ QueueWrite(c)
    \/ Resume(c)

Next ==
    \/ \E w \in Worker : Begin(w)
    \/ \E a \in Actor : Step(a)
    \/ \E c \in Client : Handle(c)
    \/ \E p \in Process : Crash(p)

Spec == Init /\ [][Next]_vars

-----------------------------------------------------------------------------
(* Properties. *)

(* A coroutine between a read and its write holds the loop of its process. *)
LoopHeld == \A a \in Actor : pc[a] \in Segment => loop[Home[a]] = a

(* The header a coroutine is about to decide on is the row itself: no      *)
(* other coroutine wrote the run since it was read.                        *)
HeaderIsRow == \A a \in Actor : pc[a] \in Deciding => hdr[a] = run

(* Whatever the coroutines of one process do, and in whatever order, the   *)
(* status of the run follows VALID_TRANSITIONS: the check record() makes   *)
(* on its in-memory copy is a check on the row.                            *)
StateMachineHolds ==
    [][run'.status # run.status => run'.status \in ValidTransitions[run.status]]_vars

(* A run that was COMPLETED, FAILED or CANCELLED stays so. *)
TerminalForever ==
    [][run.status \in Terminal => run'.status = run.status]_vars

(* An accepted cancellation is never overwritten by the execution it       *)
(* cancels: the run can only become CANCELLED or FAILED.                   *)
CancelSticks ==
    run.cancelReq => run.status \in {"CANCELLING", "CANCELLED", "FAILED"}

(* A run is COMPLETED exactly when it has an artifact: the two are written *)
(* together, and no later write of the header separates them.              *)
CompletedHasArtifact == (run.status = "COMPLETED") <=> (artifacts > 0)

(* An execution never produces a second artifact. *)
OneArtifact == artifacts <= 1

(* A run paused for approval has an approval somebody can still resolve. *)
PauseCanBeResolved ==
    run.status = "AWAITING_APPROVAL" => \E ap \in Approval : approval[ap] = "pending"

(* Each approval is resolved once: a decision submitted again changes      *)
(* nothing.                                                                *)
ResolvedOnce ==
    Len(SelectSeq(log, LAMBDA e : e = "APPROVAL_RESOLVED"))
        <= Cardinality({ap \in Approval : approval[ap] \in {"approved", "denied"}})
=============================================================================
