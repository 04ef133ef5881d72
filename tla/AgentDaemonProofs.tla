------------------------- MODULE AgentDaemonProofs -------------------------
(***************************************************************************)
(* Proofs about AgentDaemon, for any number of workers, requests, rounds,  *)
(* calls and approvals.                                                    *)
(*                                                                         *)
(* What RunKernelProofs and RunQueueProofs say of the steps of each half   *)
(* is used here through instances: a step of the daemon is a step of the   *)
(* kernel and a step of the queue, or a run that is queued again.          *)
(***************************************************************************)
EXTENDS AgentDaemon, FiniteSetTheorems, SequenceTheorems, TLAPS

KP == INSTANCE RunKernelProofs WITH Exclusive <- FALSE

QP == INSTANCE RunQueueProofs
        WITH Producer <- Client, Nobody <- NoActor, pc <- duty, AtomicAppend <- TRUE,
             MaxAppends <- MaxRequests + 1, Disciplined <- FALSE

USE DEF kernel, queue

-----------------------------------------------------------------------------
(* The instances name the same things. *)

(* The sets and tables of the kernel are those its proofs are about. *)
LEMMA SameSets ==
  /\ K!Actor = KP!Actor /\ K!Terminal = KP!Terminal /\ K!Status = KP!Status
  /\ K!Row = KP!Row /\ K!EventType = KP!EventType /\ K!Blank = KP!Blank
  /\ K!Suspended = KP!Suspended /\ K!Segment = KP!Segment /\ K!Parked = KP!Parked
  /\ K!Deciding = KP!Deciding /\ K!Decision = KP!Decision
  /\ K!ValidTransitions = KP!ValidTransitions
  BY DEF K!Actor, KP!Actor, K!Terminal, KP!Terminal, K!Status, KP!Status, K!Row, KP!Row,
         K!EventType, KP!EventType, K!Blank, KP!Blank, K!Suspended, KP!Suspended,
         K!Segment, KP!Segment, K!Parked, KP!Parked, K!Deciding, KP!Deciding,
         K!Decision, KP!Decision, K!ValidTransitions, KP!ValidTransitions

(* So are the types of its variables. *)
LEMMA SameTypes == (K!TypeOK <=> KP!TypeOK) /\ (K!TypeOK' <=> KP!TypeOK')
  BY SameSets DEF K!TypeOK, KP!TypeOK

(* The constants satisfy what the proofs of the kernel assume. *)
LEMMA KernelConstants == KP!RunKernelAssumption
  BY HalvesAssumption DEF K!RunKernelAssumption, KP!RunKernelAssumption, K!Actor, KP!Actor

(* And what the proofs of the queue assume. *)
LEMMA QueueConstants == QP!RunQueueAssumption
  BY HalvesAssumption DEF Q!RunQueueAssumption, QP!RunQueueAssumption

(* A step of an execution is one its proofs are about. *)
LEMMA SameStep == ASSUME NEW a, K!Step(a) PROVE KP!Step(a)
  BY DEF K!Step, KP!Step, K!StepRead, KP!StepRead, K!StepStart, KP!StepStart,
         K!ModelReturn, KP!ModelReturn, K!RecordResponse, KP!RecordResponse,
         K!NextCall, KP!NextCall, K!RecordCall, KP!RecordCall, K!ToolReturn, KP!ToolReturn,
         K!RecordResult, KP!RecordResult, K!AskApproval, KP!AskApproval,
         K!EndRound, KP!EndRound, K!Complete, KP!Complete, K!MarkCancelled, KP!MarkCancelled,
         K!MarkFailed, KP!MarkFailed, K!RecordRaises, KP!RecordRaises,
         K!CallRaises, KP!CallRaises, K!FinalizeRead, KP!FinalizeRead,
         K!FailureRead, KP!FailureRead, K!Finish, KP!Finish,
         K!Leave, KP!Leave, K!Stay, KP!Stay, K!Suspend, KP!Suspend,
         K!ReadHeader, KP!ReadHeader, K!Record, KP!Record, K!AppendEvent, KP!AppendEvent,
         K!CanRun, KP!CanRun, K!Raise, KP!Raise, K!Terminal, KP!Terminal, K!Blank, KP!Blank,
         K!db, KP!db, K!mem, KP!mem, K!bounds, KP!bounds, K!Decision, KP!Decision,
         K!CanTransition, KP!CanTransition, K!ValidTransitions, KP!ValidTransitions,
         K!Status, KP!Status, K!Fresh, KP!Fresh, K!Deciding, KP!Deciding

(* So is a step of a request. *)
LEMMA SameHandle == ASSUME NEW c, K!Handle(c) PROVE KP!Handle(c)
  BY DEF K!Handle, KP!Handle, K!CancelRead, KP!CancelRead, K!CancelWrite, KP!CancelWrite,
         K!ResolveRead, KP!ResolveRead, K!ResolveApproved, KP!ResolveApproved,
         K!ResolveDenied, KP!ResolveDenied, K!QueueRead, KP!QueueRead,
         K!QueueWrite, KP!QueueWrite, K!Resume, KP!Resume, K!Request, KP!Request,
         K!CancelTask, KP!CancelTask, K!Leave, KP!Leave, K!Stay, KP!Stay,
         K!Suspend, KP!Suspend, K!ReadHeader, KP!ReadHeader, K!Record, KP!Record,
         K!CanRun, KP!CanRun, K!Terminal, KP!Terminal, K!Blank, KP!Blank,
         K!db, KP!db, K!mem, KP!mem, K!bounds, KP!bounds, K!Decision, KP!Decision,
         K!CanTransition, KP!CanTransition, K!ValidTransitions, KP!ValidTransitions,
         K!Status, KP!Status, K!Actor, KP!Actor, K!Suspended, KP!Suspended,
         K!Executing, KP!Executing

(* The run is put into the queue by a request that owes it. *)
Requeued ==
    /\ run' = [run EXCEPT !.status = "QUEUED"]
    /\ log' = Append(log, "RUN_QUEUED")
    /\ UNCHANGED <<artifacts, approval, pc, hdr, calls, round, target, loop, execs, requests>>

(* What a step of the daemon is to the kernel. *)
LEMMA KernelStep ==
  ASSUME [Next]_vars
  PROVE  [KP!Next]_(KP!vars) \/ \E c \in Client : Continue(c) /\ Requeued
  <1> USE DEF KP!vars, KP!db, KP!mem, KP!bounds
  <1>1. ASSUME NEW w \in Worker, Claim(w) PROVE KP!Next
    <2>1. K!Begin(w)
      BY <1>1 DEF Claim
    <2>2. KP!Begin(w)
      BY <2>1 DEF K!Begin, KP!Begin, K!db, K!mem
    <2> QED BY <2>2 DEF KP!Next
  <1>2. ASSUME NEW a \in K!Actor, K!Step(a) PROVE KP!Next
    BY <1>2, SameStep, SameSets DEF KP!Next
  <1>3. ASSUME NEW c \in Client, K!Handle(c) PROVE KP!Next
    BY <1>3, SameHandle DEF KP!Next
  <1>4. ASSUME NEW w \in Worker, Release(w) PROVE KP!Next
    <2>1. K!Step(w)
      BY <1>4 DEF Release, K!Step
    <2> QED BY <2>1, <1>2 DEF K!Actor
  <1>5. ASSUME NEW p \in Process, Crash(p) PROVE KP!Next
    <2>1. K!Crash(p)
      BY <1>5 DEF Crash
    <2>2. KP!Crash(p)
      BY <2>1 DEF K!Crash, KP!Crash, K!Actor, KP!Actor, K!Blank, KP!Blank, K!db, K!bounds
    <2> QED BY <2>2 DEF KP!Next
  <1>6. ASSUME NEW w \in Worker, Execute(w) \/ AfterRelease(w) PROVE KP!Next
    BY <1>6, <1>2 DEF Execute, AfterRelease, K!Actor
  <1>7. ASSUME NEW c \in Client, Request(c) PROVE KP!Next
    BY <1>7, <1>2, <1>3 DEF Request, K!Actor
  <1>8. ASSUME NEW c \in Client, Continue(c) PROVE UNCHANGED KP!vars \/ Requeued
    BY <1>8 DEF Continue, Requeued
  <1>9. ASSUME NEW w \in Worker, Start(w) \/ GiveUp(w) \/ Heartbeats(w) PROVE UNCHANGED KP!vars
    BY <1>9 DEF Start, GiveUp, Heartbeats
  <1>10. CASE Tick \/ UNCHANGED vars
    BY <1>10 DEF Tick, vars
  <1> QED BY <1>1, <1>4, <1>5, <1>6, <1>7, <1>8, <1>9, <1>10 DEF Next

(* The kernel keeps its types in the daemon. *)
LEMMA KernelTypes ==
  ASSUME K!TypeOK, KP!CallPending, [Next]_vars
  PROVE  K!TypeOK' /\ KP!CallPending'
  <1>1. CASE [KP!Next]_(KP!vars)
    BY <1>1, KernelConstants, SameTypes, KP!TypeNext
  <1>2. CASE Requeued
    <2>1. [run EXCEPT !.status = "QUEUED"] \in K!Row
      BY DEF K!TypeOK, K!Row, K!Status
    <2>2. Append(log, "RUN_QUEUED") \in Seq(K!EventType)
      BY DEF K!TypeOK, K!EventType
    <2> QED BY <1>2, <2>1, <2>2 DEF Requeued, K!TypeOK, KP!CallPending
  <1> QED BY <1>1, <1>2, KernelStep

-----------------------------------------------------------------------------
(* What the steps of workers and requests do. *)

ClientPC == {"idle", "cancelling", "approving", "denying"}

(* An execution that goes on, or that ended badly and is not yet dealt     *)
(* with.                                                                   *)
Working == (K!Suspended \cup K!Segment \cup {"finalize", "failure"})
             \ {"cancelling", "approving", "denying", "queueing"}

(* Record, on the header that a holds. *)
Wrote(a, status, events) ==
    /\ K!CanTransition(hdr[a].status, status)
    /\ run'.status = status
    /\ log' = log \o events

(* What a step of the execution of w does to the rows. *)
WorkerWrote(w) ==
    \/ UNCHANGED <<run, log, artifacts, approval>>
    \/ /\ pc[w] \in {"response", "call", "result"}
       /\ \E e \in {"MODEL_RESPONSE", "TOOL_CALL", "TOOL_RESULT"} : log' = Append(log, e)
       /\ UNCHANGED <<run, artifacts, approval>>
    \/ /\ pc[w] \in {"start", "continue"}
       /\ Wrote(w, "RUNNING", <<>>)
       /\ UNCHANGED <<artifacts, approval>>
    \/ /\ pc[w] = "ask" /\ pc'[w] = "returned"
       /\ Wrote(w, "AWAITING_APPROVAL", <<"APPROVAL_REQUESTED">>)
       /\ \E ap \in Approval : approval[ap] = "absent"
                               /\ approval' = [approval EXCEPT ![ap] = "pending"]
       /\ UNCHANGED artifacts
    \/ /\ pc[w] = "complete" /\ pc'[w] = "returned"
       /\ Wrote(w, "COMPLETED", <<"ARTIFACT_CREATED">>)
       /\ artifacts' = artifacts + 1
       /\ UNCHANGED approval
    \/ /\ pc[w] \in {"mark_cancelled", "finalizing"} /\ pc'[w] = "returned"
       /\ Wrote(w, "CANCELLED", <<"RUN_CANCELLED">>)
       /\ UNCHANGED <<artifacts, approval>>
    \/ /\ pc[w] \in {"mark_failed", "failing"} /\ pc'[w] \in {"returned", "failed"}
       /\ Wrote(w, "FAILED", <<"ERROR">>)
       /\ UNCHANGED <<artifacts, approval>>

(* What a step of the request c does to the rows. *)
ClientWrote(c) ==
    \/ UNCHANGED <<run, log, approval>>
    \/ /\ pc[c] = "cancelling" /\ pc'[c] = "idle"
       /\ Wrote(c, "CANCELLING", <<>>)
       /\ UNCHANGED approval
    \/ /\ pc[c] = "approving" /\ pc'[c] = "idle"
       /\ Wrote(c, "QUEUED", <<"APPROVAL_RESOLVED", "RUN_QUEUED">>)
       /\ approval' = [approval EXCEPT ![target[c]] = "approved"]
    \/ /\ pc[c] = "denying" /\ pc'[c] = "idle"
       /\ Wrote(c, "FAILED", <<"APPROVAL_RESOLVED">>)
       /\ approval' = [approval EXCEPT ![target[c]] = "denied"]

(* The coroutine a leaves the loops of other processes alone, and holds    *)
(* its own one in a segment.                                               *)
LoopOf(a) ==
    /\ \A p \in Process : p # Home[a] => loop'[p] = loop[p]
    /\ pc'[a] \in K!Segment => loop'[Home[a]] = a

(* Where a coroutine ends when it leaves, and what it leaves alone. *)
LEMMA Leaving ==
  ASSUME K!TypeOK, NEW a \in K!Actor, NEW l, K!Leave(a, l)
  PROVE  /\ pc'[a] = l
         /\ \A b \in K!Actor \ {a} : pc'[b] = pc[b] /\ hdr'[b] = hdr[b]
         /\ l \notin K!Segment => LoopOf(a)
  BY DEF K!TypeOK, K!Leave, K!Suspend, LoopOf

(* The same of a coroutine that waits. *)
LEMMA Suspending ==
  ASSUME K!TypeOK, NEW a \in K!Actor, NEW l, K!Suspend(a, l)
  PROVE  /\ pc'[a] = l
         /\ \A b \in K!Actor \ {a} : pc'[b] = pc[b] /\ hdr'[b] = hdr[b]
         /\ l \notin K!Segment => LoopOf(a)
  BY DEF K!TypeOK, K!Suspend, LoopOf

(* And of one that goes on. *)
LEMMA Staying ==
  ASSUME K!TypeOK, NEW a \in K!Actor, NEW l, K!Stay(a, l)
  PROVE  /\ pc'[a] = l
         /\ \A b \in K!Actor \ {a} : pc'[b] = pc[b]
         /\ LoopOf(a)
  <1>1. Home[a] \in Process
    BY HalvesAssumption DEF K!RunKernelAssumption
  <1> QED BY <1>1 DEF K!TypeOK, K!Stay, LoopOf

(* A header that is read is the header of one coroutine. *)
LEMMA Reading ==
  ASSUME K!TypeOK, NEW a \in K!Actor, K!ReadHeader(a)
  PROVE  hdr'[a] = run /\ \A b \in K!Actor \ {a} : hdr'[b] = hdr[b]
  BY DEF K!TypeOK, K!ReadHeader

(* What is recorded has the status that was decided. *)
LEMMA Recording ==
  ASSUME NEW a, NEW header \in K!Row, NEW events, K!Record(a, header, events)
  PROVE  /\ run'.status = K!Decision[pc[a]]
         /\ K!CanTransition(header.status, K!Decision[pc[a]])
         /\ log' = log \o events
  BY DEF K!Record, K!Row

(* A step of an execution moves its worker alone, and writes one of the    *)
(* rows above.                                                             *)
LEMMA WorkerMoves ==
  ASSUME K!TypeOK, NEW w \in Worker, pc[w] \in Working, K!Step(w)
  PROVE  /\ pc'[w] \in Working \cup {"returned", "failed"}
         /\ \A b \in K!Actor \ {w} : pc'[b] = pc[b] /\ hdr'[b] = hdr[b]
         /\ target' = target
         /\ LoopOf(w)
         /\ WorkerWrote(w)
  <1> DEFINE Moves == /\ pc'[w] \in Working \cup {"returned", "failed"}
                      /\ \A b \in K!Actor \ {w} : pc'[b] = pc[b] /\ hdr'[b] = hdr[b]
                      /\ LoopOf(w)
             Goal == Moves /\ target' = target /\ WorkerWrote(w)
  <1> USE DEF K!db, K!mem, K!bounds
  <1>a. w \in K!Actor /\ w \notin Client /\ hdr[w] \in K!Row
    BY HalvesAssumption DEF K!Actor, K!RunKernelAssumption, K!TypeOK
  <1>b. /\ {"model", "tool", "finalize", "failure", "start", "response", "next_call", "call",
            "result", "ask", "continue", "complete", "step", "mark_cancelled", "mark_failed",
            "finalizing", "failing"} \subseteq Working
        /\ {"model", "tool", "finalize", "failure", "returned", "failed"} \cap K!Segment = {}
        /\ pc[w] \notin {"returned", "failed", "idle"}
    BY DEF Working, K!Suspended, K!Segment, K!Deciding
  <1>c. ASSUME NEW l \in {"start", "response", "next_call", "call", "result", "ask", "continue",
                          "complete", "step", "mark_cancelled", "mark_failed", "finalizing",
                          "failing"},
               K!Stay(w, l), K!ReadHeader(w) \/ UNCHANGED hdr
        PROVE  Moves
    BY <1>a, <1>b, <1>c, Staying, Reading
  <1>d. ASSUME NEW l \in {"failure", "returned", "failed"}, K!Leave(w, l)
        PROVE  Moves /\ pc'[w] = l
    BY <1>a, <1>b, <1>d, Leaving
  <1>e. ASSUME NEW l \in {"model", "tool"}, K!Suspend(w, l)
        PROVE  Moves
    BY <1>a, <1>b, <1>e, Suspending
  <1>f. ASSUME NEW status, NEW events, K!Record(w, hdr[w], events), K!Decision[pc[w]] = status
        PROVE  Wrote(w, status, events)
    BY <1>a, <1>f, Recording DEF Wrote
  <1>1. CASE K!StepRead(w)
    <2>1. PICK l \in {"start", "mark_cancelled", "mark_failed", "returned"} :
            \/ K!Leave(w, l) /\ l = "returned"
            \/ K!ReadHeader(w) /\ K!Stay(w, l) /\ l # "returned"
      BY <1>1 DEF K!StepRead
    <2>2. Moves
      BY <2>1, <1>c, <1>d
    <2> QED BY <1>1, <2>2 DEF K!StepRead, WorkerWrote
  <1>2. CASE K!StepStart(w)
    <2>1. Wrote(w, "RUNNING", <<>>) /\ Moves
      BY <1>2, <1>e, <1>f DEF K!StepStart, K!Decision
    <2> QED BY <1>2, <2>1 DEF K!StepStart, WorkerWrote
  <1>3. CASE K!ModelReturn(w) \/ K!NextCall(w) \/ K!ToolReturn(w)
    <2>1. PICK l \in {"mark_cancelled", "mark_failed", "response", "call", "result"} :
            K!ReadHeader(w) /\ K!Stay(w, l)
      BY <1>3 DEF K!ModelReturn, K!NextCall, K!ToolReturn
    <2>2. Moves
      BY <2>1, <1>c
    <2> QED BY <1>3, <2>2 DEF K!ModelReturn, K!NextCall, K!ToolReturn, WorkerWrote
  <1>4. CASE K!RecordResponse(w) \/ K!RecordResult(w)
    <2>1. PICK l \in {"mark_failed", "complete", "next_call", "continue", "ask"} : K!Stay(w, l)
      BY <1>4 DEF K!RecordResponse, K!RecordResult
    <2>2. Moves
      BY <1>4, <2>1, <1>c DEF K!RecordResponse, K!RecordResult
    <2> QED BY <1>4, <2>2 DEF K!RecordResponse, K!RecordResult, K!AppendEvent, WorkerWrote
  <1>5. CASE K!RecordCall(w)
    BY <1>5, <1>e DEF K!RecordCall, K!AppendEvent, WorkerWrote
  <1>6. CASE K!AskApproval(w)
    <2>1. Wrote(w, "AWAITING_APPROVAL", <<"APPROVAL_REQUESTED">>)
      BY <1>6, <1>f DEF K!AskApproval, K!Decision
    <2>2. Moves /\ pc'[w] = "returned"
      BY <1>6, <1>d DEF K!AskApproval
    <2> QED BY <1>6, <2>1, <2>2 DEF K!AskApproval, K!Fresh, WorkerWrote
  <1>7. CASE K!EndRound(w)
    <2>1. Wrote(w, "RUNNING", <<>>) /\ Moves
      BY <1>7, <1>c, <1>f DEF K!EndRound, K!Decision
    <2> QED BY <1>7, <2>1 DEF K!EndRound, WorkerWrote
  <1>8. CASE K!Complete(w)
    <2>1. Wrote(w, "COMPLETED", <<"ARTIFACT_CREATED">>)
      BY <1>8, <1>f DEF K!Complete, K!Decision
    <2>2. Moves /\ pc'[w] = "returned"
      BY <1>8, <1>d DEF K!Complete
    <2> QED BY <1>8, <2>1, <2>2 DEF K!Complete, WorkerWrote
  <1>9. CASE K!MarkCancelled(w)
    <2>1. Wrote(w, "CANCELLED", <<"RUN_CANCELLED">>)
      BY <1>9, <1>f DEF K!MarkCancelled, K!Decision
    <2>2. Moves /\ pc'[w] = "returned"
      BY <1>9, <1>d DEF K!MarkCancelled
    <2> QED BY <1>9, <2>1, <2>2 DEF K!MarkCancelled, WorkerWrote
  <1>10. CASE K!MarkFailed(w)
    <2>1. Wrote(w, "FAILED", <<"ERROR">>)
      BY <1>10, <1>f DEF K!MarkFailed, K!Decision
    <2>2. PICK l \in {"failed", "returned"} : K!Leave(w, l)
      BY <1>10 DEF K!MarkFailed
    <2>3. Moves /\ pc'[w] \in {"returned", "failed"}
      BY <2>2, <1>d
    <2> QED BY <1>10, <2>1, <2>3 DEF K!MarkFailed, WorkerWrote
  <1>11. CASE K!RecordRaises(w) \/ K!CallRaises(w)
    <2>1. PICK l \in {"failed", "failure"} : K!Leave(w, l)
      BY <1>11, <1>a DEF K!RecordRaises, K!CallRaises, K!Raise
    <2>2. Moves
      BY <2>1, <1>d
    <2> QED BY <1>11, <2>2 DEF K!RecordRaises, K!CallRaises, WorkerWrote
  <1>12. CASE K!FinalizeRead(w) \/ K!FailureRead(w)
    <2>1. PICK l \in {"returned", "failed", "finalizing", "failing"} :
            \/ K!Leave(w, l) /\ l \in {"returned", "failed"}
            \/ K!ReadHeader(w) /\ K!Stay(w, l) /\ l \in {"finalizing", "failing"}
      BY <1>12 DEF K!FinalizeRead, K!FailureRead
    <2>2. Moves
      BY <2>1, <1>c, <1>d
    <2> QED BY <1>12, <2>2 DEF K!FinalizeRead, K!FailureRead, WorkerWrote
  <1>13. CASE K!Finish(w)
    BY <1>13, <1>b DEF K!Finish
  <1> QED BY <1>1, <1>2, <1>3, <1>4, <1>5, <1>6, <1>7, <1>8, <1>9, <1>10, <1>11, <1>12, <1>13
          DEF K!Step

(* A request that does not execute the run moves itself, and the workers   *)
(* of its process that it cancels.                                         *)
LEMMA ClientMoves ==
  ASSUME K!TypeOK, NEW c \in Client, pc[c] \in ClientPC, K!Step(c) \/ K!Handle(c),
         pc'[c] # "queueing", ~(pc[c] = "idle" /\ pc'[c] = "step")
  PROVE  /\ pc'[c] \in ClientPC
         /\ \A b \in K!Actor \ {c} :
              /\ hdr'[b] = hdr[b] /\ target'[b] = target[b]
              /\ \/ pc'[b] = pc[b]
                 \/ b \in Worker /\ pc[b] \in K!Suspended /\ pc'[b] = "finalize"
         /\ LoopOf(c)
         /\ ClientWrote(c) /\ artifacts' = artifacts
         /\ pc'[c] # "idle" => pc[c] = "idle" /\ UNCHANGED <<run, log, approval>>
         /\ pc'[c] \in {"approving", "denying"} =>
              Resubmission \/ approval[target'[c]] = "pending"
  <1> DEFINE Moves == /\ pc'[c] \in ClientPC
                      /\ \A b \in K!Actor \ {c} :
                           /\ hdr'[b] = hdr[b]
                           /\ \/ pc'[b] = pc[b]
                              \/ b \in Worker /\ pc[b] \in K!Suspended /\ pc'[b] = "finalize"
                      /\ LoopOf(c)
  <1> USE DEF K!db, K!mem, K!bounds
  <1>a. c \in K!Actor /\ c \notin Worker /\ hdr[c] \in K!Row
    BY HalvesAssumption DEF K!Actor, K!RunKernelAssumption, K!TypeOK
  <1>b. ClientPC \cap K!Segment = {"cancelling", "approving", "denying"} /\ "idle" \in ClientPC
    BY DEF ClientPC, K!Segment, K!Deciding
  <1>c. ASSUME NEW l \in {"cancelling", "approving", "denying"}, K!Stay(c, l), K!ReadHeader(c)
        PROVE  Moves /\ pc'[c] = l
    BY <1>a, <1>b, <1>c, Staying, Reading
  <1>d. ASSUME K!Leave(c, "idle")
        PROVE  Moves /\ pc'[c] = "idle"
    BY <1>a, <1>b, <1>d, Leaving
  <1>e. ASSUME K!CancelTask(c)
        PROVE  Moves /\ pc'[c] = "idle"
    <2>1. /\ pc'[c] = "idle"
          /\ \A b \in K!Actor \ {c} :
               \/ pc'[b] = pc[b]
               \/ b \in Worker /\ pc[b] \in K!Suspended /\ pc'[b] = "finalize"
      BY <1>a, <1>e DEF K!CancelTask
    <2>2. \A b \in K!Actor \ {c} : hdr'[b] = hdr[b]
      BY <1>e DEF K!CancelTask, K!TypeOK
    <2>3. \A p \in Process : p # Home[c] => loop'[p] = loop[p]
      BY <1>e DEF K!CancelTask, K!TypeOK
    <2> QED BY <2>1, <2>2, <2>3, <1>b DEF LoopOf
  <1>f. ASSUME NEW header \in K!Row, header.status = hdr[c].status, NEW status, NEW events,
               K!Record(c, header, events), K!Decision[pc[c]] = status
        PROVE  Wrote(c, status, events)
    BY <1>a, <1>f, Recording DEF Wrote
  <1>1. CASE K!RecordRaises(c)
    BY <1>1, <1>d, <1>a DEF K!RecordRaises, K!Raise, ClientWrote
  <1>2. CASE K!CancelRead(c)
    <2>1. Moves /\ pc'[c] \in {"idle", "cancelling"}
      BY <1>2, <1>c, <1>e DEF K!CancelRead
    <2> QED BY <1>2, <2>1 DEF K!CancelRead, K!Request, ClientWrote
  <1>3. CASE K!CancelWrite(c)
    <2>1. [hdr[c] EXCEPT !.cancelReq = TRUE] \in K!Row
      BY <1>a DEF K!Row
    <2>2. [hdr[c] EXCEPT !.cancelReq = TRUE].status = hdr[c].status
      BY <1>a DEF K!Row
    <2>3. Wrote(c, "CANCELLING", <<>>)
      <3>1. K!Record(c, [hdr[c] EXCEPT !.cancelReq = TRUE], <<>>)
        BY <1>3 DEF K!CancelWrite
      <3>2. K!Decision[pc[c]] = "CANCELLING"
        BY <1>3 DEF K!CancelWrite, K!Decision
      <3> HIDE DEF Moves
      <3> QED BY <3>1, <3>2, <2>1, <2>2, <1>f
    <2>4. K!CancelTask(c)
      BY <1>3 DEF K!CancelWrite
    <2>5. Moves /\ pc'[c] = "idle"
      BY <2>4, <1>e
    <2> QED BY <1>3, <2>3, <2>5 DEF K!CancelWrite, ClientWrote
  <1>4. CASE K!ResolveRead(c)
    <2>1. PICK l \in {"approving", "denying"} : K!Stay(c, l)
      BY <1>4 DEF K!ResolveRead
    <2>2. Moves /\ pc'[c] = l
      BY <1>4, <2>1, <1>c DEF K!ResolveRead
    <2>3. PICK ap \in Approval : /\ Resubmission \/ approval[ap] = "pending"
                                 /\ target' = [target EXCEPT ![c] = ap]
      BY <1>4 DEF K!ResolveRead
    <2>4. target'[c] = ap /\ \A b \in K!Actor \ {c} : target'[b] = target[b]
      BY <2>3, <1>a DEF K!TypeOK
    <2> QED BY <1>4, <2>2, <2>3, <2>4 DEF K!ResolveRead, K!Request, ClientWrote
  <1>5. CASE K!ResolveApproved(c)
    <2>1. Wrote(c, "QUEUED", <<"APPROVAL_RESOLVED", "RUN_QUEUED">>)
      BY <1>5, <1>a, <1>f DEF K!ResolveApproved, K!Decision
    <2>2. Moves /\ pc'[c] = "idle"
      BY <1>5, <1>d DEF K!ResolveApproved
    <2> QED BY <1>5, <2>1, <2>2 DEF K!ResolveApproved, ClientWrote
  <1>6. CASE K!ResolveDenied(c)
    <2>1. Wrote(c, "FAILED", <<"APPROVAL_RESOLVED">>)
      BY <1>6, <1>a, <1>f DEF K!ResolveDenied, K!Decision
    <2>2. Moves /\ pc'[c] = "idle"
      BY <1>6, <1>d DEF K!ResolveDenied
    <2> QED BY <1>6, <2>1, <2>2 DEF K!ResolveDenied, ClientWrote
  <1>7. ~K!QueueRead(c) /\ ~K!QueueWrite(c) /\ ~K!Resume(c)
    BY <1>a DEF K!QueueRead, K!QueueWrite, K!Resume, K!Request, K!Stay, K!TypeOK, ClientPC
  <1>8. K!Step(c) => K!RecordRaises(c)
    BY DEF K!Step, K!StepRead, K!StepStart, K!ModelReturn, K!RecordResponse, K!NextCall,
           K!RecordCall, K!ToolReturn, K!RecordResult, K!AskApproval, K!EndRound, K!Complete,
           K!MarkCancelled, K!MarkFailed, K!CallRaises, K!FinalizeRead, K!FailureRead,
           K!Finish, ClientPC
  <1> QED BY <1>1, <1>2, <1>3, <1>4, <1>5, <1>6, <1>7, <1>8 DEF K!Handle

-----------------------------------------------------------------------------
(* Where everybody is, as long as no request executes the run itself.      *)

WorkerPC == Working \cup {"idle", "returned", "failed"}

(* Requests only write; one that owes the queue a row has no call open.    *)
Placed ==
    /\ \A w \in Worker : pc[w] \in WorkerPC
    /\ \A c \in Client : pc[c] \in ClientPC
    /\ owes \subseteq Client
    /\ \A c \in owes : pc[c] = "idle"

(* What is done with an execution that ended. *)
LEMMA Finishing ==
  ASSUME K!TypeOK, NEW w \in Worker, K!Step(w), pc[w] \in {"idle", "returned", "failed"}
  PROVE  /\ pc[w] # "idle" /\ K!CanRun(w)
         /\ \/ pc'[w] = "idle"
            \/ pc[w] = "returned" /\ pc'[w] = "failure"
         /\ \A b \in K!Actor \ {w} : pc'[b] = pc[b]
         /\ UNCHANGED <<run, log, artifacts, approval, hdr, target>>
         /\ LoopOf(w)
  <1>1. K!Finish(w)
    BY DEF K!Step, K!StepRead, K!StepStart, K!ModelReturn, K!RecordResponse, K!NextCall,
           K!RecordCall, K!ToolReturn, K!RecordResult, K!AskApproval, K!EndRound, K!Complete,
           K!MarkCancelled, K!MarkFailed, K!RecordRaises, K!CallRaises, K!FinalizeRead,
           K!FailureRead, K!Deciding
  <1>2. w \in K!Actor
    BY DEF K!Actor
  <1>3. LoopOf(w)
    <2>1. CASE K!Stay(w, "failure")
      BY <1>2, <2>1, Staying
    <2>2. CASE pc' = [pc EXCEPT ![w] = "idle"] /\ UNCHANGED loop
      BY <1>2, <2>2 DEF LoopOf, K!TypeOK, K!Segment, K!Deciding
    <2> QED BY <1>1, <2>1, <2>2 DEF K!Finish
  <1> QED BY <1>1, <1>2, <1>3 DEF K!Finish, K!Stay, K!TypeOK, K!db, K!mem

(* A claim starts the execution of its worker. *)
LEMMA Beginning ==
  ASSUME K!TypeOK, NEW w \in Worker, K!Begin(w)
  PROVE  /\ pc[w] = "idle" /\ pc'[w] = "begin"
         /\ \A b \in K!Actor \ {w} : pc'[b] = pc[b]
         /\ UNCHANGED <<run, log, artifacts, approval, hdr, target, loop>>
  BY DEF K!Begin, K!TypeOK, K!Actor, K!db, K!mem

(* A process that dies takes its coroutines with it, and no row. *)
LEMMA Crashing ==
  ASSUME NEW p \in Process, K!Crash(p)
  PROVE  /\ \A b \in K!Actor : pc'[b] = "idle" \/ (pc'[b] = pc[b] /\ hdr'[b] = hdr[b])
         /\ UNCHANGED <<run, log, artifacts, approval, target>>
  <1>1. ASSUME NEW b \in K!Actor
        PROVE  pc'[b] = "idle" \/ (pc'[b] = pc[b] /\ hdr'[b] = hdr[b])
    BY DEF K!Crash
  <1> QED BY <1>1 DEF K!Crash, K!db

(* The step of a request, as ClientMoves wants it. *)
LEMMA Requesting ==
  ASSUME ~InlineResume, NEW c \in Client, Request(c)
  PROVE  /\ Free(c) /\ c \notin owes
         /\ K!Step(c) \/ K!Handle(c)
         /\ pc'[c] # "queueing" /\ ~(pc[c] = "idle" /\ pc'[c] = "step")
         /\ owes' = IF pc[c] = "approving" /\ log' # log THEN owes \cup {c} ELSE owes
         /\ UNCHANGED <<queue, outcome, crashes>>
  BY DEF Request

(* Everybody stays where they can be. *)
LEMMA PlacedNext ==
  ASSUME ~InlineResume, K!TypeOK, Placed, [Next]_vars
  PROVE  Placed'
  <1>a. {"begin", "failure", "finalize", "idle", "returned", "failed"} \subseteq WorkerPC
    BY DEF WorkerPC, Working, K!Suspended
  <1>b. Worker \cap Client = {} /\ K!Actor = Worker \cup Client
    BY HalvesAssumption DEF K!RunKernelAssumption, K!Actor
  <1>c. "idle" \in ClientPC
    BY DEF ClientPC
  <1>1. ASSUME NEW w \in Worker, pc'[w] \in WorkerPC, owes' = owes,
               \A b \in K!Actor \ {w} : pc'[b] = pc[b]
        PROVE  Placed'
    <2>1. \A v \in Worker : pc'[v] \in WorkerPC
      BY <1>1, <1>b DEF Placed
    <2>2. \A c \in Client : pc'[c] = pc[c]
      BY <1>1, <1>b
    <2> QED BY <1>1, <2>1, <2>2 DEF Placed
  <1>2. ASSUME NEW w \in Worker, K!Step(w), owes' = owes PROVE Placed'
    <2>1. CASE pc[w] \in Working
      BY <1>1, <1>2, <2>1, WorkerMoves DEF WorkerPC
    <2>2. CASE pc[w] \in {"idle", "returned", "failed"}
      BY <1>1, <1>2, <2>2, <1>a, Finishing
    <2> QED BY <2>1, <2>2 DEF Placed, WorkerPC
  <1>3. ASSUME NEW w \in Worker, Claim(w) PROVE Placed'
    BY <1>1, <1>3, <1>a, Beginning DEF Claim
  <1>4. ASSUME NEW w \in Worker, Execute(w) \/ Release(w) \/ AfterRelease(w) PROVE Placed'
    BY <1>2, <1>4 DEF Execute, Release, AfterRelease, K!Step
  <1>5. ASSUME NEW c \in Client, Request(c) PROVE Placed'
    <2>1. pc[c] \in ClientPC
      BY DEF Placed
    <2>2. /\ pc'[c] \in ClientPC
          /\ \A b \in K!Actor \ {c} : pc'[b] = pc[b] \/ (b \in Worker /\ pc'[b] = "finalize")
      <3>1. /\ K!Step(c) \/ K!Handle(c)
            /\ pc'[c] # "queueing" /\ ~(pc[c] = "idle" /\ pc'[c] = "step")
        BY <1>5, Requesting
      <3> QED BY <2>1, <3>1, ClientMoves
    <2>3. CASE owes' = owes
      BY <1>5, <2>2, <2>3, <1>a, <1>b, Requesting DEF Placed
    <2>4. CASE owes' = owes \cup {c} /\ pc[c] = "approving" /\ log' # log
      <3>1. pc'[c] = "idle"
        BY <1>5, <2>1, <2>4, Requesting, ClientMoves
      <3> QED BY <1>5, <2>2, <2>4, <3>1, <1>a, <1>b DEF Placed
    <2> QED BY <1>5, <2>3, <2>4, Requesting
  <1>6. ASSUME NEW c \in Client, Continue(c) PROVE Placed'
    BY <1>6 DEF Continue, Placed
  <1>7. ASSUME NEW p \in Process, Crash(p) PROVE Placed'
    <2>1. owes' \subseteq owes
      BY <1>7 DEF Crash
    <2>2. \A b \in K!Actor : pc'[b] = "idle" \/ pc'[b] = pc[b]
      BY <1>7, Crashing DEF Crash
    <2> QED BY <2>1, <2>2, <1>a, <1>b, <1>c DEF Placed
  <1>8. ASSUME NEW w \in Worker, Start(w) \/ GiveUp(w) \/ Heartbeats(w) PROVE Placed'
    BY <1>8 DEF Start, GiveUp, Heartbeats, Placed
  <1>9. CASE Tick \/ UNCHANGED vars
    BY <1>9 DEF Tick, vars, Placed
  <1> QED BY <1>3, <1>4, <1>5, <1>6, <1>7, <1>8, <1>9 DEF Next

-----------------------------------------------------------------------------
(* One process: the run has one artifact, whatever dies or fails.          *)

(* From the first RUNNING to the completion. *)
Late == {"start", "model", "response", "next_call", "call", "tool", "result", "ask",
         "continue", "complete", "step"}

NoneLate == \A w \in Worker : pc[w] \in Late => run.status # "COMPLETED"

Single ==
    /\ K!TypeOK /\ KP!CallPending /\ KP!Synced
    /\ Placed /\ NoneLate
    /\ K!CompletedHasArtifact /\ K!OneArtifact

(* An execution gets there only if it finds the run open. *)
LEMMA Entering ==
  ASSUME K!TypeOK, NEW w \in Worker, pc[w] \in Working, K!Step(w), pc'[w] \in Late
  PROVE  \/ pc[w] \in Late
         \/ pc[w] = "begin" /\ run' = run /\ run.status \notin K!Terminal
  <1> SUFFICES ASSUME pc[w] \notin Late PROVE run' = run /\ run.status \notin K!Terminal
                                              /\ pc[w] = "begin"
    OBVIOUS
  <1>a. w \in K!Actor /\ w \notin Client
    BY HalvesAssumption DEF K!Actor, K!RunKernelAssumption
  <1>b. /\ \A l : K!Stay(w, l) \/ K!Leave(w, l) => pc'[w] = l
        /\ {"returned", "failed", "failure", "finalizing", "failing", "mark_failed"}
             \cap Late = {}
    BY <1>a, Staying, Leaving DEF Late
  <1>1. CASE K!StepRead(w)
    <2>1. pc[w] = "begin" /\ run' = run
      BY <1>1 DEF K!StepRead, Late, K!db
    <2>2. ASSUME run.status \in K!Terminal PROVE FALSE
      <3>1. round[w] \in Nat /\ MaxRounds \in Nat
        BY <1>a, KernelConstants DEF K!TypeOK, KP!RunKernelAssumption
      <3>2. K!Leave(w, "returned") \/ K!Stay(w, "mark_failed")
        <4>1. CASE round[w] < MaxRounds
          BY <1>1, <2>2, <4>1 DEF K!StepRead
        <4>2. CASE round[w] >= MaxRounds
          <5>1. PICK l : K!Stay(w, l) /\ l = CASE round[w] >= MaxRounds     -> "mark_failed"
                                              [] run.status = "CANCELLING" -> "mark_cancelled"
                                              [] OTHER                     -> "start"
            BY <1>1, <3>1, <4>2 DEF K!StepRead
          <5> QED BY <5>1, <4>2, <2>2 DEF K!Terminal
        <4> QED BY <3>1, <4>1, <4>2
      <3> QED BY <3>2, <1>b
    <2> QED BY <2>1, <2>2
  <1>2. CASE K!MarkCancelled(w) \/ K!MarkFailed(w)
    <2>1. PICK l \in {"returned", "failed"} : K!Leave(w, l)
      BY <1>2 DEF K!MarkCancelled, K!MarkFailed
    <2> QED BY <2>1, <1>b
  <1>3. CASE K!RecordRaises(w) \/ K!CallRaises(w)
    <2>1. PICK l \in {"failed", "failure"} : K!Leave(w, l)
      BY <1>3, <1>a DEF K!RecordRaises, K!CallRaises, K!Raise
    <2> QED BY <2>1, <1>b
  <1>4. CASE K!FinalizeRead(w) \/ K!FailureRead(w)
    <2>1. PICK l \in {"returned", "failed", "finalizing", "failing"} :
            K!Leave(w, l) \/ K!Stay(w, l)
      BY <1>4 DEF K!FinalizeRead, K!FailureRead
    <2> QED BY <2>1, <1>b
  <1>5. CASE K!Finish(w)
    BY <1>5 DEF K!Finish, Working, K!Suspended, K!Segment, K!Deciding
  <1> QED BY <1>1, <1>2, <1>3, <1>4, <1>5 DEF Late, K!Step, K!StepStart, K!ModelReturn,
             K!RecordResponse, K!NextCall, K!RecordCall, K!ToolReturn, K!RecordResult,
             K!AskApproval, K!EndRound, K!Complete

(* A finished run is not written again, unless with the status it has. *)
LEMMA FinishedStays ==
  ASSUME NEW s \in K!Terminal, NEW t, K!CanTransition(s, t)
  PROVE  t = s
  BY DEF K!CanTransition, K!ValidTransitions, K!Terminal, K!Status

(* One worker in the process, and one process. *)
LEMMA OneWorker == ASSUME K!OneLoop PROVE \A v, w \in Worker : v = w
  BY AgentDaemonAssumption DEF K!OneLoop, K!Actor

(* What is written on one loop is decided on the row. *)
LEMMA OnRow ==
  ASSUME KP!Synced, NEW a \in K!Actor, pc[a] \in K!Deciding
  PROVE  hdr[a] = run
  BY SameSets DEF KP!Synced, KP!HeaderIsRow

(* The artifact comes with COMPLETED, and nothing comes after it. *)
LEMMA ArtifactKept ==
  ASSUME K!TypeOK, K!CompletedHasArtifact, K!OneArtifact,
         \/ run'.status = run.status /\ artifacts' = artifacts
         \/ /\ run.status # "COMPLETED" /\ run'.status # "COMPLETED"
            /\ artifacts' = artifacts
         \/ /\ run.status # "COMPLETED" /\ run'.status = "COMPLETED"
            /\ artifacts' = artifacts + 1
  PROVE  K!CompletedHasArtifact' /\ K!OneArtifact'
  <1>1. artifacts \in Nat
    BY DEF K!TypeOK
  <1> QED BY <1>1 DEF K!CompletedHasArtifact, K!OneArtifact

(* A step of an execution, and what the run has of it. *)
LEMMA SingleWorker ==
  ASSUME K!OneLoop, Single, NEW w \in Worker, K!Step(w)
  PROVE  NoneLate' /\ K!CompletedHasArtifact' /\ K!OneArtifact'
  <1>a. \A v \in Worker : v = w
    BY OneWorker
  <1>b. w \in K!Actor
    BY DEF K!Actor
  <1>1. CASE pc[w] \in {"idle", "returned", "failed"}
    <2>1. pc'[w] \notin Late /\ UNCHANGED <<run, artifacts>>
      BY <1>1, Finishing DEF Single, Late
    <2> QED BY <2>1, <1>a, ArtifactKept DEF Single, NoneLate
  <1>2. CASE pc[w] \in Working
    <2>1. WorkerWrote(w)
      BY <1>2, WorkerMoves DEF Single
    <2>2. pc'[w] \in Late /\ run'.status = run.status => run'.status # "COMPLETED"
      BY <1>2, Entering DEF Single, NoneLate, K!Terminal
    <2>3. CASE UNCHANGED <<run, artifacts>>
      BY <2>2, <2>3, <1>a, ArtifactKept DEF Single, NoneLate
    <2>4. ASSUME NEW s, NEW e, Wrote(w, s, e), pc[w] \in K!Deciding
          PROVE  run'.status = s /\ (run.status = "COMPLETED" => s = "COMPLETED")
      <3>1. hdr[w] = run
        BY <1>b, <2>4, OnRow DEF Single
      <3>2. "COMPLETED" \in K!Terminal
        BY DEF K!Terminal
      <3> QED BY <2>4, <3>1, <3>2, FinishedStays DEF Wrote
    <2>5. CASE pc[w] = "complete" /\ pc'[w] = "returned"
               /\ Wrote(w, "COMPLETED", <<"ARTIFACT_CREATED">>) /\ artifacts' = artifacts + 1
      <3>1. pc[w] \in K!Deciding /\ pc[w] \in Late /\ pc'[w] \notin Late
        BY <2>5 DEF K!Deciding, Late
      <3>2. run'.status = "COMPLETED" /\ run.status # "COMPLETED"
        BY <2>4, <2>5, <3>1 DEF Single, NoneLate
      <3> QED BY <2>5, <3>1, <3>2, <1>a, ArtifactKept DEF Single, NoneLate
    <2>6. ASSUME NEW s \in {"RUNNING", "AWAITING_APPROVAL", "CANCELLED", "FAILED"}, NEW e,
                 Wrote(w, s, e), pc[w] \in K!Deciding, artifacts' = artifacts
          PROVE  NoneLate' /\ K!CompletedHasArtifact' /\ K!OneArtifact'
      <3>1. run'.status # "COMPLETED" /\ run.status # "COMPLETED"
        BY <2>4, <2>6
      <3> QED BY <2>6, <3>1, ArtifactKept DEF Single, NoneLate
    <2> QED BY <2>1, <2>3, <2>5, <2>6 DEF WorkerWrote, K!Deciding
  <1> QED BY <1>1, <1>2 DEF Single, Placed, WorkerPC

(* A step of a request. *)
LEMMA SingleClient ==
  ASSUME K!OneLoop, ~InlineResume, Single, NEW c \in Client, Request(c)
  PROVE  NoneLate' /\ K!CompletedHasArtifact' /\ K!OneArtifact'
  <1>a. c \in K!Actor /\ Worker \subseteq K!Actor \ {c} /\ pc[c] \in ClientPC
    BY HalvesAssumption DEF K!Actor, K!RunKernelAssumption, Single, Placed
  <1>b. /\ K!Step(c) \/ K!Handle(c)
        /\ pc'[c] # "queueing" /\ ~(pc[c] = "idle" /\ pc'[c] = "step")
    BY Requesting
  <1>1. ClientWrote(c) /\ artifacts' = artifacts
    BY <1>a, <1>b, ClientMoves DEF Single
  <1>2. \A w \in Worker : pc'[w] \in Late => pc[w] \in Late
    <2>1. "finalize" \notin Late
      BY DEF Late
    <2> QED BY <1>a, <1>b, <2>1, ClientMoves DEF Single
  <1>3. CASE run' = run
    BY <1>1, <1>2, <1>3, ArtifactKept DEF Single, NoneLate
  <1>4. ASSUME NEW s \in {"CANCELLING", "QUEUED", "FAILED"}, NEW e, Wrote(c, s, e),
               pc[c] \in K!Deciding
        PROVE  NoneLate' /\ K!CompletedHasArtifact' /\ K!OneArtifact'
    <2>1. hdr[c] = run
      BY <1>a, <1>4, OnRow DEF Single
    <2>2. run'.status # "COMPLETED" /\ run.status # "COMPLETED"
      BY <1>4, <2>1, FinishedStays DEF Wrote, K!Terminal
    <2> QED BY <1>1, <2>2, ArtifactKept DEF Single, NoneLate
  <1> QED BY <1>1, <1>3, <1>4 DEF ClientWrote, K!Deciding

(* Every step of one process keeps the invariant. *)
LEMMA SingleNext ==
  ASSUME K!OneLoop, ~InlineResume, Single, [Next]_vars
  PROVE  Single'
  <1>1. K!TypeOK' /\ KP!CallPending'
    BY KernelTypes DEF Single
  <1>2. Placed'
    BY PlacedNext DEF Single
  <1>3. NoneLate' /\ K!CompletedHasArtifact' /\ K!OneArtifact'
    <2>1. CASE UNCHANGED <<run, artifacts, pc>>
      BY <2>1, ArtifactKept DEF Single, NoneLate
    <2>2. ASSUME NEW w \in Worker, Claim(w) PROVE NoneLate' /\ K!CompletedHasArtifact' /\ K!OneArtifact'
      <3>1. /\ pc'[w] \notin Late /\ UNCHANGED <<run, artifacts>>
            /\ \A b \in K!Actor \ {w} : pc'[b] = pc[b]
        BY <2>2, Beginning DEF Claim, Single, Late
      <3> QED BY <3>1, ArtifactKept DEF Single, NoneLate, K!Actor
    <2>3. ASSUME NEW w \in Worker, Execute(w) \/ Release(w) \/ AfterRelease(w)
          PROVE  NoneLate' /\ K!CompletedHasArtifact' /\ K!OneArtifact'
      BY <2>3, SingleWorker DEF Execute, Release, AfterRelease, K!Step
    <2>4. ASSUME NEW c \in Client, Continue(c)
          PROVE  NoneLate' /\ K!CompletedHasArtifact' /\ K!OneArtifact'
      <3>1. CASE Requeued /\ run.status \notin K!Terminal
        <4>1. run'.status = "QUEUED"
          BY <3>1 DEF Requeued, Single, K!TypeOK, K!Row
        <4> QED BY <3>1, <4>1, ArtifactKept DEF Requeued, Single, NoneLate, K!Terminal
      <3> QED BY <2>4, <3>1, <2>1 DEF Continue, Requeued
    <2>5. ASSUME NEW p \in Process, Crash(p)
          PROVE  NoneLate' /\ K!CompletedHasArtifact' /\ K!OneArtifact'
      <3>1. UNCHANGED <<run, artifacts>> /\ \A w \in Worker : pc'[w] \in {"idle", pc[w]}
        BY <2>5, Crashing DEF Crash, K!Actor
      <3> QED BY <3>1, ArtifactKept DEF Single, NoneLate, Late
    <2>6. ASSUME NEW w \in Worker, Start(w) \/ GiveUp(w) \/ Heartbeats(w)
          PROVE UNCHANGED <<run, artifacts, pc>>
      BY <2>6 DEF Start, GiveUp, Heartbeats
    <2>7. CASE Tick \/ UNCHANGED vars
      BY <2>1, <2>7 DEF Tick, vars
    <2> QED BY <2>1, <2>2, <2>3, <2>4, <2>5, <2>6, <2>7, SingleClient DEF Next
  <1>4. KP!Synced'
    <2>1. KP!OneLoop
      BY SameSets DEF K!OneLoop, KP!OneLoop
    <2>2. CASE [KP!Next]_(KP!vars)
      BY <2>1, <2>2, KernelConstants, SameTypes, KP!SyncedNext DEF Single
    <2>3. CASE ~[KP!Next]_(KP!vars)
      <3>1. PICK c \in Client : Continue(c) /\ Requeued
        BY <2>3, KernelStep
      <3>2. c \in KP!Actor /\ pc[c] = "idle" /\ KP!CanRun(c)
        BY <3>1 DEF Continue, Free, Single, Placed, KP!Actor, K!CanRun, KP!CanRun
      <3>3. \A b \in KP!Actor : pc[b] \notin KP!Segment
        BY <2>1, <3>2, KernelConstants, KP!Alone
           DEF Single, KP!Synced, KP!RunKernelAssumption, KP!Segment, KP!Deciding
      <3> QED BY <3>1, <3>3 DEF Requeued, KP!Synced, KP!LoopHeld, KP!HeaderIsRow, KP!Segment
    <2> QED BY <2>2, <2>3, KernelStep
  <1> QED BY <1>1, <1>2, <1>3, <1>4 DEF Single

(* One process, from the start on. *)
LEMMA SingleAlways == ASSUME K!OneLoop, ~InlineResume PROVE Spec => []Single
  <1>1. Init => Single
    <2> SUFFICES ASSUME Init PROVE Single
      OBVIOUS
    <2>1. K!Init /\ KP!Init
      BY SameSets DEF Init, Created, K!Init, KP!Init
    <2>2. K!TypeOK
      BY <2>1, KernelConstants, SameTypes, KP!TypeInit
    <2>3. KP!CallPending /\ KP!Synced
      BY <2>1 DEF KP!Init, KP!CallPending, KP!InCall, KP!Synced, KP!LoopHeld, KP!HeaderIsRow,
                  KP!Segment, KP!Deciding
    <2>4. Placed /\ NoneLate
      BY <2>1 DEF Init, K!Init, Placed, NoneLate, WorkerPC, ClientPC, Late, K!Actor
    <2>5. K!CompletedHasArtifact /\ K!OneArtifact
      BY <2>1 DEF K!Init, K!CompletedHasArtifact, K!OneArtifact
    <2> QED BY <2>2, <2>3, <2>4, <2>5 DEF Single
  <1>2. Single /\ [Next]_vars => Single'
    BY SingleNext
  <1> QED BY <1>1, <1>2, PTL DEF Spec

(* The run has at most one artifact in one process, however often that     *)
(* process dies, heartbeats fail, writes fail or approvals are decided     *)
(* again: the row of the queue alone is what keeps a second execution out. *)
THEOREM ArtifactIsOne ==
  ASSUME K!OneLoop, ~InlineResume
  PROVE  Spec => []OneArtifact
  <1>1. Single => OneArtifact
    BY DEF Single, OneArtifact
  <1> QED BY <1>1, SingleAlways, PTL

-----------------------------------------------------------------------------
(* The queue and the kernel keep out of each other's way: nobody dies, no  *)
(* heartbeat fails, and one process takes the requests.                    *)

Calm ==
    /\ Timely /\ ~HeartbeatFaults /\ MaxCrashes = 0
    /\ ~InlineResume /\ ~Resubmission
    /\ \A c, d \in Client : Home[c] = Home[d]

Idle == \A w \in Worker : duty[w] # "executing"

Waiting == \E ap \in Approval : approval[ap] = "pending"

(* Each loop does what its execution needs. *)
Duties ==
    \A w \in Worker :
        /\ duty[w] \in {"down", "polling"} => pc[w] = "idle"
        /\ duty[w] = "executing" => pc[w] \in Working
        /\ duty[w] = "ended" => pc[w] \in {"returned", "failed"}

(* An execution has the claim of the run, and a claim has its worker. *)
ClaimHeld ==
    /\ \A w \in Worker : duty[w] \in {"executing", "ended"} => holds[w] = r /\ beat[w]
    /\ \A w \in Worker : duty[w] = "executing" => Q!Owns(w, r)
    /\ row[r].status = "running" =>
         /\ row[r].left > 0 /\ row[r].worker \in Worker
         /\ duty[row[r].worker] \in {"executing", "ended"}

(* The run is queued, or executed, or about to be queued, or waits for one *)
(* approval: never two of these at a time.                                 *)
Baton ==
    /\ \A c \in owes : owes = {c}
    /\ owes # {} => row[r].status # "queued" /\ Idle
    /\ Waiting => row[r].status # "queued" /\ Idle /\ owes = {}
    /\ \A ap, bp \in Approval :
         approval[ap] = "pending" /\ approval[bp] = "pending" => ap = bp
    /\ run.status = "AWAITING_APPROVAL" => Waiting
    /\ \A c \in Client : pc[c] \in {"approving", "denying"} => approval[target[c]] = "pending"

Types == K!TypeOK /\ KP!CallPending /\ Q!TypeOK /\ crashes \in Nat

OneBaton == Types /\ Placed /\ K!LoopHeld /\ Duties /\ ClaimHeld /\ Baton

(* There is one run. *)
LEMMA OneRun == r \in Run /\ \A x \in Run : x = r
  <1>1. PICK x \in Run : Run = {x}
    BY AgentDaemonAssumption
  <1> QED BY <1>1 DEF r

(* The queue of the daemon is the one its proofs are about. *)
LEMMA SameTable == (Q!TypeOK <=> QP!TypeOK) /\ (Q!TypeOK' <=> QP!TypeOK')
  BY DEF Q!TypeOK, QP!TypeOK, Q!Entry, QP!Entry, Q!Settled, QP!Settled, Q!Note, QP!Note

(* A row that is inserted is the latest one. *)
LEMMA SameInsert ==
  ASSUME NEW x, NEW status, NEW worker, NEW left, NEW attempts,
         Q!Insert(x, status, worker, left, attempts)
  PROVE  QP!Insert(x, status, worker, left, attempts)
  BY DEF Q!Insert, QP!Insert, Q!Present, QP!Present

(* A step of the daemon is a step of the queue. *)
LEMMA QueueStep ==
  ASSUME [Next]_vars
  PROVE  [QP!Next]_(QP!vars)
  <1> USE DEF QP!vars, QP!table, QP!loops, Q!table, Q!loops
  <1>1. CASE Tick
    BY <1>1 DEF Tick, Q!Tick, QP!Tick, Q!Owns, QP!Owns, QP!Next
  <1>2. ASSUME NEW w \in Worker, QP!Work(w) PROVE QP!Next
    BY <1>2 DEF QP!Next
  <1>3. ASSUME NEW w \in Worker, Start(w) PROVE QP!Work(w)
    BY <1>3 DEF Start, Q!Start, QP!Start, Q!Stalled, QP!Stalled, Q!Present, QP!Present, QP!Work
  <1>4. ASSUME NEW w \in Worker, GiveUp(w) PROVE QP!Work(w)
    BY <1>4, SameInsert DEF GiveUp, Q!DeadLetter, QP!DeadLetter, Q!First, QP!First,
       Q!Claimable, QP!Claimable, QP!Work, QP!Poll
  <1>5. ASSUME NEW w \in Worker, Claim(w) PROVE QP!Work(w)
    BY <1>5, SameInsert DEF Claim, Q!ClaimAtomic, QP!ClaimAtomic, Q!First, QP!First,
       Q!Claimable, QP!Claimable, QP!Work, QP!Poll
  <1>6. ASSUME NEW w \in Worker, Execute(w) PROVE QP!Work(w) \/ UNCHANGED QP!vars
    BY <1>6 DEF Execute, Q!End, QP!End, QP!Work
  <1>7. ASSUME NEW w \in Worker, Release(w) PROVE QP!Work(w)
    BY <1>7, SameInsert DEF Release, Q!ReleaseClaim, QP!ReleaseClaim, Q!Owns, QP!Owns, QP!Work
  <1>8. ASSUME NEW w \in Worker, Heartbeats(w) PROVE QP!Work(w)
    BY <1>8 DEF Heartbeats, Q!Heartbeat, QP!Heartbeat, Q!HeartbeatDies, QP!HeartbeatDies,
                Q!Owns, QP!Owns, QP!Work
  <1>9. ASSUME NEW c \in Client, Continue(c) PROVE QP!Next \/ UNCHANGED QP!vars
    <2>1. CASE Q!AppendStatus(c, r)
      <3>1. QP!AppendStatus(c, r)
        BY <2>1, SameInsert DEF Q!AppendStatus, QP!AppendStatus
      <3> QED BY <3>1, OneRun DEF QP!Next, QP!Produce
    <2> QED BY <1>9, <2>1 DEF Continue
  <1>10. ASSUME NEW p \in Process, Crash(p) PROVE QP!Next \/ UNCHANGED QP!vars
    BY <1>10 DEF Crash, Q!Crash, QP!Crash, QP!Work, QP!Next
  <1>11. ASSUME NEW a, AfterRelease(a) \/ Request(a) PROVE UNCHANGED QP!vars
    BY <1>11 DEF AfterRelease, Request
  <1>12. CASE UNCHANGED vars
    BY <1>12 DEF vars
  <1> QED BY <1>1, <1>2, <1>3, <1>4, <1>5, <1>6, <1>7, <1>8, <1>9, <1>10, <1>11, <1>12 DEF Next

(* The types of the whole daemon. *)
LEMMA TypesNext ==
  ASSUME Types, [Next]_vars
  PROVE  Types'
  <1>1. K!TypeOK' /\ KP!CallPending'
    BY KernelTypes DEF Types
  <1>2. Q!TypeOK'
    BY QueueStep, QueueConstants, SameTable, QP!TypeNext DEF Types
  <1>3. crashes' \in Nat
    <2>1. CASE \E p \in Process : Crash(p)
      BY <2>1 DEF Types, Crash
    <2>2. crashes' = crashes \/ \E p \in Process : Crash(p)
      BY DEF Next, Tick, Start, GiveUp, Claim, Execute, Release, AfterRelease, Heartbeats,
             Request, Continue, vars
    <2> QED BY <2>1, <2>2 DEF Types
  <1> QED BY <1>1, <1>2, <1>3 DEF Types

(* What the operations of the queue do to the one row. *)

(* A new row of the run. *)
LEMMA Inserting ==
  ASSUME Q!TypeOK, NEW status, NEW worker, NEW left, NEW attempts,
         Q!Insert(r, status, worker, left, attempts)
  PROVE  row'[r] = [status |-> status, worker |-> worker, left |-> left, attempts |-> attempts]
  BY OneRun DEF Q!Insert, Q!TypeOK

(* Leases run, but not out. *)
LEMMA Ticking ==
  ASSUME Calm, Types, ClaimHeld, Q!Tick
  PROVE  /\ row'[r].status = row[r].status /\ row'[r].worker = row[r].worker
         /\ row'[r].attempts = row[r].attempts
         /\ row[r].status = "running" => row'[r].left > 0
         /\ UNCHANGED <<duty, holds, beat, appends>>
  <1>1. row[r] \in Q!Entry
    BY OneRun DEF Types, Q!TypeOK
  <1>2. row'[r] = IF row[r].status = "running" /\ row[r].left > 0
                  THEN [row[r] EXCEPT !.left = row[r].left - 1] ELSE row[r]
    BY OneRun DEF Q!Tick
  <1>3. UNCHANGED <<duty, holds, beat, appends>>
    BY DEF Q!Tick, Q!loops
  <1>4. ASSUME row[r].status = "running" PROVE row[r].left > 1
    <2>1. /\ row[r].left > 0 /\ row[r].worker \in Worker
          /\ holds[row[r].worker] = r /\ beat[row[r].worker]
      BY <1>4 DEF ClaimHeld
    <2>2. Q!Owns(row[r].worker, r)
      BY <1>4 DEF Q!Owns
    <2>3. row[r].left # 1
      BY <2>1, <2>2, OneRun DEF Q!Tick, Calm
    <2> QED BY <1>1, <2>1, <2>3 DEF Q!Entry
  <1> QED BY <1>1, <1>2, <1>3, <1>4 DEF Q!Entry

(* A worker that starts finds nothing to recover. *)
LEMMA Starting ==
  ASSUME Types, ClaimHeld, NEW w \in Worker, Q!Start(w)
  PROVE  /\ row'[r] = row[r] /\ duty[w] = "down" /\ duty'[w] = "polling"
         /\ \A v \in Worker \ {w} : duty'[v] = duty[v]
         /\ UNCHANGED <<holds, beat, appends>>
  <1>1. r \notin Q!Stalled
    BY DEF ClaimHeld, Q!Stalled
  <1> QED BY <1>1, OneRun DEF Q!Start, Types, Q!TypeOK

(* Only a queued run is handed out, or given up. *)
LEMMA Serving ==
  ASSUME Types, ClaimHeld, NEW x \in Run, Q!First(x)
  PROVE  x = r /\ row[r].status = "queued"
  BY OneRun DEF Q!First, Q!Claimable, ClaimHeld

(* A run whose attempts are used up. *)
LEMMA GivingUp ==
  ASSUME Types, ClaimHeld, NEW w \in Worker, Q!DeadLetter(w)
  PROVE  /\ row[r].status = "queued" /\ row'[r].status = "dead_letter"
         /\ row[r].attempts + 1 > MaxAttempts /\ row'[r].attempts = row[r].attempts
         /\ UNCHANGED <<duty, holds, beat, appends>>
  <1>1. PICK x \in Run : /\ Q!First(x) /\ row[x].attempts + 1 > MaxAttempts
                         /\ Q!Insert(x, "dead_letter", NoActor, 0, row[x].attempts)
    BY DEF Q!DeadLetter
  <1>2. x = r /\ row[r].status = "queued"
    BY <1>1, Serving
  <1>3. row'[r] = [status |-> "dead_letter", worker |-> NoActor, left |-> 0,
                   attempts |-> row[r].attempts]
    BY <1>1, <1>2, Inserting DEF Types
  <1>4. UNCHANGED <<duty, holds, beat, appends>>
    BY DEF Q!DeadLetter, Q!loops
  <1> QED BY <1>1, <1>2, <1>3, <1>4

(* A claim. *)
LEMMA Claiming ==
  ASSUME Types, ClaimHeld, NEW w \in Worker, Q!ClaimAtomic(w)
  PROVE  /\ row[r].status = "queued" /\ duty[w] = "polling"
         /\ row'[r].status = "running" /\ row'[r].worker = w /\ row'[r].left > 0
         /\ row'[r].attempts = row[r].attempts + 1 /\ row[r].attempts + 1 <= MaxAttempts
         /\ duty'[w] = "executing" /\ holds'[w] = r /\ beat'[w]
         /\ \A v \in Worker \ {w} : duty'[v] = duty[v] /\ holds'[v] = holds[v] /\ beat'[v] = beat[v]
         /\ appends' = appends
  <1>1. PICK x \in Run : /\ Q!First(x) /\ row[x].attempts + 1 <= MaxAttempts
                         /\ Q!Insert(x, "running", w, LeaseTicks, row[x].attempts + 1)
                         /\ holds' = [holds EXCEPT ![w] = x]
    BY DEF Q!ClaimAtomic
  <1>2. x = r /\ row[r].status = "queued"
    BY <1>1, Serving
  <1>3. row'[r] = [status |-> "running", worker |-> w, left |-> LeaseTicks,
                   attempts |-> row[r].attempts + 1]
    BY <1>1, <1>2, Inserting DEF Types
  <1>4. LeaseTicks > 0
    BY HalvesAssumption DEF Q!RunQueueAssumption
  <1>5. /\ duty' = [duty EXCEPT ![w] = "executing"] /\ beat' = [beat EXCEPT ![w] = TRUE]
        /\ duty[w] = "polling" /\ appends' = appends
    BY DEF Q!ClaimAtomic
  <1>6. /\ duty'[w] = "executing" /\ holds'[w] = r /\ beat'[w]
        /\ \A v \in Worker \ {w} : duty'[v] = duty[v] /\ holds'[v] = holds[v] /\ beat'[v] = beat[v]
    BY <1>1, <1>2, <1>5 DEF Types, Q!TypeOK
  <1> QED BY <1>1, <1>2, <1>3, <1>4, <1>5, <1>6

(* A claim that is released. *)
LEMMA Releasing ==
  ASSUME Types, ClaimHeld, NEW w \in Worker, Q!ReleaseClaim(w)
  PROVE  /\ duty[w] = "ended" /\ duty'[w] = "polling"
         /\ IF Q!Owns(w, r) THEN /\ row'[r].status \in {"done", "failed", "cancelled"}
                                 /\ row'[r].attempts = row[r].attempts
                            ELSE row'[r] = row[r]
         /\ \A v \in Worker \ {w} : duty'[v] = duty[v] /\ holds'[v] = holds[v] /\ beat'[v] = beat[v]
         /\ appends' = appends
  <1>1. PICK final \in {"done", "failed", "cancelled"} :
          IF Q!Owns(w, r) THEN Q!Insert(r, final, w, 0, row[r].attempts) ELSE UNCHANGED row
    BY OneRun DEF Q!ReleaseClaim, Q!table
  <1>2. /\ duty' = [duty EXCEPT ![w] = "polling"] /\ beat' = [beat EXCEPT ![w] = FALSE]
        /\ holds' = [holds EXCEPT ![w] = NoActor] /\ duty[w] = "ended" /\ appends' = appends
    BY DEF Q!ReleaseClaim
  <1>3. /\ duty'[w] = "polling"
        /\ \A v \in Worker \ {w} : duty'[v] = duty[v] /\ holds'[v] = holds[v] /\ beat'[v] = beat[v]
    BY <1>2 DEF Types, Q!TypeOK
  <1>4. Q!Owns(w, r) => row'[r] = [status |-> final, worker |-> w, left |-> 0,
                                   attempts |-> row[r].attempts]
    BY <1>1, Inserting DEF Types
  <1> QED BY <1>1, <1>2, <1>3, <1>4

(* A lease that is renewed. *)
LEMMA Beating ==
  ASSUME Calm, Types, NEW w \in Worker, Heartbeats(w)
  PROVE  /\ row'[r].status = row[r].status /\ row'[r].worker = row[r].worker
         /\ row'[r].attempts = row[r].attempts /\ row'[r].left > 0
         /\ UNCHANGED <<duty, holds, beat, appends>>
  <1>1. Q!Heartbeat(w)
    BY DEF Heartbeats, Q!HeartbeatDies, Calm
  <1>2. row' = [row EXCEPT ![r] = [row[r] EXCEPT !.left = LeaseTicks]]
    BY <1>1, OneRun DEF Q!Heartbeat
  <1>3. row[r] \in Q!Entry /\ row'[r] = [row[r] EXCEPT !.left = LeaseTicks]
    BY <1>2, OneRun DEF Types, Q!TypeOK
  <1>4. LeaseTicks > 0
    BY HalvesAssumption DEF Q!RunQueueAssumption
  <1> QED BY <1>1, <1>3, <1>4 DEF Q!Heartbeat, Q!Entry, Q!loops

(* A row that a request appends. *)
LEMMA Appending ==
  ASSUME Types, NEW c \in Client, Q!AppendStatus(c, r)
  PROVE  /\ row'[r].status = "queued" /\ row'[r].attempts = row[r].attempts
         /\ UNCHANGED <<duty, holds, beat>>
  <1>1. Q!Insert(r, "queued", NoActor, 0, row[r].attempts)
    BY DEF Q!AppendStatus
  <1>2. row'[r] = [status |-> "queued", worker |-> NoActor, left |-> 0,
                   attempts |-> row[r].attempts]
    BY <1>1, Inserting DEF Types
  <1>3. UNCHANGED <<duty, holds, beat>>
    BY DEF Q!AppendStatus, Q!loops
  <1> QED BY <1>2, <1>3

(* A coroutine between a read and its write has its loop for itself. *)
LEMMA OneInSegment ==
  ASSUME K!LoopHeld, NEW a \in K!Actor, K!CanRun(a) \/ pc[a] \in K!Segment,
         NEW b \in K!Actor, b # a, Home[b] = Home[a]
  PROVE  pc[b] \notin K!Segment
  BY HalvesAssumption DEF K!RunKernelAssumption, K!LoopHeld, K!CanRun

(* A coroutine that runs leaves those of its loop outside of segments, and *)
(* the loops of others alone.                                              *)
LEMMA LoopKept ==
  ASSUME K!LoopHeld, NEW a \in K!Actor, K!CanRun(a), LoopOf(a),
         \A b \in K!Actor \ {a} : pc'[b] = pc[b] \/ pc'[b] = "finalize"
  PROVE  K!LoopHeld'
  <1>1. "finalize" \notin K!Segment
    BY DEF K!Segment, K!Deciding
  <1>2. ASSUME NEW b \in K!Actor, pc'[b] \in K!Segment, b # a PROVE loop'[Home[b]] = b
    <2>1. pc[b] \in K!Segment
      BY <1>1, <1>2
    <2>2. Home[b] # Home[a]
      BY <1>2, <2>1, OneInSegment
    <2>3. Home[b] \in Process
      BY HalvesAssumption DEF K!RunKernelAssumption
    <2> QED BY <2>1, <2>2, <2>3 DEF LoopOf, K!LoopHeld
  <1> QED BY <1>2 DEF LoopOf, K!LoopHeld

(* Nobody dies. *)
LEMMA NobodyDies == ASSUME Calm, Types, NEW p \in Process PROVE ~Crash(p)
  BY DEF Calm, Types, Crash

(* In any number of processes, segments are never interleaved on one loop. *)
LEMMA LoopHeldNext ==
  ASSUME Calm, Types, Placed, K!LoopHeld, [Next]_vars
  PROVE  K!LoopHeld'
  <1>0. K!Actor = Worker \cup Client
    BY DEF K!Actor
  <1>1. CASE UNCHANGED <<pc, loop>>
    BY <1>1 DEF K!LoopHeld
  <1>2. ASSUME NEW w \in Worker, K!Step(w), Free(w) PROVE K!LoopHeld'
    <2>1. CASE pc[w] \in Working
      <3>1. LoopOf(w) /\ \A b \in K!Actor \ {w} : pc'[b] = pc[b]
        BY <1>2, <2>1, WorkerMoves DEF Types
      <3> QED BY <1>0, <1>2, <3>1, LoopKept DEF Free
    <2>2. CASE pc[w] \in {"idle", "returned", "failed"}
      <3>1. LoopOf(w) /\ \A b \in K!Actor \ {w} : pc'[b] = pc[b]
        BY <1>2, <2>2, Finishing DEF Types
      <3> QED BY <1>0, <1>2, <3>1, LoopKept DEF Free
    <2> QED BY <2>1, <2>2 DEF Placed, WorkerPC
  <1>3. ASSUME NEW w \in Worker, Claim(w) PROVE K!LoopHeld'
    <2>1. /\ pc'[w] = "begin" /\ loop' = loop
          /\ \A b \in K!Actor \ {w} : pc'[b] = pc[b]
      BY <1>3, Beginning DEF Claim, Types
    <2>2. "begin" \notin K!Segment
      BY DEF K!Segment, K!Deciding
    <2> QED BY <2>1, <2>2 DEF K!LoopHeld
  <1>4. ASSUME NEW w \in Worker, Execute(w) \/ Release(w) \/ AfterRelease(w) PROVE K!LoopHeld'
    BY <1>2, <1>4 DEF Execute, Release, AfterRelease, K!Step
  <1>5. ASSUME NEW c \in Client, Request(c) PROVE K!LoopHeld'
    <2>1. /\ K!Step(c) \/ K!Handle(c)
          /\ pc'[c] # "queueing" /\ ~(pc[c] = "idle" /\ pc'[c] = "step") /\ Free(c)
      BY <1>5, Requesting DEF Calm
    <2>2. pc[c] \in ClientPC
      BY DEF Placed
    <2>3. LoopOf(c) /\ \A b \in K!Actor \ {c} : pc'[b] = pc[b] \/ pc'[b] = "finalize"
      BY <2>1, <2>2, ClientMoves DEF Types
    <2> QED BY <1>0, <2>1, <2>3, LoopKept DEF Free
  <1>6. ASSUME NEW c \in Client, Continue(c) PROVE UNCHANGED <<pc, loop>>
    BY <1>6 DEF Continue
  <1>7. ASSUME NEW w \in Worker, Start(w) \/ GiveUp(w) \/ Heartbeats(w) PROVE UNCHANGED <<pc, loop>>
    BY <1>7 DEF Start, GiveUp, Heartbeats
  <1>8. CASE Tick \/ UNCHANGED vars
    BY <1>1, <1>8 DEF Tick, vars
  <1> QED BY <1>1, <1>3, <1>4, <1>5, <1>6, <1>7, <1>8, NobodyDies DEF Next

-----------------------------------------------------------------------------
(* The baton. *)

(* While a worker executes the run, nobody else has anything to do. *)
LEMMA Alone ==
  ASSUME OneBaton, NEW w \in Worker, duty[w] = "executing"
  PROVE  /\ Q!Owns(w, r) /\ \A v \in Worker \ {w} : duty[v] # "executing"
         /\ owes = {} /\ ~Waiting /\ run.status # "AWAITING_APPROVAL"
         /\ \A c \in Client : pc[c] \notin {"approving", "denying"}
  <1>1. Q!Owns(w, r) /\ \A v \in Worker \ {w} : duty[v] # "executing"
    BY DEF OneBaton, ClaimHeld, Q!Owns
  <1>2. ~Idle
    BY DEF Idle
  <1>3. owes = {} /\ ~Waiting /\ run.status # "AWAITING_APPROVAL"
    BY <1>2 DEF OneBaton, Baton
  <1>4. \A c \in Client : pc[c] \notin {"approving", "denying"}
    BY <1>3 DEF OneBaton, Baton, Waiting, Types, K!TypeOK, K!Actor
  <1> QED BY <1>1, <1>3, <1>4

(* A step of an execution changes no row of the queue. *)
LEMMA Ending ==
  ASSUME Types, NEW w \in Worker, Execute(w)
  PROVE  /\ UNCHANGED <<row, holds, beat, appends, owes>>
         /\ duty'[w] = IF pc'[w] \in {"returned", "failed"} THEN "ended" ELSE "executing"
         /\ \A v \in Worker \ {w} : duty'[v] = duty[v]
  BY DEF Execute, Q!End, Q!table, Types, Q!TypeOK

(* The last step of an execution may pass the baton to an approval. *)
LEMMA BatonExecute ==
  ASSUME OneBaton, NEW w \in Worker, Execute(w)
  PROVE  Duties' /\ ClaimHeld' /\ Baton'
  <1>1. /\ duty[w] = "executing" /\ pc[w] \in Working /\ K!Step(w)
    BY DEF Execute, OneBaton, Duties
  <1>2. /\ pc'[w] \in Working \cup {"returned", "failed"}
        /\ \A b \in K!Actor \ {w} : pc'[b] = pc[b]
        /\ target' = target /\ WorkerWrote(w)
    BY <1>1, WorkerMoves DEF OneBaton, Types
  <1>3. Worker \cap Client = {} /\ K!Actor = Worker \cup Client
    BY HalvesAssumption DEF K!RunKernelAssumption, K!Actor
  <1>4. /\ UNCHANGED <<row, holds, beat, owes>>
        /\ duty'[w] = IF pc'[w] \in {"returned", "failed"} THEN "ended" ELSE "executing"
        /\ \A v \in Worker \ {w} : duty'[v] = duty[v]
    BY Ending DEF OneBaton
  <1>5. /\ Q!Owns(w, r) /\ \A v \in Worker \ {w} : duty[v] # "executing"
        /\ owes = {} /\ ~Waiting /\ run.status # "AWAITING_APPROVAL"
        /\ \A c \in Client : pc[c] \notin {"approving", "denying"}
    BY <1>1, Alone
  <1>6. Duties'
    <2>1. duty'[w] = "executing" => pc'[w] \in Working
      BY <1>2, <1>4
    <2>2. duty'[w] = "ended" => pc'[w] \in {"returned", "failed"}
      BY <1>4
    <2>3. duty'[w] \in {"executing", "ended"}
      BY <1>4
    <2> QED BY <1>2, <1>3, <1>4, <2>1, <2>2, <2>3 DEF Duties, OneBaton
  <1>7. ClaimHeld'
    <2>1. \A v \in Worker : duty'[v] = "executing" => duty[v] = "executing"
      BY <1>1, <1>4
    <2>2. \A v \in Worker : duty'[v] \in {"executing", "ended"} <=> duty[v] \in {"executing", "ended"}
      BY <1>1, <1>4
    <2> QED BY <1>4, <2>1, <2>2 DEF ClaimHeld, OneBaton, Q!Owns
  <1>8. Baton'
    <2>1. \A c \in Client : pc'[c] \notin {"approving", "denying"}
      BY <1>2, <1>3, <1>5
    <2>2. CASE approval' = approval /\ run'.status # "AWAITING_APPROVAL"
      BY <1>4, <1>5, <2>1, <2>2 DEF Baton, Waiting
    <2>3. ASSUME NEW ap \in Approval, pc'[w] = "returned",
                 approval' = [approval EXCEPT ![ap] = "pending"]
          PROVE  Baton'
      <3>1. Idle'
        BY <1>4, <1>5, <2>3 DEF Idle
      <3>2. approval'[ap] = "pending" /\ \A bp \in Approval \ {ap} : approval'[bp] # "pending"
        BY <1>5, <2>3 DEF OneBaton, Types, K!TypeOK, Waiting
      <3>3. row'[r].status # "queued"
        BY <1>4, <1>5 DEF Q!Owns
      <3> QED BY <1>4, <1>5, <2>1, <3>1, <3>2, <3>3 DEF Baton, Waiting
    <2>4. \/ approval' = approval /\ run'.status # "AWAITING_APPROVAL"
          \/ pc'[w] = "returned"
             /\ \E ap \in Approval : approval' = [approval EXCEPT ![ap] = "pending"]
      BY <1>2, <1>5 DEF WorkerWrote, Wrote
    <2> QED BY <2>2, <2>3, <2>4
  <1> QED BY <1>6, <1>7, <1>8

(* A claim takes the baton from the queue. *)
LEMMA BatonClaim ==
  ASSUME OneBaton, NEW w \in Worker, Claim(w)
  PROVE  Duties' /\ ClaimHeld' /\ Baton'
  <1>1. /\ pc[w] = "idle" /\ pc'[w] = "begin"
        /\ \A b \in K!Actor \ {w} : pc'[b] = pc[b]
        /\ UNCHANGED <<run, approval, target, owes>>
    BY Beginning DEF Claim, OneBaton, Types
  <1>2. /\ row[r].status = "queued"
        /\ row'[r].status = "running" /\ row'[r].worker = w /\ row'[r].left > 0
        /\ duty'[w] = "executing" /\ holds'[w] = r /\ beat'[w]
        /\ \A v \in Worker \ {w} : duty'[v] = duty[v] /\ holds'[v] = holds[v] /\ beat'[v] = beat[v]
    BY Claiming DEF Claim, OneBaton
  <1>3. Worker \cap Client = {} /\ K!Actor = Worker \cup Client
    BY HalvesAssumption DEF K!RunKernelAssumption, K!Actor
  <1>4. Idle
    BY <1>2, Alone DEF Idle, Q!Owns
  <1>5. Duties'
    <2>1. "begin" \in Working
      BY DEF Working, K!Suspended
    <2> QED BY <1>1, <1>2, <1>3, <2>1 DEF OneBaton, Duties
  <1>6. ClaimHeld'
    BY <1>2, <1>4 DEF OneBaton, ClaimHeld, Idle, Q!Owns
  <1>7. Baton'
    <2>1. owes = {} /\ ~Waiting
      BY <1>2 DEF OneBaton, Baton
    <2>2. \A c \in Client : pc'[c] = pc[c]
      BY <1>1, <1>3
    <2> QED BY <1>1, <2>1, <2>2 DEF OneBaton, Baton, Waiting
  <1> QED BY <1>5, <1>6, <1>7

(* A release ends the claim of its worker and no other. *)
LEMMA BatonRelease ==
  ASSUME Calm, OneBaton, NEW w \in Worker, Release(w)
  PROVE  Duties' /\ ClaimHeld' /\ Baton' /\ UNCHANGED <<run, log, approval, appends>>
  <1>1. /\ duty[w] = "ended" /\ duty'[w] = "polling"
        /\ IF Q!Owns(w, r) THEN row'[r].status \in {"done", "failed", "cancelled"}
                           ELSE row'[r] = row[r]
        /\ \A v \in Worker \ {w} : duty'[v] = duty[v] /\ holds'[v] = holds[v] /\ beat'[v] = beat[v]
        /\ appends' = appends
    BY Releasing DEF Release, OneBaton
  <1>2. pc[w] \in {"returned", "failed"} /\ beat[w]
    BY <1>1 DEF OneBaton, Duties, ClaimHeld
  <1>3. /\ \A b \in K!Actor \ {w} : pc'[b] = pc[b]
        /\ UNCHANGED <<run, log, approval, target>>
    BY <1>2, Finishing DEF Release, K!Step, OneBaton, Types
  <1>4. pc'[w] = "idle" /\ owes' = owes
    BY <1>2 DEF Release
  <1>5. Worker \cap Client = {} /\ K!Actor = Worker \cup Client
    BY HalvesAssumption DEF K!RunKernelAssumption, K!Actor
  <1>6. Duties'
    BY <1>1, <1>3, <1>4, <1>5 DEF OneBaton, Duties
  <1>7. ClaimHeld'
    <2>1. CASE Q!Owns(w, r)
      BY <1>1, <2>1 DEF OneBaton, ClaimHeld, Q!Owns
    <2>2. CASE ~Q!Owns(w, r)
      BY <1>1, <2>2 DEF OneBaton, ClaimHeld, Q!Owns
    <2> QED BY <2>1, <2>2
  <1>8. Baton'
    <2>1. \A c \in Client : pc'[c] = pc[c]
      BY <1>3, <1>5
    <2>2. row[r].status # "queued" => row'[r].status # "queued"
      BY <1>1
    <2>3. Idle => Idle'
      BY <1>1 DEF Idle
    <2> QED BY <1>3, <1>4, <2>1, <2>2, <2>3 DEF OneBaton, Baton, Waiting
  <1> QED BY <1>1, <1>3, <1>6, <1>7, <1>8

(* Time, starts, runs that are given up and heartbeats change no run. *)
LEMMA BatonQueue ==
  ASSUME Calm, OneBaton,
         Tick \/ \E w \in Worker : Start(w) \/ GiveUp(w) \/ Heartbeats(w)
  PROVE  Duties' /\ ClaimHeld' /\ Baton' /\ UNCHANGED <<run, log, approval, pc, appends>>
  <1>1. UNCHANGED <<run, log, approval, pc, target, owes>>
    BY DEF Tick, Start, GiveUp, Heartbeats
  <1>2. ASSUME row'[r].status = row[r].status \/ row'[r].status = "dead_letter",
               \A w \in Worker : duty'[w] = duty[w] \/ duty'[w] = "polling"
        PROVE  Baton'
    <2>1. Idle => Idle'
      BY <1>2 DEF Idle
    <2> QED BY <1>1, <1>2, <2>1 DEF OneBaton, Baton, Waiting
  <1>3. CASE \E w \in Worker : Start(w)
    <2>1. PICK w \in Worker : Start(w)
      BY <1>3
    <2>2. /\ row'[r] = row[r] /\ duty[w] = "down" /\ duty'[w] = "polling"
          /\ \A v \in Worker \ {w} : duty'[v] = duty[v]
          /\ UNCHANGED <<holds, beat, appends>>
      BY <2>1, Starting DEF Start, OneBaton
    <2>3. Duties'
      BY <1>1, <2>2 DEF OneBaton, Duties
    <2>4. ClaimHeld'
      <3>1. \A v \in Worker : duty'[v] \in {"executing", "ended"} <=> duty[v] \in {"executing", "ended"}
        BY <2>2
      <3>2. \A v \in Worker : duty'[v] = "executing" => duty[v] = "executing"
        BY <2>2
      <3> QED BY <2>2, <3>1, <3>2 DEF OneBaton, ClaimHeld, Q!Owns
    <2> QED BY <1>1, <1>2, <2>2, <2>3, <2>4
  <1>4. ASSUME row'[r].status = row[r].status \/ row'[r].status = "dead_letter",
               row'[r].status = "dead_letter" => row[r].status # "running",
               row'[r].status = "running" => /\ row'[r].worker = row[r].worker
                                             /\ row'[r].left > 0,
               UNCHANGED <<duty, holds, beat, appends>>
        PROVE  Duties' /\ ClaimHeld' /\ Baton' /\ UNCHANGED <<run, log, approval, pc, appends>>
    <2>1. Duties'
      BY <1>1, <1>4 DEF OneBaton, Duties
    <2>2. row[r].status = "running" => row'[r].status = "running"
      BY <1>4
    <2>3. ClaimHeld'
      BY <1>4, <2>2 DEF OneBaton, ClaimHeld, Q!Owns
    <2> QED BY <1>1, <1>2, <1>4, <2>1, <2>3
  <1>5. CASE Tick
    <2>1. /\ row'[r].status = row[r].status /\ row'[r].worker = row[r].worker
          /\ row[r].status = "running" => row'[r].left > 0
          /\ UNCHANGED <<duty, holds, beat, appends>>
      BY <1>5, Ticking DEF Tick, OneBaton
    <2>2. row[r].status # "dead_letter" \/ row[r].status # "running"
      OBVIOUS
    <2> QED BY <1>4, <2>1, <2>2
  <1>6. CASE \E w \in Worker : GiveUp(w)
    <2>1. /\ row[r].status = "queued" /\ row'[r].status = "dead_letter"
          /\ UNCHANGED <<duty, holds, beat, appends>>
      BY <1>6, GivingUp DEF GiveUp, OneBaton
    <2> QED BY <1>4, <2>1
  <1>7. CASE \E w \in Worker : Heartbeats(w)
    <2>1. /\ row'[r].status = row[r].status /\ row'[r].worker = row[r].worker
          /\ row'[r].left > 0
          /\ UNCHANGED <<duty, holds, beat, appends>>
      BY <1>7, Beating DEF OneBaton
    <2> QED BY <1>4, <2>1
  <1> QED BY <1>3, <1>5, <1>6, <1>7

(* A request passes the baton when it resolves the approval. *)
LEMMA BatonRequest ==
  ASSUME Calm, OneBaton, NEW c \in Client, Request(c)
  PROVE  /\ Duties' /\ ClaimHeld' /\ Baton' /\ UNCHANGED queue
         /\ run.status = "AWAITING_APPROVAL" /\ run'.status # "AWAITING_APPROVAL" =>
              \/ run'.status = "CANCELLING"
              \/ approval' # approval /\ ~Waiting'
  <1>1. /\ K!Step(c) \/ K!Handle(c)
        /\ pc'[c] # "queueing" /\ ~(pc[c] = "idle" /\ pc'[c] = "step")
        /\ K!CanRun(c) /\ c \notin owes /\ UNCHANGED queue
        /\ owes' = IF pc[c] = "approving" /\ log' # log THEN owes \cup {c} ELSE owes
    BY Requesting DEF Calm, Free
  <1>2. pc[c] \in ClientPC
    BY DEF OneBaton, Placed
  <1>3. /\ \A b \in K!Actor \ {c} :
              /\ target'[b] = target[b]
              /\ \/ pc'[b] = pc[b]
                 \/ b \in Worker /\ pc[b] \in K!Suspended /\ pc'[b] = "finalize"
        /\ ClientWrote(c)
    BY <1>1, <1>2, ClientMoves DEF OneBaton, Types
  <1>4. /\ pc'[c] # "idle" => UNCHANGED approval
        /\ pc'[c] \in {"approving", "denying"} => approval[target'[c]] = "pending"
    BY <1>1, <1>2, ClientMoves DEF OneBaton, Types, Calm
  <1>5. Worker \cap Client = {} /\ K!Actor = Worker \cup Client
    BY HalvesAssumption DEF K!RunKernelAssumption, K!Actor
  <1>6. Duties'
    <2>1. "finalize" \in Working /\ K!Suspended \cap {"idle", "returned", "failed"} = {}
      BY DEF Working, K!Suspended
    <2>2. \A w \in Worker : pc'[w] = pc[w] \/ (pc[w] \in K!Suspended /\ pc'[w] = "finalize")
      BY <1>3, <1>5
    <2> QED BY <1>1, <2>1, <2>2 DEF OneBaton, Duties
  <1>7. ClaimHeld'
    BY <1>1 DEF OneBaton, ClaimHeld, Q!Owns
  <1>8. \A d \in Client \ {c} : pc'[d] = pc[d] /\ target'[d] = target[d]
    BY <1>3, <1>5
  <1>9. \A d \in Client \ {c} : pc[d] \notin {"approving", "denying"}
    <2>1. {"approving", "denying"} \subseteq K!Segment
      BY DEF K!Segment, K!Deciding
    <2> QED BY <1>1, <1>5, <2>1, OneInSegment DEF Calm, OneBaton
  <1>10. CASE UNCHANGED approval /\ owes' = owes
              /\ (run'.status = "AWAITING_APPROVAL" => run.status = "AWAITING_APPROVAL")
              /\ (run.status = "AWAITING_APPROVAL" => run'.status \in {"AWAITING_APPROVAL", "CANCELLING"})
    <2>1. Baton'
      BY <1>1, <1>4, <1>8, <1>10 DEF OneBaton, Baton, Waiting, Idle
    <2> QED BY <1>1, <1>6, <1>7, <1>10, <2>1
  <1>11. ASSUME pc[c] \in {"approving", "denying"}, pc'[c] = "idle", owes' \in {{}, {c}},
                NEW d \in {"approved", "denied"}, approval' = [approval EXCEPT ![target[c]] = d],
                run'.status # "AWAITING_APPROVAL"
         PROVE  Baton' /\ approval' # approval /\ ~Waiting'
    <2>1. approval[target[c]] = "pending" /\ target[c] \in Approval
      BY <1>5, <1>11 DEF OneBaton, Baton, Types, K!TypeOK
    <2>2. \A ap \in Approval : approval[ap] = "pending" => ap = target[c]
      BY <2>1 DEF OneBaton, Baton
    <2>3. approval'[target[c]] = d /\ \A ap \in Approval \ {target[c]} : approval'[ap] = approval[ap]
      BY <1>11, <2>1 DEF OneBaton, Types, K!TypeOK
    <2>4. ~Waiting' /\ approval' # approval
      BY <2>1, <2>2, <2>3 DEF Waiting
    <2>5. row[r].status # "queued" /\ Idle
      BY <2>1 DEF OneBaton, Baton, Waiting
    <2>6. \A e \in Client : pc'[e] \notin {"approving", "denying"}
      BY <1>8, <1>9, <1>11
    <2> QED BY <1>1, <1>11, <2>4, <2>5, <2>6 DEF Baton, Idle, Waiting
  <1>12. pc[c] \in {"approving", "denying"} => owes = {}
    <2>1. pc[c] \in {"approving", "denying"} => Waiting
      BY <1>5 DEF OneBaton, Baton, Waiting, Types, K!TypeOK
    <2> QED BY <2>1 DEF OneBaton, Baton
  <1>13. CASE UNCHANGED <<run, log, approval>>
    BY <1>1, <1>10, <1>13
  <1>14. CASE pc[c] = "cancelling" /\ pc'[c] = "idle" /\ Wrote(c, "CANCELLING", <<>>)
              /\ UNCHANGED approval
    BY <1>1, <1>10, <1>14 DEF Wrote
  <1>15. ASSUME NEW s \in {"QUEUED", "FAILED"}, NEW e, NEW d \in {"approved", "denied"},
                pc[c] \in {"approving", "denying"}, pc'[c] = "idle", Wrote(c, s, e),
                approval' = [approval EXCEPT ![target[c]] = d]
         PROVE  Baton' /\ approval' # approval /\ ~Waiting'
    <2>1. run'.status # "AWAITING_APPROVAL"
      BY <1>15 DEF Wrote
    <2>2. owes' \in {{}, {c}}
      BY <1>1, <1>12, <1>15
    <2> QED BY <1>11, <1>15, <2>1, <2>2
  <1> QED BY <1>1, <1>3, <1>6, <1>7, <1>13, <1>14, <1>15 DEF ClientWrote

(* The request that owes the row passes it to the queue. *)
LEMMA BatonContinue ==
  ASSUME OneBaton, NEW c \in Client, Continue(c)
  PROVE  /\ Duties' /\ ClaimHeld' /\ Baton' /\ Idle
         /\ run.status # "AWAITING_APPROVAL" /\ approval' = approval
  <1>1. c \in owes /\ owes' = owes \ {c} /\ UNCHANGED <<pc, approval, target>>
    BY DEF Continue
  <1>2. owes = {c} /\ Idle /\ ~Waiting /\ run.status # "AWAITING_APPROVAL"
    BY <1>1 DEF OneBaton, Baton
  <1>3. /\ UNCHANGED <<duty, holds, beat>>
        /\ row'[r] = row[r] \/ row'[r].status = "queued"
    BY Appending DEF Continue, OneBaton
  <1>4. run'.status # "AWAITING_APPROVAL"
    <2>1. run \in K!Row
      BY DEF OneBaton, Types, K!TypeOK
    <2> QED BY <1>2, <2>1 DEF Continue, K!Row
  <1>5. Duties'
    BY <1>1, <1>3 DEF OneBaton, Duties
  <1>6. ClaimHeld'
    BY <1>2, <1>3 DEF OneBaton, ClaimHeld, Idle, Q!Owns
  <1>7. Baton'
    BY <1>1, <1>2, <1>4 DEF OneBaton, Baton, Waiting
  <1> QED BY <1>1, <1>2, <1>5, <1>6, <1>7

(* After its release a worker has nothing to do for the run. *)
LEMMA NothingAfter == ASSUME OneBaton, NEW w \in Worker PROVE ~AfterRelease(w)
  <1> SUFFICES ASSUME AfterRelease(w) PROVE FALSE
    OBVIOUS
  <1>1. pc[w] = "idle" /\ K!Step(w)
    BY DEF AfterRelease, OneBaton, Duties
  <1> QED BY <1>1, Finishing DEF OneBaton, Types

(* Every step keeps one baton. *)
LEMMA OneBatonNext ==
  ASSUME Calm, OneBaton, [Next]_vars
  PROVE  OneBaton'
  <1>1. Types' /\ Placed' /\ K!LoopHeld'
    BY TypesNext, PlacedNext, LoopHeldNext DEF OneBaton, Calm, Types
  <1>2. Duties' /\ ClaimHeld' /\ Baton'
    <2>1. CASE UNCHANGED vars
      BY <2>1 DEF vars, OneBaton, Duties, ClaimHeld, Baton, Q!Owns, Waiting, Idle
    <2> QED BY <2>1, BatonExecute, BatonClaim, BatonRelease, BatonQueue, BatonRequest,
               BatonContinue, NothingAfter, NobodyDies DEF Next, OneBaton
  <1> QED BY <1>1, <1>2 DEF OneBaton

(* And it starts with one. *)
LEMMA OneBatonInit == ASSUME Init PROVE OneBaton
  <1>1. K!Init /\ KP!Init
    BY SameSets DEF Init, Created, K!Init, KP!Init
  <1>2. K!TypeOK /\ KP!CallPending
    BY <1>1, KernelConstants, SameTypes, KP!TypeInit DEF KP!Init, KP!CallPending, KP!InCall
  <1>3. row[r] = [status |-> IF run.status = "QUEUED" THEN "queued" ELSE "absent",
                  worker |-> NoActor, left |-> 0, attempts |-> 0]
    BY OneRun DEF Init, Created
  <1>4. Q!TypeOK
    <2>1. row \in [Run -> Q!Entry]
      BY DEF Init, Created, Q!Entry
    <2>2. seen \in [Client -> Q!Note]
      BY DEF Init, Created, Q!Note
    <2> QED BY <2>1, <2>2 DEF Init, Created, Q!TypeOK
  <1>5. Types /\ K!LoopHeld
    BY <1>1, <1>2, <1>4 DEF Init, Created, Types, K!Init, K!LoopHeld, K!Segment, K!Deciding
  <1>6. Placed /\ Duties
    BY <1>1 DEF Init, Created, K!Init, Placed, Duties, WorkerPC, ClientPC, K!Actor
  <1>7. ClaimHeld
    BY <1>3 DEF Init, Created, ClaimHeld
  <1>8. Baton
    BY <1>1, <1>3 DEF Init, Created, Baton, Waiting, Idle, K!Init, K!Actor
  <1> QED BY <1>5, <1>6, <1>7, <1>8 DEF OneBaton

(* One baton in every state of a calm daemon. *)
LEMMA OneBatonAlways == ASSUME Calm PROVE Spec => []OneBaton
  <1>1. Init => OneBaton
    BY OneBatonInit
  <1>2. OneBaton /\ [Next]_vars => OneBaton'
    BY OneBatonNext
  <1> QED BY <1>1, <1>2, PTL DEF Spec

(* In a calm daemon each half gives the other what its own proofs assume:  *)
(* the queue dispatches the run when nobody executes it and no approval is *)
(* waited for, and nobody queues it while it is executed.                  *)
THEOREM HalvesAlwaysFit == ASSUME Calm PROVE Spec => HalvesFit
  <1> DEFINE Exclusively ==
               \A a \in Worker \cup Client : pc[a] = "idle" /\ pc'[a] \in {"begin", "step"} =>
                  /\ run.status # "AWAITING_APPROVAL"
                  /\ \A b \in Worker \cup Client :
                         K!Executing(b) => pc[b] \in {"returned", "failed"}
             Orderly == appends' # appends => \A w \in Worker : duty[w] # "executing"
  <1>0. Worker \cap Client = {} /\ K!Actor = Worker \cup Client
    BY HalvesAssumption DEF K!RunKernelAssumption, K!Actor
  <1>a. ASSUME \A a \in K!Actor : pc[a] = "idle" => pc'[a] \notin {"begin", "step"}
        PROVE  Exclusively
    BY <1>0, <1>a
  <1>1. ASSUME OneBaton, NEW w \in Worker, Execute(w) PROVE Exclusively /\ Orderly
    <2>1. pc[w] \in Working /\ K!Step(w)
      BY <1>1 DEF Execute, OneBaton, Duties
    <2>2. \A b \in K!Actor \ {w} : pc'[b] = pc[b]
      BY <1>1, <2>1, WorkerMoves DEF OneBaton, Types
    <2>3. pc[w] # "idle"
      BY <2>1 DEF Working, K!Suspended, K!Segment, K!Deciding
    <2> QED BY <1>1, <1>a, <2>2, <2>3, Ending DEF OneBaton
  <1>2. ASSUME OneBaton, NEW w \in Worker, Claim(w) PROVE Exclusively /\ Orderly
    <2>1. /\ \A b \in K!Actor \ {w} : pc'[b] = pc[b]
          /\ row[r].status = "queued" /\ appends' = appends
      BY <1>2, Beginning, Claiming DEF Claim, OneBaton, Types
    <2>2. Idle /\ run.status # "AWAITING_APPROVAL"
      <3>1. Idle
        BY <1>2, <2>1, Alone DEF Idle, Q!Owns
      <3> QED BY <1>2, <2>1, <3>1 DEF OneBaton, Baton
    <2>3. \A v \in Worker : pc[v] \in {"idle", "returned", "failed"}
      BY <1>2, <2>2 DEF Idle, OneBaton, Duties, Types, Q!TypeOK
    <2>4. \A b \in K!Actor : K!Executing(b) => pc[b] \in {"returned", "failed"}
      BY <1>0, <1>2, <2>3 DEF OneBaton, Placed, ClientPC, K!Executing
    <2> QED BY <1>0, <2>1, <2>2, <2>4
  <1>3. ASSUME Calm, OneBaton, NEW w \in Worker, Release(w) PROVE Exclusively /\ Orderly
    <2>1. duty[w] = "ended"
      BY <1>3, Releasing DEF Release, OneBaton
    <2>2. pc[w] \in {"returned", "failed"}
      BY <1>3, <2>1 DEF OneBaton, Duties
    <2>3. \A b \in K!Actor \ {w} : pc'[b] = pc[b]
      BY <1>3, <2>2, Finishing DEF Release, K!Step, OneBaton, Types
    <2> QED BY <1>3, <1>a, <2>2, <2>3, BatonRelease
  <1>4. ASSUME Calm, OneBaton, NEW c \in Client, Request(c) PROVE Exclusively /\ Orderly
    <2>1. /\ K!Step(c) \/ K!Handle(c)
          /\ pc'[c] # "queueing" /\ ~(pc[c] = "idle" /\ pc'[c] = "step")
          /\ UNCHANGED queue /\ pc[c] \in ClientPC
      BY <1>4, Requesting DEF Calm, OneBaton, Placed
    <2>2. /\ pc'[c] \in ClientPC
          /\ \A b \in K!Actor \ {c} : pc'[b] = pc[b] \/ pc'[b] = "finalize"
      BY <2>1, <1>4, ClientMoves DEF OneBaton, Types
    <2>3. {"begin", "step"} \cap ClientPC = {}
      BY DEF ClientPC
    <2> QED BY <1>a, <2>1, <2>2, <2>3
  <1>5. ASSUME OneBaton, NEW c \in Client, Continue(c) PROVE Exclusively /\ Orderly
    <2>1. UNCHANGED pc /\ Idle
      BY <1>5, BatonContinue DEF Continue
    <2> QED BY <1>a, <2>1 DEF Idle
  <1>6. ASSUME Calm, OneBaton,
               Tick \/ \E w \in Worker : Start(w) \/ GiveUp(w) \/ Heartbeats(w)
        PROVE  Exclusively /\ Orderly
    BY <1>6, <1>a, BatonQueue
  <1>7. ASSUME UNCHANGED vars PROVE Exclusively /\ Orderly
    BY <1>7, <1>a DEF vars
  <1>8. OneBaton /\ [Next]_vars => [Exclusively]_vars /\ [Orderly]_vars
    <2> HIDE DEF Exclusively, Orderly
    <2> QED BY <1>1, <1>2, <1>3, <1>4, <1>5, <1>6, <1>7, NothingAfter, NobodyDies
            DEF Next, OneBaton
  <1> QED BY <1>8, OneBatonAlways, PTL
          DEF Spec, HalvesFit, DispatchIsExclusive, ProducersAreDisciplined

(* In a calm daemon a run that waits for an approval goes on only when the *)
(* approval is decided or the run is cancelled.                            *)
THEOREM GateAlwaysHolds == ASSUME Calm PROVE Spec => GateHolds
  <1> DEFINE Held == run.status = "AWAITING_APPROVAL" /\ run'.status # "AWAITING_APPROVAL" =>
                        \/ run'.status = "CANCELLING"
                        \/ /\ approval' # approval
                           /\ \A ap \in Approval : approval'[ap] # "pending"
  <1>1. ASSUME OneBaton, NEW w \in Worker, Execute(w) PROVE Held
    BY <1>1, Alone DEF Execute
  <1>2. ASSUME OneBaton, NEW w \in Worker, Claim(w) PROVE Held
    BY <1>2, Beginning DEF Claim, OneBaton, Types
  <1>3. ASSUME OneBaton, NEW w \in Worker, Release(w) PROVE Held
    BY <1>3, BatonRelease
  <1>4. ASSUME OneBaton, NEW c \in Client, Request(c) PROVE Held
    BY <1>4, BatonRequest DEF Waiting
  <1>5. ASSUME OneBaton, NEW c \in Client, Continue(c) PROVE Held
    BY <1>5, BatonContinue
  <1>6. ASSUME OneBaton, Tick \/ \E w \in Worker : Start(w) \/ GiveUp(w) \/ Heartbeats(w)
        PROVE  Held
    BY <1>6, BatonQueue
  <1>7. ASSUME UNCHANGED vars PROVE Held
    BY <1>7 DEF vars
  <1>8. OneBaton /\ [Next]_vars => [Held]_vars
    <2> HIDE DEF Held
    <2> QED BY <1>1, <1>2, <1>3, <1>4, <1>5, <1>6, <1>7, NothingAfter, NobodyDies
            DEF Next, OneBaton
  <1> QED BY <1>8, OneBatonAlways, PTL DEF Spec, GateHolds

-----------------------------------------------------------------------------
(* Nobody has to look for forgotten runs.                                  *)

(* What a request of a calm daemon decides. *)
LEMMA Deciding ==
  ASSUME Calm, OneBaton, NEW c \in Client, Request(c)
  PROVE  /\ UNCHANGED queue /\ \A w \in Worker : hdr'[w] = hdr[w] /\ pc'[w] \in {pc[w], "finalize"}
         /\ \/ UNCHANGED <<run, log, approval, owes>>
            \/ Wrote(c, "CANCELLING", <<>>) /\ UNCHANGED <<approval, owes>> /\ pc[c] = "cancelling"
            \/ /\ pc[c] = "approving" /\ Wrote(c, "QUEUED", <<"APPROVAL_RESOLVED", "RUN_QUEUED">>)
               /\ target[c] \in Approval /\ approval[target[c]] = "pending"
               /\ approval' = [approval EXCEPT ![target[c]] = "approved"]
               /\ owes = {} /\ owes' = {c}
            \/ /\ pc[c] = "denying" /\ Wrote(c, "FAILED", <<"APPROVAL_RESOLVED">>)
               /\ target[c] \in Approval /\ approval[target[c]] = "pending"
               /\ approval' = [approval EXCEPT ![target[c]] = "denied"]
               /\ owes = {} /\ owes' = {}
  <1>1. /\ K!Step(c) \/ K!Handle(c)
        /\ pc'[c] # "queueing" /\ ~(pc[c] = "idle" /\ pc'[c] = "step")
        /\ UNCHANGED queue
        /\ owes' = IF pc[c] = "approving" /\ log' # log THEN owes \cup {c} ELSE owes
    BY Requesting DEF Calm
  <1>2. Worker \cap Client = {} /\ K!Actor = Worker \cup Client
    BY HalvesAssumption DEF K!RunKernelAssumption, K!Actor
  <1>3. pc[c] \in ClientPC
    BY DEF OneBaton, Placed
  <1>4. /\ \A b \in K!Actor \ {c} : hdr'[b] = hdr[b] /\ pc'[b] \in {pc[b], "finalize"}
        /\ ClientWrote(c)
    BY <1>1, <1>3, ClientMoves DEF OneBaton, Types
  <1>5. pc[c] \in {"approving", "denying"} =>
          target[c] \in Approval /\ approval[target[c]] = "pending" /\ owes = {}
    <2>1. target[c] \in Approval
      BY <1>2 DEF OneBaton, Types, K!TypeOK
    <2>2. pc[c] \in {"approving", "denying"} => approval[target[c]] = "pending"
      BY DEF OneBaton, Baton
    <2> QED BY <2>1, <2>2 DEF OneBaton, Baton, Waiting
  <1>6. log \o <<"APPROVAL_RESOLVED", "RUN_QUEUED">> # log
    <2>1. log \in Seq(K!EventType)
      BY DEF OneBaton, Types, K!TypeOK
    <2>2. Len(log \o <<"APPROVAL_RESOLVED", "RUN_QUEUED">>) = Len(log) + 2
      BY <2>1 DEF K!EventType
    <2> QED BY <2>1, <2>2
  <1>7. CASE UNCHANGED <<run, log, approval>>
    BY <1>1, <1>2, <1>4, <1>7
  <1>8. CASE pc[c] = "cancelling" /\ Wrote(c, "CANCELLING", <<>>) /\ UNCHANGED approval
    BY <1>1, <1>2, <1>4, <1>8
  <1>9. CASE /\ pc[c] = "approving" /\ Wrote(c, "QUEUED", <<"APPROVAL_RESOLVED", "RUN_QUEUED">>)
             /\ approval' = [approval EXCEPT ![target[c]] = "approved"]
    <2>1. owes' = {c}
      BY <1>1, <1>5, <1>6, <1>9 DEF Wrote
    <2> QED BY <1>1, <1>2, <1>4, <1>5, <1>9, <2>1
  <1>10. CASE /\ pc[c] = "denying" /\ Wrote(c, "FAILED", <<"APPROVAL_RESOLVED">>)
              /\ approval' = [approval EXCEPT ![target[c]] = "denied"]
    BY <1>1, <1>2, <1>4, <1>5, <1>10
  <1> QED BY <1>4, <1>7, <1>8, <1>9, <1>10 DEF ClientWrote

(* The run goes on as long as it should. *)
Going ==
    /\ run.status = "QUEUED" => row[r].status = "queued" \/ ~Idle \/ owes # {} \/ GivenUp
    /\ Idle => run.status # "RUNNING"
    /\ \A w \in Worker : pc[w] = "failing" => hdr[w].status \notin K!Terminal

(* If writes do not fail, an execution ends with a pause or the end of the *)
(* run: every way out of it writes one, or finds one.                      *)
LEMMA EndsSettled ==
  ASSUME ~FaultyWrites, K!TypeOK, NEW w \in Worker, pc[w] \in Working, K!Step(w),
         pc[w] = "failing" => hdr[w].status \notin K!Terminal
  PROVE  /\ pc'[w] \in {"returned", "failed"} => run'.status \notin {"QUEUED", "RUNNING"}
         /\ pc'[w] = "failing" => hdr'[w].status \notin K!Terminal
  <1>a. w \in K!Actor /\ w \notin Client /\ hdr[w] \in K!Row
    BY HalvesAssumption DEF K!Actor, K!RunKernelAssumption, K!TypeOK
  <1>b. /\ \A l : K!Stay(w, l) => pc'[w] = l
        /\ \A l : K!Leave(w, l) \/ K!Suspend(w, l) => pc'[w] = l
    BY <1>a, Staying, Leaving, Suspending
  <1>c. \A events : K!Record(w, hdr[w], events) => run'.status = K!Decision[pc[w]]
    BY <1>a, Recording
  <1> USE DEF K!db, K!mem, K!bounds
  <1>1. CASE K!StepRead(w)
    <2>1. CASE K!Leave(w, "returned") /\ run.status \in K!Terminal
      BY <1>1, <1>b, <2>1 DEF K!StepRead, K!Terminal
    <2>2. CASE \E l \in {"mark_failed", "mark_cancelled", "start"} : K!Stay(w, l)
      BY <1>b, <2>2
    <2> QED BY <1>1, <2>1, <2>2 DEF K!StepRead
  <1>2. CASE K!StepStart(w) \/ K!RecordCall(w)
    BY <1>2, <1>b DEF K!StepStart, K!RecordCall
  <1>3. CASE K!ModelReturn(w) \/ K!NextCall(w) \/ K!ToolReturn(w)
    <2>1. PICK l \in {"mark_cancelled", "mark_failed", "response", "call", "result"} :
            K!Stay(w, l)
      BY <1>3 DEF K!ModelReturn, K!NextCall, K!ToolReturn
    <2> QED BY <2>1, <1>b
  <1>4. CASE K!RecordResponse(w) \/ K!RecordResult(w) \/ K!EndRound(w)
    <2>1. PICK l \in {"mark_failed", "complete", "next_call", "continue", "ask", "step"} :
            K!Stay(w, l)
      BY <1>4 DEF K!RecordResponse, K!RecordResult, K!EndRound
    <2> QED BY <2>1, <1>b
  <1>5. CASE K!AskApproval(w) \/ K!Complete(w) \/ K!MarkCancelled(w)
    <2>1. K!Leave(w, "returned")
      BY <1>5 DEF K!AskApproval, K!Complete, K!MarkCancelled
    <2>2. run'.status \in {"AWAITING_APPROVAL", "COMPLETED", "CANCELLED"}
      BY <1>5, <1>c DEF K!AskApproval, K!Complete, K!MarkCancelled, K!Decision
    <2> QED BY <1>b, <2>1, <2>2
  <1>6. CASE K!MarkFailed(w)
    <2>1. PICK l \in {"failed", "returned"} : K!Leave(w, l)
      BY <1>6 DEF K!MarkFailed
    <2>2. run'.status = "FAILED"
      BY <1>6, <1>c DEF K!MarkFailed, K!Decision
    <2> QED BY <1>b, <2>1, <2>2
  <1>7. CASE K!RecordRaises(w)
    <2>1. pc[w] # "failing"
      <3>1. SUFFICES ASSUME pc[w] = "failing" PROVE FALSE
        OBVIOUS
      <3>2. ~K!CanTransition(hdr[w].status, "FAILED")
        BY <1>7, <3>1 DEF K!RecordRaises, K!Decision
      <3> QED BY <3>1, <3>2, <1>a
              DEF K!CanTransition, K!ValidTransitions, K!Terminal, K!Status, K!Row
    <2>2. K!Leave(w, "failure")
      BY <1>7, <1>a, <2>1 DEF K!RecordRaises, K!Raise
    <2> QED BY <1>b, <2>2
  <1>8. CASE K!CallRaises(w)
    <2>1. K!Leave(w, "failure")
      BY <1>8, <1>a DEF K!CallRaises, K!Raise
    <2> QED BY <1>b, <2>1
  <1>9. CASE K!FinalizeRead(w) \/ K!FailureRead(w)
    <2>1. CASE run.status \in K!Terminal
      <3>1. \E l \in {"returned", "failed"} : K!Leave(w, l)
        BY <1>9, <2>1 DEF K!FinalizeRead, K!FailureRead
      <3> QED BY <1>9, <1>b, <2>1, <3>1 DEF K!FinalizeRead, K!FailureRead, K!Terminal
    <2>2. CASE run.status \notin K!Terminal
      <3>1. K!ReadHeader(w) /\ \E l \in {"finalizing", "failing"} : K!Stay(w, l)
        BY <1>9, <2>2 DEF K!FinalizeRead, K!FailureRead
      <3> QED BY <1>a, <1>b, <2>2, <3>1, Reading
    <2> QED BY <2>1, <2>2
  <1>10. CASE K!Finish(w)
    BY <1>10 DEF K!Finish, Working, K!Suspended, K!Segment, K!Deciding
  <1> QED BY <1>1, <1>2, <1>3, <1>4, <1>5, <1>6, <1>7, <1>8, <1>9, <1>10 DEF K!Step

(* Every step keeps the run going. *)
LEMMA GoingNext ==
  ASSUME Calm, ~FaultyWrites, OneBaton, Going, [Next]_vars
  PROVE  Going'
  <1>0. Worker \cap Client = {} /\ K!Actor = Worker \cup Client
    BY HalvesAssumption DEF K!RunKernelAssumption, K!Actor
  <1>1. ASSUME NEW w \in Worker, Execute(w) PROVE Going'
    <2>1. /\ duty[w] = "executing" /\ pc[w] \in Working /\ K!Step(w)
      BY <1>1 DEF Execute, OneBaton, Duties
    <2>2. /\ pc'[w] \in {"returned", "failed"} => run'.status \notin {"QUEUED", "RUNNING"}
          /\ pc'[w] = "failing" => hdr'[w].status \notin K!Terminal
      BY <2>1, EndsSettled DEF Going, OneBaton, Types
    <2>3. \A b \in K!Actor \ {w} : pc'[b] = pc[b] /\ hdr'[b] = hdr[b]
      BY <2>1, WorkerMoves DEF OneBaton, Types
    <2>4. duty'[w] = IF pc'[w] \in {"returned", "failed"} THEN "ended" ELSE "executing"
      BY <1>1, Ending DEF OneBaton
    <2>5. \A v \in Worker : pc'[v] = "failing" => hdr'[v].status \notin K!Terminal
      BY <1>0, <2>2, <2>3 DEF Going
    <2> QED BY <2>2, <2>4, <2>5 DEF Going, Idle
  <1>2. ASSUME NEW w \in Worker, Claim(w) PROVE Going'
    <2>1. /\ pc'[w] = "begin" /\ hdr' = hdr /\ \A b \in K!Actor \ {w} : pc'[b] = pc[b]
      BY <1>2, Beginning DEF Claim, OneBaton, Types
    <2>2. duty'[w] = "executing"
      BY <1>2, Claiming DEF Claim, OneBaton
    <2> QED BY <1>0, <2>1, <2>2 DEF Going, Idle
  <1>3. ASSUME NEW w \in Worker, Release(w) PROVE Going'
    <2>1. /\ duty[w] = "ended" /\ duty'[w] = "polling"
          /\ Q!Owns(w, r) \/ row'[r] = row[r]
          /\ \A v \in Worker \ {w} : duty'[v] = duty[v]
      BY <1>3, Releasing DEF Release, OneBaton
    <2>2. pc[w] \in {"returned", "failed"}
      BY <2>1 DEF OneBaton, Duties
    <2>3. /\ \A b \in K!Actor \ {w} : pc'[b] = pc[b]
          /\ UNCHANGED <<run, hdr, owes>> /\ pc'[w] # "failing"
      BY <1>3, <2>2, Finishing DEF Release, K!Step, OneBaton, Types
    <2>4. (Idle <=> Idle') /\ (row[r].status \in {"queued", "dead_letter"} => row'[r] = row[r])
      BY <2>1 DEF Idle, Q!Owns
    <2> QED BY <1>0, <2>3, <2>4 DEF Going, GivenUp
  <1>4. ASSUME NEW c \in Client, Request(c) PROVE Going'
    <2>1. /\ UNCHANGED queue
          /\ \A w \in Worker : hdr'[w] = hdr[w] /\ pc'[w] \in {pc[w], "finalize"}
          /\ \/ UNCHANGED <<run, owes>>
             \/ run'.status \in {"CANCELLING", "FAILED"}
             \/ run'.status = "QUEUED" /\ owes' # {}
      BY <1>4, Deciding DEF Wrote
    <2> QED BY <2>1 DEF Going, Idle, GivenUp
  <1>5. ASSUME NEW c \in Client, Continue(c) PROVE Going'
    <2>1. UNCHANGED <<pc, hdr>> /\ Idle /\ run.status # "AWAITING_APPROVAL"
      BY <1>5, BatonContinue DEF Continue
    <2>2. UNCHANGED duty /\ (Q!AppendStatus(c, r) => row'[r].status = "queued")
      BY <1>5, Appending DEF Continue, OneBaton
    <2>3. run.status # "RUNNING" /\ run \in K!Row
      BY <2>1 DEF Going, OneBaton, Types, K!TypeOK
    <2>4. run'.status # "RUNNING"
      BY <1>5, <2>3 DEF Continue, K!Row
    <2>5. run'.status = "QUEUED" => row'[r].status = "queued"
      BY <1>5, <2>2 DEF Continue, K!CanTransition
    <2> QED BY <2>1, <2>2, <2>4, <2>5 DEF Going
  <1>6. ASSUME Tick \/ \E w \in Worker : Start(w) \/ GiveUp(w) \/ Heartbeats(w) PROVE Going'
    <2>1. UNCHANGED <<run, pc, hdr, owes>>
      BY <1>6 DEF Tick, Start, GiveUp, Heartbeats
    <2>2. /\ row'[r].status = row[r].status \/ row'[r].status = "dead_letter"
          /\ \/ UNCHANGED duty
             \/ \E w \in Worker : /\ duty[w] = "down" /\ duty'[w] = "polling"
                                  /\ \A v \in Worker \ {w} : duty'[v] = duty[v]
      BY <1>6, Ticking, Starting, GivingUp, Beating DEF Tick, Start, GiveUp, OneBaton
    <2>3. Idle <=> Idle'
      BY <2>2 DEF Idle
    <2> QED BY <2>1, <2>2, <2>3 DEF Going, GivenUp
  <1>7. CASE UNCHANGED vars
    BY <1>7 DEF vars, Going, Idle, GivenUp
  <1> QED BY <1>1, <1>2, <1>3, <1>4, <1>5, <1>6, <1>7, NothingAfter, NobodyDies DEF Next, OneBaton

(* Attended or given up, as long as it goes on. *)
LEMMA GoingAttends == OneBaton /\ Going => Attended \/ GivenUp
  <1>1. ASSUME OneBaton, ~Idle PROVE row[r].status = "running"
    BY <1>1, Alone DEF Idle, Q!Owns
  <1> QED BY <1>1 DEF Going, Attended

(* It goes on from the start. *)
LEMMA GoingAlways == ASSUME Calm, ~FaultyWrites PROVE Spec => [](OneBaton /\ Going)
  <1>1. Init => Going
    <2> SUFFICES ASSUME Init PROVE Going
      OBVIOUS
    <2>1. row[r].status = IF run.status = "QUEUED" THEN "queued" ELSE "absent"
      BY OneRun DEF Init, Created
    <2> QED BY <2>1 DEF Init, Created, K!Init, Going, Idle, K!Actor
  <1>2. OneBaton /\ OneBaton' /\ Going /\ [Next]_vars => Going'
    BY GoingNext
  <1> QED BY <1>1, <1>2, OneBatonAlways, PTL DEF Spec

(* A run that should go on is queued, claimed, about to be queued, or the  *)
(* queue has given it up, if no write of the kernel fails.                 *)
THEOREM NobodyIsForgotten ==
  ASSUME Calm, ~FaultyWrites
  PROVE  Spec => [](Attended \/ GivenUp)
  BY GoingAttends, GoingAlways, PTL

(* An attempt is spent on the start of the run, or on an approval. *)
Approved == {ap \in Approval : approval[ap] = "approved"}

Spent ==
    row[r].attempts <= Cardinality(Approved)
                         + (IF row[r].status = "queued" \/ owes # {} THEN 0 ELSE 1)

(* The queue never runs out of attempts if it has one more than there are  *)
(* approvals.                                                              *)
Provided == IsFiniteSet(Approval) /\ Cardinality(Approval) < MaxAttempts

(* The numbers Spent is about. *)
LEMMA SpentTypes ==
  ASSUME Provided, Types
  PROVE  /\ row[r].attempts \in Nat /\ IsFiniteSet(Approved)
         /\ Cardinality(Approved) \in Nat /\ Cardinality(Approved) < MaxAttempts
  <1>1. row[r].attempts \in Nat
    BY OneRun DEF Types, Q!TypeOK, Q!Entry
  <1>2. IsFiniteSet(Approved) /\ Cardinality(Approved) <= Cardinality(Approval)
    <2>1. Approved \subseteq Approval
      BY DEF Approved
    <2> QED BY <2>1, FS_Subset DEF Provided
  <1>3. Cardinality(Approved) \in Nat /\ Cardinality(Approval) \in Nat /\ MaxAttempts \in Nat
    BY <1>2, FS_CardinalityType, HalvesAssumption DEF Provided, Q!RunQueueAssumption
  <1> QED BY <1>1, <1>2, <1>3 DEF Provided

(* An approval pays for an attempt. *)
LEMMA Paying ==
  ASSUME Provided, Types, NEW ap \in Approval, approval[ap] = "pending",
         approval' = [approval EXCEPT ![ap] = "approved"]
  PROVE  Cardinality(Approved') = Cardinality(Approved) + 1
  <1>1. Approved' = Approved \cup {ap} /\ ap \notin Approved
    BY DEF Approved, Types, K!TypeOK
  <1>2. IsFiniteSet(Approved)
    BY SpentTypes
  <1> QED BY <1>1, <1>2, FS_AddElement

(* Nothing is spent twice, and the run is never given up. *)
LEMMA SpentNext ==
  ASSUME Calm, Provided, OneBaton, Spent, row[r].status # "dead_letter", [Next]_vars
  PROVE  Spent' /\ row'[r].status # "dead_letter"
  <1> DEFINE n == Cardinality(Approved)
             Unspent == row[r].status = "queued" \/ owes # {}
  <1>a. row[r].attempts \in Nat /\ n \in Nat /\ n < MaxAttempts /\ MaxAttempts \in Nat
    BY SpentTypes, HalvesAssumption DEF OneBaton, Q!RunQueueAssumption
  <1>b. row[r].attempts <= n + (IF Unspent THEN 0 ELSE 1)
    BY DEF Spent
  <1>c. approval' = approval => Cardinality(Approved') = n
    BY DEF Approved
  <1>d. ASSUME NEW m, Cardinality(Approved') = m, m \in Nat,
               row'[r].attempts <= m \/ (~Unspent' /\ row'[r].attempts <= m + 1)
        PROVE  Spent'
    <2>1. Types'
      BY TypesNext DEF OneBaton
    <2>2. row'[r].attempts \in Nat
      BY <2>1, OneRun DEF Types, Q!TypeOK, Q!Entry
    <2> QED BY <1>d, <2>2 DEF Spent
  <1> HIDE DEF n
  <1>1. ASSUME NEW w \in Worker, Execute(w) PROVE Spent' /\ row'[r].status # "dead_letter"
    <2>1. /\ duty[w] = "executing" /\ pc[w] \in Working /\ K!Step(w)
      BY <1>1 DEF Execute, OneBaton, Duties
    <2>2. UNCHANGED <<row, owes>>
      BY <1>1, Ending DEF OneBaton
    <2>3. owes = {} /\ row[r].status = "running"
      BY <2>1, Alone DEF Q!Owns
    <2>4. Approved' = Approved
      <3>1. WorkerWrote(w)
        BY <2>1, WorkerMoves DEF OneBaton, Types
      <3>2. \/ approval' = approval
            \/ \E ap \in Approval : /\ approval[ap] = "absent"
                                    /\ approval' = [approval EXCEPT ![ap] = "pending"]
        BY <3>1 DEF WorkerWrote
      <3> QED BY <3>2 DEF Approved, OneBaton, Types, K!TypeOK
    <2>5. row[r].attempts <= n + 1 /\ ~Unspent'
      BY <1>a, <1>b, <2>2, <2>3
    <2>6. Cardinality(Approved') = n
      BY <2>4 DEF n
    <2> QED BY <1>a, <1>d, <2>2, <2>3, <2>5, <2>6
  <1>2. ASSUME NEW w \in Worker, Claim(w) PROVE Spent' /\ row'[r].status # "dead_letter"
    <2>1. UNCHANGED <<approval, owes>>
      BY <1>2, Beginning DEF Claim, OneBaton, Types
    <2>2. /\ row[r].status = "queued" /\ row'[r].status = "running"
          /\ row'[r].attempts = row[r].attempts + 1
      BY <1>2, Claiming DEF Claim, OneBaton
    <2>3. owes = {}
      BY <2>2 DEF OneBaton, Baton
    <2>4. row[r].attempts <= n + 0
      BY <1>b, <2>2
    <2>5. row'[r].attempts <= n + 1 /\ ~Unspent'
      BY <1>a, <2>1, <2>2, <2>3, <2>4
    <2> QED BY <1>a, <1>c, <1>d, <2>1, <2>2, <2>5
  <1>3. ASSUME NEW w \in Worker, Release(w) PROVE Spent' /\ row'[r].status # "dead_letter"
    <2>1. UNCHANGED approval /\ owes' = owes
      BY <1>3, BatonRelease DEF Release
    <2>2. IF Q!Owns(w, r) THEN /\ row'[r].status \in {"done", "failed", "cancelled"}
                               /\ row'[r].attempts = row[r].attempts
                          ELSE row'[r] = row[r]
      BY <1>3, Releasing DEF Release, OneBaton
    <2>3. row'[r].attempts = row[r].attempts /\ row'[r].status # "dead_letter" /\ (Unspent' => Unspent)
          /\ (Unspent => Unspent')
      BY <2>1, <2>2 DEF Q!Owns
    <2>4. row'[r].attempts <= n + (IF Unspent' THEN 0 ELSE 1)
      BY <1>b, <2>3
    <2> QED BY <1>a, <1>c, <1>d, <2>1, <2>3, <2>4
  <1>4. ASSUME NEW c \in Client, Request(c) PROVE Spent' /\ row'[r].status # "dead_letter"
    <2>1. /\ row' = row
          /\ \/ UNCHANGED <<approval, owes>>
             \/ /\ target[c] \in Approval /\ approval[target[c]] = "pending"
                /\ approval' = [approval EXCEPT ![target[c]] = "approved"]
             \/ /\ target[c] \in Approval /\ approval[target[c]] = "pending"
                /\ approval' = [approval EXCEPT ![target[c]] = "denied"]
                /\ owes' = owes
      BY <1>4, Deciding
    <2>2. CASE UNCHANGED <<approval, owes>>
      BY <1>a, <1>b, <1>c, <1>d, <2>1, <2>2
    <2>3. CASE /\ target[c] \in Approval /\ approval[target[c]] = "pending"
               /\ approval' = [approval EXCEPT ![target[c]] = "approved"]
      <3>1. Cardinality(Approved') = n + 1
        BY <2>3, Paying DEF n, OneBaton
      <3>2. row'[r].attempts <= n + 1 /\ n + 1 \in Nat
        BY <1>a, <1>b, <2>1
      <3> QED BY <1>d, <2>1, <3>1, <3>2
    <2>4. CASE /\ target[c] \in Approval /\ approval[target[c]] = "pending"
               /\ approval' = [approval EXCEPT ![target[c]] = "denied"]
               /\ owes' = owes
      <3>1. Approved' = Approved
        BY <2>4 DEF Approved, OneBaton, Types, K!TypeOK
      <3>2. Cardinality(Approved') = n
        BY <3>1 DEF n
      <3> QED BY <1>a, <1>b, <1>d, <2>1, <2>4, <3>2
    <2> QED BY <2>1, <2>2, <2>3, <2>4
  <1>5. ASSUME NEW c \in Client, Continue(c) PROVE Spent' /\ row'[r].status # "dead_letter"
    <2>1. approval' = approval /\ owes # {}
      BY <1>5, BatonContinue DEF Continue
    <2>2. row[r].attempts <= n
      BY <1>a, <1>b, <2>1
    <2>3. /\ row'[r].attempts = row[r].attempts
          /\ row'[r].status = row[r].status \/ row'[r].status = "queued"
      BY <1>5, Appending DEF Continue, OneBaton
    <2> QED BY <1>a, <1>c, <1>d, <2>1, <2>2, <2>3
  <1>6. ASSUME Tick \/ \E w \in Worker : Start(w) \/ GiveUp(w) \/ Heartbeats(w)
        PROVE  Spent' /\ row'[r].status # "dead_letter"
    <2>1. UNCHANGED <<approval, owes>>
      BY <1>6 DEF Tick, Start, GiveUp, Heartbeats
    <2>2. ASSUME NEW w \in Worker, GiveUp(w) PROVE FALSE
      <3>1. row[r].status = "queued" /\ row[r].attempts + 1 > MaxAttempts
        BY <2>2, GivingUp DEF GiveUp, OneBaton
      <3>2. row[r].attempts <= n
        BY <1>a, <1>b, <3>1
      <3> QED BY <1>a, <3>1, <3>2
    <2>3. row'[r].attempts = row[r].attempts /\ row'[r].status = row[r].status
      BY <1>6, <2>2, Ticking, Starting, Beating DEF Tick, Start, OneBaton
    <2> QED BY <1>a, <1>b, <1>c, <1>d, <2>1, <2>3
  <1>7. CASE UNCHANGED vars
    BY <1>7 DEF vars, Spent, Approved
  <1> QED BY <1>1, <1>2, <1>3, <1>4, <1>5, <1>6, <1>7, NothingAfter, NobodyDies DEF Next, OneBaton

(* A run that should go on is queued, claimed or about to be queued: with  *)
(* an attempt for each approval and one for the start, it is not given up. *)
THEOREM RunIsAttended ==
  ASSUME Calm, ~FaultyWrites, Provided
  PROVE  Spec => []Attended
  <1> DEFINE Kept == Spent /\ row[r].status # "dead_letter"
  <1>1. Init => Kept
    <2> SUFFICES ASSUME Init PROVE Kept
      OBVIOUS
    <2>1. row[r] = [status |-> IF run.status = "QUEUED" THEN "queued" ELSE "absent",
                    worker |-> NoActor, left |-> 0, attempts |-> 0]
      BY OneRun DEF Init, Created
    <2>2. Cardinality(Approved) \in Nat
      BY OneBatonInit, SpentTypes DEF OneBaton
    <2> QED BY <2>1, <2>2 DEF Spent
  <1>2. OneBaton /\ Kept /\ [Next]_vars => Kept'
    BY SpentNext
  <1>3. OneBaton /\ Going /\ Kept => Attended
    BY GoingAttends DEF GivenUp
  <1> QED BY <1>1, <1>2, <1>3, GoingAlways, OneBatonAlways, PTL DEF Spec

-----------------------------------------------------------------------------
(* The log that streams follow.                                            *)

(* How Seen shows the rows. *)
StatusOf(status) == IF status \in K!Terminal \cup {"AWAITING_APPROVAL"} THEN status ELSE "ACTIVE"

KindOf(event) == CASE event = "APPROVAL_REQUESTED" -> "approval_requested"
                   [] event = "ARTIFACT_CREATED"   -> "artifact_created"
                   [] event = "ERROR"              -> "error"
                   [] event = "RUN_CANCELLED"      -> "run_cancelled"
                   [] OTHER                        -> "step"

KindsOf(events) == [i \in 1..Len(events) |-> KindOf(events[i])]

(* Each event is shown as one. *)
LEMMA KindsTyped ==
  ASSUME NEW l \in Seq(K!EventType)
  PROVE  /\ KindsOf(l) \in Seq(Seen!Kind) /\ Len(KindsOf(l)) = Len(l)
         /\ \A i \in 1..Len(l) : KindsOf(l)[i] = KindOf(l[i])
  <1>1. \A e : KindOf(e) \in Seen!Kind
    BY DEF KindOf, Seen!Kind
  <1>2. Len(l) \in Nat
    BY LenProperties
  <1>3. KindsOf(l) \in [1..Len(l) -> Seen!Kind]
    BY <1>1 DEF KindsOf
  <1>4. KindsOf(l) \in Seq(Seen!Kind)
    BY <1>2, <1>3, SeqDef
  <1>5. DOMAIN KindsOf(l) = 1..Len(l)
    BY DEF KindsOf
  <1>6. Len(KindsOf(l)) = Len(l)
    BY <1>2, <1>4, <1>5, LenProperties
  <1> QED BY <1>4, <1>6 DEF KindsOf

(* Events that are appended are shown after the ones before. *)
LEMMA KindsAppended ==
  ASSUME NEW l \in Seq(K!EventType), NEW m \in Seq(K!EventType)
  PROVE  KindsOf(l \o m) = KindsOf(l) \o KindsOf(m)
  <1>1. /\ l \o m \in Seq(K!EventType) /\ Len(l \o m) = Len(l) + Len(m)
        /\ \A i \in 1..Len(l) + Len(m) : (l \o m)[i] = IF i <= Len(l) THEN l[i] ELSE m[i - Len(l)]
    BY ConcatProperties
  <1>2. /\ KindsOf(l) \in Seq(Seen!Kind) /\ Len(KindsOf(l)) = Len(l)
        /\ \A i \in 1..Len(l) : KindsOf(l)[i] = KindOf(l[i])
        /\ KindsOf(m) \in Seq(Seen!Kind) /\ Len(KindsOf(m)) = Len(m)
        /\ \A i \in 1..Len(m) : KindsOf(m)[i] = KindOf(m[i])
    BY KindsTyped
  <1>3. /\ KindsOf(l) \o KindsOf(m) \in Seq(Seen!Kind)
        /\ Len(KindsOf(l) \o KindsOf(m)) = Len(l) + Len(m)
        /\ \A i \in 1..Len(l) + Len(m) :
             (KindsOf(l) \o KindsOf(m))[i] = IF i <= Len(l) THEN KindsOf(l)[i]
                                             ELSE KindsOf(m)[i - Len(l)]
    <2> DEFINE s == KindsOf(l)
               u == KindsOf(m)
    <2>1. s \in Seq(Seen!Kind) /\ u \in Seq(Seen!Kind) /\ Len(s) = Len(l) /\ Len(u) = Len(m)
      BY <1>2
    <2> HIDE DEF s, u
    <2>2. /\ s \o u \in Seq(Seen!Kind) /\ Len(s \o u) = Len(s) + Len(u)
          /\ \A i \in 1..Len(s) + Len(u) : (s \o u)[i] = IF i <= Len(s) THEN s[i] ELSE u[i - Len(s)]
      BY <2>1, ConcatProperties
    <2>3. /\ s \o u \in Seq(Seen!Kind) /\ Len(s \o u) = Len(l) + Len(m)
          /\ \A i \in 1..Len(l) + Len(m) : (s \o u)[i] = IF i <= Len(l) THEN s[i] ELSE u[i - Len(l)]
      BY <2>1, <2>2
    <2> QED BY <2>3 DEF s, u
  <1>4. /\ KindsOf(l \o m) \in Seq(Seen!Kind) /\ Len(KindsOf(l \o m)) = Len(l) + Len(m)
        /\ \A i \in 1..Len(l) + Len(m) : KindsOf(l \o m)[i] = KindOf((l \o m)[i])
    BY <1>1, KindsTyped
  <1>5. Len(l) \in Nat /\ Len(m) \in Nat
    BY LenProperties
  <1>6. ASSUME NEW i \in 1..Len(l) + Len(m)
        PROVE  KindsOf(l \o m)[i] = (KindsOf(l) \o KindsOf(m))[i]
    <2>1. CASE i <= Len(l)
      BY <1>1, <1>2, <1>3, <1>4, <1>5, <2>1
    <2>2. CASE ~(i <= Len(l))
      <3>1. i - Len(l) \in 1..Len(m)
        BY <1>5, <2>2
      <3> QED BY <1>1, <1>2, <1>3, <1>4, <2>2, <3>1
    <2> QED BY <2>1, <2>2
  <1> QED BY <1>3, <1>4, <1>6, SeqEqual

(* How few events are shown. *)
LEMMA KindsOfFew ==
  /\ KindsOf(<<>>) = <<>>
  /\ \A e \in K!EventType : KindsOf(<<e>>) = <<KindOf(e)>>
  /\ \A e, f \in K!EventType : KindsOf(<<e, f>>) = <<KindOf(e), KindOf(f)>>
  <1>1. KindsOf(<<>>) = <<>>
    <2>1. KindsOf(<<>>) \in Seq(Seen!Kind) /\ Len(KindsOf(<<>>)) = 0
      BY KindsTyped, EmptySeq
    <2> QED BY <2>1, EmptySeq
  <1>a. \A e : KindOf(e) \in Seen!Kind
    BY DEF KindOf, Seen!Kind
  <1>2. ASSUME NEW e \in K!EventType PROVE KindsOf(<<e>>) = <<KindOf(e)>>
    <2>1. <<e>> \in Seq(K!EventType) /\ Len(<<e>>) = 1 /\ <<e>>[1] = e
      OBVIOUS
    <2>2. <<KindOf(e)>> \in Seq(Seen!Kind) /\ Len(<<KindOf(e)>>) = 1
      BY <1>a
    <2>3. KindsOf(<<e>>) \in Seq(Seen!Kind) /\ Len(KindsOf(<<e>>)) = 1
          /\ KindsOf(<<e>>)[1] = KindOf(e)
      <3> DEFINE l == <<e>>
      <3>1. l \in Seq(K!EventType) /\ Len(l) = 1 /\ l[1] = e
        BY <2>1
      <3> HIDE DEF l
      <3>2. /\ KindsOf(l) \in Seq(Seen!Kind) /\ Len(KindsOf(l)) = Len(l)
            /\ \A i \in 1..Len(l) : KindsOf(l)[i] = KindOf(l[i])
        BY <3>1, KindsTyped
      <3>3. KindsOf(l) \in Seq(Seen!Kind) /\ Len(KindsOf(l)) = 1 /\ KindsOf(l)[1] = KindOf(e)
        BY <3>1, <3>2
      <3> QED BY <3>3 DEF l
    <2> QED BY <2>2, <2>3, SeqEqual
  <1>3. ASSUME NEW e \in K!EventType, NEW f \in K!EventType
        PROVE  KindsOf(<<e, f>>) = <<KindOf(e), KindOf(f)>>
    <2>1. <<e, f>> \in Seq(K!EventType) /\ Len(<<e, f>>) = 2 /\ <<e, f>>[1] = e /\ <<e, f>>[2] = f
      OBVIOUS
    <2>2. <<KindOf(e), KindOf(f)>> \in Seq(Seen!Kind) /\ Len(<<KindOf(e), KindOf(f)>>) = 2
      BY <1>a
    <2>3. /\ KindsOf(<<e, f>>) \in Seq(Seen!Kind) /\ Len(KindsOf(<<e, f>>)) = 2
          /\ KindsOf(<<e, f>>)[1] = KindOf(e) /\ KindsOf(<<e, f>>)[2] = KindOf(f)
      <3> DEFINE l == <<e, f>>
      <3>1. l \in Seq(K!EventType) /\ Len(l) = 2 /\ l[1] = e /\ l[2] = f
        BY <2>1
      <3> HIDE DEF l
      <3>2. /\ KindsOf(l) \in Seq(Seen!Kind) /\ Len(KindsOf(l)) = Len(l)
            /\ \A i \in 1..Len(l) : KindsOf(l)[i] = KindOf(l[i])
        BY <3>1, KindsTyped
      <3>3. /\ KindsOf(l) \in Seq(Seen!Kind) /\ Len(KindsOf(l)) = 2
            /\ KindsOf(l)[1] = KindOf(e) /\ KindsOf(l)[2] = KindOf(f)
        BY <3>1, <3>2
      <3> QED BY <3>3 DEF l
    <2> QED BY <2>2, <2>3, SeqEqual
  <1> QED BY <1>1, <1>2, <1>3

(* A commit of the kernel is one that readers see. *)
LEMMA Committing ==
  ASSUME NEW new \in Seq(K!EventType), log \in Seq(K!EventType), log' = log \o new
  PROVE  Seen!Commit(KindsOf(new), StatusOf(run.status), StatusOf(run'.status))
  <1>1. KindsOf(log') = KindsOf(log) \o KindsOf(new)
    BY KindsAppended
  <1> QED BY <1>1 DEF Seen!Commit, StatusOf, KindsOf, KindOf

(* Commits of no event, of one and of two. *)
LEMMA CommittingFew ==
  ASSUME log \in Seq(K!EventType)
  PROVE  /\ log' = log => Seen!Commit(<<>>, StatusOf(run.status), StatusOf(run'.status))
         /\ \A e \in K!EventType :
              log' = log \o <<e>> =>
                Seen!Commit(<<KindOf(e)>>, StatusOf(run.status), StatusOf(run'.status))
         /\ \A e, f \in K!EventType :
              log' = log \o <<e, f>> =>
                Seen!Commit(<<KindOf(e), KindOf(f)>>, StatusOf(run.status), StatusOf(run'.status))
  <1> DEFINE Shown(new) == Seen!Commit(KindsOf(new), StatusOf(run.status), StatusOf(run'.status))
  <1>1. \A new \in Seq(K!EventType) : log' = log \o new => Shown(new)
    BY Committing
  <1> HIDE DEF Shown
  <1>2. log' = log => Shown(<<>>)
    <2>1. <<>> \in Seq(K!EventType) /\ log \o <<>> = log
      BY EmptySeq, ConcatEmptySeq
    <2> QED BY <1>1, <2>1
  <1>3. ASSUME NEW e \in K!EventType, log' = log \o <<e>> PROVE Shown(<<e>>)
    <2>1. <<e>> \in Seq(K!EventType)
      OBVIOUS
    <2> QED BY <1>1, <1>3, <2>1
  <1>4. ASSUME NEW e \in K!EventType, NEW f \in K!EventType, log' = log \o <<e, f>>
        PROVE  Shown(<<e, f>>)
    <2>1. <<e, f>> \in Seq(K!EventType)
      OBVIOUS
    <2> QED BY <1>1, <1>4, <2>1
  <1>5. /\ KindsOf(<<>>) = <<>>
        /\ \A e \in K!EventType : KindsOf(<<e>>) = <<KindOf(e)>>
        /\ \A e, f \in K!EventType : KindsOf(<<e, f>>) = <<KindOf(e), KindOf(f)>>
    BY KindsOfFew
  <1> DEFINE Commits(kinds) == Seen!Commit(kinds, StatusOf(run.status), StatusOf(run'.status))
  <1>6. \A new : Shown(new) <=> Commits(KindsOf(new))
    BY DEF Shown
  <1> HIDE DEF Commits
  <1>7. /\ log' = log => Commits(<<>>)
        /\ \A e \in K!EventType : log' = log \o <<e>> => Commits(<<KindOf(e)>>)
        /\ \A e, f \in K!EventType :
             log' = log \o <<e, f>> => Commits(<<KindOf(e), KindOf(f)>>)
    <2>1. log' = log => Commits(<<>>)
      BY <1>2, <1>5, <1>6
    <2>2. ASSUME NEW e \in K!EventType, log' = log \o <<e>> PROVE Commits(<<KindOf(e)>>)
      BY <1>3, <1>5, <1>6, <2>2
    <2>3. ASSUME NEW e \in K!EventType, NEW f \in K!EventType, log' = log \o <<e, f>>
          PROVE  Commits(<<KindOf(e), KindOf(f)>>)
      BY <1>4, <1>5, <1>6, <2>3
    <2> QED BY <2>1, <2>2, <2>3
  <1> QED BY <1>7 DEF Commits

(* As long as anybody has something to do, the run is not over, and an     *)
(* approval is waited for by a run that is paused or being cancelled.      *)
Open ==
    /\ row[r].status = "queued" \/ ~Idle \/ owes # {} \/ Waiting => run.status \notin K!Terminal
    /\ Waiting => run.status \in {"AWAITING_APPROVAL", "CANCELLING"}

(* A decision is the end of the waiting. *)
LEMMA Resolved ==
  ASSUME OneBaton, NEW ap \in Approval, approval[ap] = "pending",
         NEW d \in {"approved", "denied"}, approval' = [approval EXCEPT ![ap] = d]
  PROVE  ~Waiting' /\ row[r].status # "queued" /\ Idle /\ owes = {}
  <1>1. \A bp \in Approval \ {ap} : approval[bp] # "pending"
    BY DEF OneBaton, Baton
  <1>2. ~Waiting'
    BY <1>1 DEF Waiting, OneBaton, Types, K!TypeOK
  <1> QED BY <1>2 DEF Waiting, OneBaton, Baton

(* Every step keeps the run open. *)
LEMMA OpenNext ==
  ASSUME Calm, OneBaton, Open, [Next]_vars
  PROVE  Open'
  <1>1. ASSUME NEW w \in Worker, Execute(w) PROVE Open'
    <2>1. /\ duty[w] = "executing" /\ pc[w] \in Working /\ K!Step(w)
      BY <1>1 DEF Execute, OneBaton, Duties
    <2>2. /\ UNCHANGED <<row, owes>>
          /\ duty'[w] = IF pc'[w] \in {"returned", "failed"} THEN "ended" ELSE "executing"
          /\ \A v \in Worker \ {w} : duty'[v] = duty[v]
      BY <1>1, Ending DEF OneBaton
    <2>3. /\ row[r].status = "running" /\ \A v \in Worker \ {w} : duty[v] # "executing"
          /\ owes = {} /\ ~Waiting
      BY <2>1, Alone DEF Q!Owns
    <2>4. run.status \notin K!Terminal
      BY <2>1 DEF Open, Idle
    <2>5. pc'[w] \in {"returned", "failed"} => Idle'
      BY <2>2, <2>3 DEF Idle
    <2>6. WorkerWrote(w)
      BY <2>1, WorkerMoves DEF OneBaton, Types
    <2>7. CASE run'.status \notin K!Terminal /\ approval' = approval
      BY <2>3, <2>7 DEF Open, Waiting
    <2>8. CASE run'.status = "AWAITING_APPROVAL"
      BY <2>8 DEF Open, K!Terminal
    <2>9. CASE Idle' /\ approval' = approval
      BY <2>2, <2>3, <2>9 DEF Open, Waiting
    <2>10. \/ run'.status \notin K!Terminal /\ approval' = approval
           \/ run'.status = "AWAITING_APPROVAL"
           \/ pc'[w] \in {"returned", "failed"} /\ approval' = approval
      BY <2>4, <2>6 DEF WorkerWrote, Wrote, K!Terminal
    <2> QED BY <2>5, <2>7, <2>8, <2>9, <2>10
  <1>2. ASSUME NEW w \in Worker, Claim(w) PROVE Open'
    <2>1. row[r].status = "queued" /\ row'[r].status = "running"
      BY <1>2, Claiming DEF Claim, OneBaton
    <2>2. UNCHANGED <<run, approval, owes>>
      BY <1>2, Beginning DEF Claim, OneBaton, Types
    <2> QED BY <2>1, <2>2 DEF Open, Waiting
  <1>3. ASSUME NEW w \in Worker, Release(w) PROVE Open'
    <2>1. UNCHANGED <<run, approval, owes>>
      BY <1>3, BatonRelease DEF Release
    <2>2. /\ duty[w] = "ended" /\ duty'[w] = "polling"
          /\ \A v \in Worker \ {w} : duty'[v] = duty[v]
          /\ row'[r].status \in {"done", "failed", "cancelled"} \/ row'[r] = row[r]
      BY <1>3, Releasing DEF Release, OneBaton
    <2>3. Idle => Idle'
      BY <2>2 DEF Idle
    <2> QED BY <2>1, <2>2, <2>3 DEF Open, Waiting
  <1>4. ASSUME NEW c \in Client, Request(c) PROVE Open'
    <2>1. UNCHANGED queue
      BY <1>4, Deciding
    <2>2. CASE UNCHANGED <<run, approval, owes>>
      BY <2>1, <2>2 DEF Open, Waiting, Idle
    <2>3. CASE run'.status = "CANCELLING"
      BY <2>3 DEF Open, K!Terminal
    <2>4. CASE /\ target[c] \in Approval /\ approval[target[c]] = "pending"
               /\ \E d \in {"approved", "denied"} : approval' = [approval EXCEPT ![target[c]] = d]
               /\ run'.status = "QUEUED" \/ owes' = {}
      BY <2>1, <2>4, Resolved DEF Open, Idle, K!Terminal
    <2> QED BY <1>4, <2>2, <2>3, <2>4, Deciding DEF Wrote
  <1>5. ASSUME NEW c \in Client, Continue(c) PROVE Open'
    <2>1. owes # {} /\ approval' = approval
      BY <1>5, BatonContinue DEF Continue
    <2>2. ~Waiting /\ run.status \notin K!Terminal /\ run \in K!Row
      BY <2>1 DEF Open, OneBaton, Baton, Types, K!TypeOK
    <2>3. run'.status \notin K!Terminal
      BY <1>5, <2>2 DEF Continue, K!Terminal, K!Row
    <2> QED BY <2>1, <2>2, <2>3 DEF Open, Waiting
  <1>6. ASSUME Tick \/ \E w \in Worker : Start(w) \/ GiveUp(w) \/ Heartbeats(w) PROVE Open'
    <2>1. UNCHANGED <<run, approval, owes>>
      BY <1>6 DEF Tick, Start, GiveUp, Heartbeats
    <2>2. /\ row'[r].status = row[r].status \/ row'[r].status = "dead_letter"
          /\ \/ UNCHANGED duty
             \/ \E w \in Worker : /\ duty[w] = "down" /\ duty'[w] = "polling"
                                  /\ \A v \in Worker \ {w} : duty'[v] = duty[v]
      BY <1>6, Ticking, Starting, GivingUp, Beating DEF Tick, Start, GiveUp, OneBaton
    <2>3. Idle <=> Idle'
      BY <2>2 DEF Idle
    <2> QED BY <2>1, <2>2, <2>3 DEF Open, Waiting
  <1>7. CASE UNCHANGED vars
    BY <1>7 DEF vars, Open, Idle, Waiting
  <1> QED BY <1>1, <1>2, <1>3, <1>4, <1>5, <1>6, <1>7, NothingAfter, NobodyDies DEF Next, OneBaton

(* The kinds of events readers tell apart. *)
LEMMA Told ==
  /\ \A e \in {"MODEL_RESPONSE", "TOOL_CALL", "TOOL_RESULT", "APPROVAL_RESOLVED", "RUN_QUEUED"} :
       KindOf(e) = "step"
  /\ KindOf("APPROVAL_REQUESTED") = "approval_requested"
  /\ KindOf("ARTIFACT_CREATED") = "artifact_created"
  /\ KindOf("RUN_CANCELLED") = "run_cancelled" /\ KindOf("ERROR") = "error"
  BY DEF KindOf

(* A row and a log that are as before. *)
LEMMA Silent ==
  ASSUME log' = log, StatusOf(run'.status) = StatusOf(run.status)
  PROVE  UNCHANGED Seen!log
  BY DEF Seen!log, StatusOf

(* What an execution writes, readers see as its work or its end. *)
LEMMA SeenWorker ==
  ASSUME Calm, OneBaton, Open, NEW w \in Worker, Execute(w)
  PROVE  [Seen!Next]_(Seen!log)
  <1>1. /\ duty[w] = "executing" /\ pc[w] \in Working /\ K!Step(w)
    BY DEF Execute, OneBaton, Duties
  <1>2. StatusOf(run.status) = "ACTIVE"
    <2>1. run.status \notin K!Terminal
      BY <1>1 DEF Open, Idle
    <2>2. run.status # "AWAITING_APPROVAL"
      BY <1>1, Alone
    <2> QED BY <2>1, <2>2 DEF StatusOf
  <1>3. WorkerWrote(w)
    BY <1>1, WorkerMoves DEF OneBaton, Types
  <1>4. log \in Seq(K!EventType)
    BY DEF OneBaton, Types, K!TypeOK
  <1>5. ASSUME NEW e \in K!EventType, log' = log \o <<e>>
        PROVE  Seen!Commit(<<KindOf(e)>>, "ACTIVE", StatusOf(run'.status))
    <2>1. Seen!Commit(<<KindOf(e)>>, StatusOf(run.status), StatusOf(run'.status))
      BY <1>4, <1>5, CommittingFew
    <2> QED BY <1>2, <2>1
  <1>6. CASE UNCHANGED <<run, log>>
    BY <1>6, Silent
  <1>7. CASE \E e \in {"MODEL_RESPONSE", "TOOL_CALL", "TOOL_RESULT"} :
               log' = Append(log, e) /\ UNCHANGED run
    <2>1. PICK e \in {"MODEL_RESPONSE", "TOOL_CALL", "TOOL_RESULT"} :
            log' = Append(log, e) /\ UNCHANGED run
      BY <1>7
    <2>2. e \in K!EventType
      BY <2>1 DEF K!EventType
    <2>3. log' = log \o <<e>>
      BY <1>4, <2>1, <2>2, AppendIsConcat
    <2>4. StatusOf(run'.status) = "ACTIVE"
      BY <1>2, <2>1
    <2>5. KindOf(e) = "step"
      BY <2>1, Told
    <2>6. Seen!Commit(<<"step">>, "ACTIVE", "ACTIVE")
      BY <1>5, <2>2, <2>3, <2>4, <2>5 DEF Seen!Commit
    <2> QED BY <2>6 DEF Seen!Next, Seen!Work
  <1>8. CASE Wrote(w, "RUNNING", <<>>)
    <2>1. log' = log
      BY <1>4, <1>8, ConcatEmptySeq DEF Wrote
    <2>2. StatusOf(run'.status) = "ACTIVE"
      BY <1>8 DEF Wrote, StatusOf, K!Terminal
    <2> QED BY <1>2, <2>1, <2>2, Silent
  <1>9. ASSUME NEW s, NEW e \in K!EventType, Wrote(w, s, <<e>>),
               s \in K!Terminal \cup {"AWAITING_APPROVAL"}
        PROVE  Seen!Commit(<<KindOf(e)>>, "ACTIVE", s)
    <2>1. StatusOf(run'.status) = s
      BY <1>9 DEF Wrote, StatusOf
    <2>2. log' = log \o <<e>>
      BY <1>9 DEF Wrote
    <2> QED BY <1>5, <2>1, <2>2 DEF Seen!Commit
  <1>10. /\ {"AWAITING_APPROVAL", "COMPLETED", "CANCELLED", "FAILED"}
              \subseteq K!Terminal \cup {"AWAITING_APPROVAL"}
         /\ {"APPROVAL_REQUESTED", "ARTIFACT_CREATED", "RUN_CANCELLED", "ERROR"} \subseteq K!EventType
    BY DEF K!Terminal, K!EventType
  <1>11. CASE Wrote(w, "AWAITING_APPROVAL", <<"APPROVAL_REQUESTED">>)
    <2>1. Seen!Commit(<<"approval_requested">>, "ACTIVE", "AWAITING_APPROVAL")
      BY <1>9, <1>10, <1>11, Told
    <2> QED BY <2>1 DEF Seen!Next, Seen!Pause
  <1>12. CASE Wrote(w, "COMPLETED", <<"ARTIFACT_CREATED">>)
    <2>1. Seen!Commit(<<"artifact_created">>, "ACTIVE", "COMPLETED")
      BY <1>9, <1>10, <1>12, Told
    <2> QED BY <2>1 DEF Seen!Next, Seen!Ends
  <1>13. CASE Wrote(w, "CANCELLED", <<"RUN_CANCELLED">>)
    <2>1. Seen!Commit(<<"run_cancelled">>, "ACTIVE", "CANCELLED")
      BY <1>9, <1>10, <1>13, Told
    <2> QED BY <2>1 DEF Seen!Next, Seen!Ends
  <1>14. CASE Wrote(w, "FAILED", <<"ERROR">>)
    <2>1. Seen!Commit(<<"error">>, "ACTIVE", "FAILED")
      BY <1>9, <1>10, <1>14, Told
    <2> QED BY <2>1 DEF Seen!Next, Seen!Ends
  <1> QED BY <1>3, <1>6, <1>7, <1>8, <1>11, <1>12, <1>13, <1>14 DEF WorkerWrote

(* What a request writes, they see as the run going on, or as its denial.  *)
LEMMA SeenRequest ==
  ASSUME Calm, K!OneLoop, OneBaton, Open, KP!Synced, NEW c \in Client, Request(c)
  PROVE  [Seen!Next]_(Seen!log)
  <1>0. c \in K!Actor /\ log \in Seq(K!EventType)
    BY DEF K!Actor, OneBaton, Types, K!TypeOK
  <1>1. CASE UNCHANGED <<run, log>>
    BY <1>1, Silent
  <1>2. ASSUME pc[c] \in {"cancelling", "approving", "denying"} PROVE hdr[c] = run
    BY <1>0, <1>2, OnRow DEF K!Deciding
  <1>3. CASE Wrote(c, "CANCELLING", <<>>) /\ pc[c] = "cancelling"
    <2>1. run.status \notin K!Terminal
      BY <1>2, <1>3, FinishedStays DEF Wrote, K!Terminal
    <2>2. StatusOf(run'.status) = "ACTIVE" /\ StatusOf(run.status) \in {"ACTIVE", "AWAITING_APPROVAL"}
      BY <1>3, <2>1 DEF Wrote, StatusOf, K!Terminal
    <2>3. log' = log \o <<>> /\ log \o <<>> = log
      BY <1>0, <1>3, ConcatEmptySeq DEF Wrote
    <2>4. CASE StatusOf(run.status) = "ACTIVE"
      BY <2>2, <2>3, <2>4, Silent
    <2>5. CASE StatusOf(run.status) = "AWAITING_APPROVAL"
      <3>1. Seen!Commit(<<>>, StatusOf(run.status), StatusOf(run'.status))
        BY <1>0, <2>3, CommittingFew
      <3>2. Seen!Commit(<<>>, "AWAITING_APPROVAL", "ACTIVE")
        BY <2>2, <2>5, <3>1 DEF Seen!Commit
      <3> QED BY <3>2 DEF Seen!Next, Seen!Proceed
    <2> QED BY <2>2, <2>4, <2>5
  <1>4. CASE /\ pc[c] = "approving" /\ Wrote(c, "QUEUED", <<"APPROVAL_RESOLVED", "RUN_QUEUED">>)
             /\ target[c] \in Approval /\ approval[target[c]] = "pending"
    <2>1. run.status \in {"AWAITING_APPROVAL", "CANCELLING"}
      BY <1>4 DEF Open, Waiting
    <2>2. run.status = "AWAITING_APPROVAL"
      BY <1>2, <1>4, <2>1 DEF Wrote, K!CanTransition, K!ValidTransitions, K!Status
    <2>3. StatusOf(run.status) = "AWAITING_APPROVAL" /\ StatusOf(run'.status) = "ACTIVE"
      BY <1>4, <2>2 DEF Wrote, StatusOf, K!Terminal
    <2>4. /\ "APPROVAL_RESOLVED" \in K!EventType /\ "RUN_QUEUED" \in K!EventType
          /\ log' = log \o <<"APPROVAL_RESOLVED", "RUN_QUEUED">>
      BY <1>4 DEF Wrote, K!EventType
    <2>5. Seen!Commit(<<KindOf("APPROVAL_RESOLVED"), KindOf("RUN_QUEUED")>>,
                      StatusOf(run.status), StatusOf(run'.status))
      BY <1>0, <2>4, CommittingFew
    <2>6. Seen!Commit(<<"step", "step">>, "AWAITING_APPROVAL", "ACTIVE")
      BY <2>3, <2>5, Told DEF Seen!Commit
    <2> QED BY <2>6 DEF Seen!Next, Seen!Proceed
  <1>5. CASE /\ pc[c] = "denying" /\ Wrote(c, "FAILED", <<"APPROVAL_RESOLVED">>)
             /\ target[c] \in Approval /\ approval[target[c]] = "pending"
    <2>1. run.status \in {"AWAITING_APPROVAL", "CANCELLING"}
      BY <1>5 DEF Open, Waiting
    <2>2. StatusOf(run.status) \in {"ACTIVE", "AWAITING_APPROVAL"} /\ StatusOf(run'.status) = "FAILED"
      BY <1>5, <2>1 DEF Wrote, StatusOf, K!Terminal
    <2>3. "APPROVAL_RESOLVED" \in K!EventType /\ log' = log \o <<"APPROVAL_RESOLVED">>
      BY <1>5 DEF Wrote, K!EventType
    <2>4. Seen!Commit(<<KindOf("APPROVAL_RESOLVED")>>, StatusOf(run.status), StatusOf(run'.status))
      BY <1>0, <2>3, CommittingFew
    <2>5. Seen!Commit(<<"step">>, StatusOf(run.status), "FAILED")
      BY <2>2, <2>4, Told DEF Seen!Commit
    <2> QED BY <2>2, <2>5 DEF Seen!Next, Seen!Deny
  <1> QED BY <1>1, <1>3, <1>4, <1>5, Deciding

(* The way into the queue is a step. *)
LEMMA SeenContinue ==
  ASSUME OneBaton, Open, NEW c \in Client, Continue(c)
  PROVE  [Seen!Next]_(Seen!log)
  <1>1. /\ owes # {} /\ run.status # "AWAITING_APPROVAL"
        /\ log \in Seq(K!EventType) /\ run \in K!Row
    BY BatonContinue DEF Continue, OneBaton, Types, K!TypeOK
  <1>2. run.status \notin K!Terminal
    BY <1>1 DEF Open
  <1>3. CASE UNCHANGED <<run, log>>
    BY <1>3, Silent
  <1>4. CASE run' = [run EXCEPT !.status = "QUEUED"] /\ log' = Append(log, "RUN_QUEUED")
    <2>1. StatusOf(run.status) = "ACTIVE" /\ StatusOf(run'.status) = "ACTIVE"
      BY <1>1, <1>2, <1>4 DEF StatusOf, K!Terminal, K!Row
    <2>2. "RUN_QUEUED" \in K!EventType
      BY DEF K!EventType
    <2>3. log' = log \o <<"RUN_QUEUED">>
      BY <1>1, <1>4, <2>2, AppendIsConcat
    <2>4. Seen!Commit(<<KindOf("RUN_QUEUED")>>, StatusOf(run.status), StatusOf(run'.status))
      BY <1>1, <2>2, <2>3, CommittingFew
    <2>5. Seen!Commit(<<"step">>, "ACTIVE", "ACTIVE")
      BY <2>1, <2>4, Told DEF Seen!Commit
    <2> QED BY <2>5 DEF Seen!Next, Seen!Work
  <1> QED BY <1>3, <1>4 DEF Continue

(* Every step of the daemon is a commit that readers see, or nothing to    *)
(* them.                                                                   *)
LEMMA SeenNext ==
  ASSUME Calm, K!OneLoop, OneBaton, Open, KP!Synced, [Next]_vars
  PROVE  [Seen!Next]_(Seen!log)
  <1>1. CASE UNCHANGED <<run, log>>
    BY <1>1, Silent
  <1>2. ASSUME NEW w \in Worker, Claim(w) \/ Release(w) PROVE UNCHANGED <<run, log>>
    BY <1>2, Beginning, BatonRelease DEF Claim, OneBaton, Types
  <1>3. ASSUME Tick \/ \E w \in Worker : Start(w) \/ GiveUp(w) \/ Heartbeats(w)
        PROVE  UNCHANGED <<run, log>>
    BY <1>3, BatonQueue
  <1>4. UNCHANGED vars => UNCHANGED <<run, log>>
    BY DEF vars
  <1> QED BY <1>1, <1>2, <1>3, <1>4, SeenWorker, SeenRequest, SeenContinue, NothingAfter,
             NobodyDies DEF Next, OneBaton

(* A calm daemon of one process writes a log that streams can follow: what *)
(* RunLog says of events and statuses, on which the proofs of the streams  *)
(* rest, is what the kernel does.                                          *)
THEOREM StreamsAreFed ==
  ASSUME Calm, K!OneLoop
  PROVE  Spec => FeedsStreams
  <1>1. Init => Open
    <2> SUFFICES ASSUME Init PROVE Open
      OBVIOUS
    <2>1. run.status \in {"CREATED", "QUEUED"} /\ ~Waiting
      BY DEF Init, Created, K!Init, Waiting
    <2> QED BY <2>1 DEF Open, K!Terminal
  <1>2. OneBaton /\ Open /\ [Next]_vars => Open'
    BY OpenNext
  <1>3. Init => Seen!Init
    <2> SUFFICES ASSUME Init PROVE Seen!Init
      OBVIOUS
    <2>1. run.status \in {"CREATED", "QUEUED"} /\ log = <<>>
      BY DEF Init, Created, K!Init
    <2>2. StatusOf(run.status) = "ACTIVE" /\ KindsOf(log) = <<>>
      BY <2>1, KindsOfFew DEF StatusOf, K!Terminal
    <2> QED BY <2>2 DEF Seen!Init, StatusOf, KindsOf, KindOf
  <1>4. OneBaton /\ Open /\ Single /\ [Next]_vars => [Seen!Next]_(Seen!log)
    BY SeenNext DEF Single
  <1>5. ~InlineResume
    BY DEF Calm
  <1> QED BY <1>1, <1>2, <1>3, <1>4, <1>5, OneBatonAlways, SingleAlways, PTL
          DEF Spec, FeedsStreams, Seen!Spec
=============================================================================
