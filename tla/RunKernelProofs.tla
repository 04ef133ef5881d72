-------------------------- MODULE RunKernelProofs --------------------------
(***************************************************************************)
(* Proofs about RunKernel, for any number of workers, clients, approvals,  *)
(* rounds and calls.                                                       *)
(*                                                                         *)
(* TypeCorrect needs no assumption on the processes.  The others hold when *)
(* all coroutines share one event loop: then the coroutine that decides on *)
(* a header holds the loop, so the header it decides on is the row.        *)
(***************************************************************************)
EXTENDS RunKernel, TLAPS

PCs == Suspended \cup Segment \cup Parked

(* While a tool call is handled, the response still has one to execute. *)
InCall == {"next_call", "call", "tool", "result"}
CallPending == \A a \in Actor : pc[a] \in InCall => calls[a] > 0

USE DEF db, mem, bounds, PCs

-----------------------------------------------------------------------------
(* What the helpers keep. *)

(* The blank header is a row. *)
LEMMA BlankIsRow == Blank \in Row
  BY DEF Blank, Row, Status, Terminal

(* Every recorded status is a status. *)
LEMMA DecisionIsStatus ==
  ASSUME NEW l \in DOMAIN Decision
  PROVE  Decision[l] \in Status
  BY DEF Decision, Status, Terminal

(* A recorded header is a row, and the log stays a log. *)
LEMMA RecordTyped ==
  ASSUME TypeOK, NEW a \in Actor, pc[a] \in DOMAIN Decision, NEW header \in Row,
         NEW events \in Seq(EventType), Record(a, header, events)
  PROVE  run' \in Row /\ log' \in Seq(EventType)
  <1>1. run' \in Row
    BY DecisionIsStatus DEF Record, Row
  <1>2. log' \in Seq(EventType)
    BY DEF Record, TypeOK
  <1> QED BY <1>1, <1>2

(* A coroutine that keeps the loop keeps the types. *)
LEMMA StayTyped ==
  ASSUME TypeOK, NEW a \in Actor, NEW l \in PCs, Stay(a, l)
  PROVE  pc' \in [Actor -> PCs] /\ loop' \in [Process -> Actor \cup {NoActor}]
  BY DEF TypeOK, Stay

(* What is read from the row is a header. *)
LEMMA ReadTyped ==
  ASSUME TypeOK, NEW a \in Actor, ReadHeader(a)
  PROVE  hdr' \in [Actor -> Row]
  BY DEF TypeOK, ReadHeader

(* A coroutine that waits keeps the types. *)
LEMMA SuspendTyped ==
  ASSUME TypeOK, NEW a \in Actor, NEW l \in PCs, Suspend(a, l)
  PROVE  /\ pc' \in [Actor -> PCs]
         /\ loop' \in [Process -> Actor \cup {NoActor}]
         /\ hdr' \in [Actor -> Row]
  BY BlankIsRow DEF TypeOK, Suspend

(* A coroutine that gives the loop up keeps the types. *)
LEMMA LeaveTyped ==
  ASSUME TypeOK, NEW a \in Actor, NEW l \in PCs, Leave(a, l)
  PROVE  /\ pc' \in [Actor -> PCs]
         /\ loop' \in [Process -> Actor \cup {NoActor}]
         /\ hdr' \in [Actor -> Row]
         /\ calls' \in [Actor -> Nat]
         /\ round' \in [Actor -> Nat]
  <1>1. Suspend(a, l)
    BY DEF Leave
  <1> QED BY <1>1, SuspendTyped DEF TypeOK, Leave

(* A new run has its types. *)
LEMMA TypeInit == RunKernelAssumption /\ Init => TypeOK
  <1> SUFFICES ASSUME RunKernelAssumption, Init PROVE TypeOK
    OBVIOUS
  <1>1. (CHOOSE ap \in Approval : TRUE) \in Approval
    BY DEF RunKernelAssumption
  <1>2. run \in Row
    BY DEF Init, Row, Status
  <1>3. pc \in [Actor -> PCs]
    BY DEF Init, Parked
  <1> QED BY <1>1, <1>2, <1>3, BlankIsRow DEF Init, TypeOK

-----------------------------------------------------------------------------
(* Each step of an execution keeps the types. *)
LEMMA TypeStep ==
  ASSUME RunKernelAssumption, TypeOK, CallPending, NEW a \in Actor, Step(a)
  PROVE  TypeOK'
  <1> USE DEF TypeOK
  <1>a. hdr[a] \in Row /\ run \in Row /\ calls[a] \in Nat /\ round[a] \in Nat
    OBVIOUS
  <1>b. /\ <<>> \in Seq(EventType)
        /\ \A e \in EventType : <<e>> \in Seq(EventType) /\ Append(log, e) \in Seq(EventType)
    OBVIOUS
  <1>c. {"APPROVAL_REQUESTED", "ARTIFACT_CREATED", "RUN_CANCELLED", "ERROR", "MODEL_RESPONSE",
          "TOOL_CALL", "TOOL_RESULT"} \subseteq EventType
    BY DEF EventType
  <1>d. {"returned", "failed", "failure", "idle"} \subseteq PCs
        /\ {"model", "tool"} \subseteq PCs
        /\ {"mark_failed", "mark_cancelled", "start", "response", "complete", "next_call", "call",
             "result", "continue", "ask", "step", "finalizing", "failing"} \subseteq PCs
    BY DEF Parked, Suspended, Segment, Deciding
  <1>1. CASE StepRead(a)
    <2>1. CASE round[a] < MaxRounds /\ run.status \in Terminal
      BY <1>1, <2>1, <1>d, LeaveTyped DEF StepRead
    <2>2. CASE ~(round[a] < MaxRounds /\ run.status \in Terminal)
      <3>1. PICK l \in {"mark_failed", "mark_cancelled", "start"} : Stay(a, l)
        BY <1>1, <2>2 DEF StepRead
      <3> QED BY <1>1, <2>2, <3>1, <1>d, StayTyped, ReadTyped DEF StepRead
    <2> QED BY <2>1, <2>2
  <1>2. CASE StepStart(a)
    <2>1. run' \in Row /\ log' \in Seq(EventType)
      BY <1>2, <1>a, <1>b, RecordTyped DEF StepStart, Decision
    <2> QED BY <1>2, <2>1, <1>d, SuspendTyped DEF StepStart
  <1>3. CASE ModelReturn(a)
    <2>1. PICK l \in {"mark_cancelled", "mark_failed", "response"} : Stay(a, l)
      BY <1>3 DEF ModelReturn
    <2> QED BY <1>3, <2>1, <1>d, StayTyped, ReadTyped DEF ModelReturn
  <1>4. CASE RecordResponse(a)
    <2>1. PICK l \in {"mark_failed", "complete", "next_call"} : Stay(a, l)
      BY <1>4 DEF RecordResponse
    <2>2. calls' \in [Actor -> Nat]
      BY <1>4 DEF RecordResponse
    <2>3. log' \in Seq(EventType)
      BY <1>4, <1>b, <1>c DEF RecordResponse, AppendEvent
    <2> QED BY <1>4, <2>1, <2>2, <2>3, <1>d, StayTyped DEF RecordResponse, AppendEvent
  <1>5. CASE NextCall(a)
    <2>1. PICK l \in {"mark_cancelled", "call"} : Stay(a, l)
      BY <1>5 DEF NextCall
    <2> QED BY <1>5, <2>1, <1>d, StayTyped, ReadTyped DEF NextCall
  <1>6. CASE RecordCall(a)
    <2>1. log' \in Seq(EventType)
      BY <1>6, <1>b, <1>c DEF RecordCall, AppendEvent
    <2> QED BY <1>6, <2>1, <1>d, SuspendTyped DEF RecordCall, AppendEvent
  <1>7. CASE ToolReturn(a)
    <2>1. PICK l \in {"mark_cancelled", "result"} : Stay(a, l)
      BY <1>7 DEF ToolReturn
    <2> QED BY <1>7, <2>1, <1>d, StayTyped, ReadTyped DEF ToolReturn
  <1>8. CASE RecordResult(a)
    <2>1. PICK l \in {"next_call", "continue", "ask"} : Stay(a, l)
      BY <1>8 DEF RecordResult
    <2>2. calls[a] - 1 \in Nat
      BY <1>8 DEF RecordResult, CallPending, InCall
    <2>3. log' \in Seq(EventType)
      BY <1>8, <1>b, <1>c DEF RecordResult, AppendEvent
    <2> QED BY <1>8, <2>1, <2>2, <2>3, <1>d, StayTyped DEF RecordResult, AppendEvent
  <1>9. CASE AskApproval(a)
    <2>1. run' \in Row /\ log' \in Seq(EventType)
      BY <1>9, <1>a, <1>b, <1>c, RecordTyped DEF AskApproval, Decision
    <2>2. approval' \in [Approval -> {"absent", "pending", "approved", "denied"}]
      BY <1>9 DEF AskApproval, Fresh
    <2> QED BY <1>9, <2>1, <2>2, <1>d, LeaveTyped DEF AskApproval
  <1>10. CASE EndRound(a)
    <2>1. run' \in Row /\ log' \in Seq(EventType)
      BY <1>10, <1>a, <1>b, RecordTyped DEF EndRound, Decision
    <2>2. round' \in [Actor -> Nat]
      BY <1>10, <1>a DEF EndRound
    <2> QED BY <1>10, <2>1, <2>2, <1>d, StayTyped DEF EndRound
  <1>11. CASE Complete(a)
    <2>1. run' \in Row /\ log' \in Seq(EventType)
      BY <1>11, <1>a, <1>b, <1>c, RecordTyped DEF Complete, Decision
    <2> QED BY <1>11, <2>1, <1>d, LeaveTyped DEF Complete
  <1>12. CASE MarkCancelled(a)
    <2>1. run' \in Row /\ log' \in Seq(EventType)
      BY <1>12, <1>a, <1>b, <1>c, RecordTyped DEF MarkCancelled, Decision
    <2> QED BY <1>12, <2>1, <1>d, LeaveTyped DEF MarkCancelled
  <1>13. CASE MarkFailed(a)
    <2>1. run' \in Row /\ log' \in Seq(EventType)
      BY <1>13, <1>a, <1>b, <1>c, RecordTyped DEF MarkFailed, Decision
    <2>2. PICK l \in {"failed", "returned"} : Leave(a, l)
      BY <1>13 DEF MarkFailed
    <2> QED BY <1>13, <2>1, <2>2, <1>d, LeaveTyped DEF MarkFailed
  <1>14. ASSUME Raise(a), UNCHANGED <<db, target, bounds>> PROVE TypeOK'
    <2>1. PICK l \in {"idle", "failed", "failure"} : Leave(a, l)
      BY <1>14 DEF Raise
    <2> QED BY <1>14, <2>1, <1>d, LeaveTyped
  <1>15. CASE RecordRaises(a)
    BY <1>14, <1>15 DEF RecordRaises
  <1>16. CASE CallRaises(a)
    BY <1>14, <1>16 DEF CallRaises
  <1>17. CASE FinalizeRead(a)
    <2>1. CASE run.status \in Terminal
      BY <1>17, <2>1, <1>d, LeaveTyped DEF FinalizeRead
    <2>2. CASE run.status \notin Terminal
      BY <1>17, <2>2, <1>d, StayTyped, ReadTyped DEF FinalizeRead
    <2> QED BY <2>1, <2>2
  <1>18. CASE FailureRead(a)
    <2>1. CASE run.status \in Terminal
      BY <1>18, <2>1, <1>d, LeaveTyped DEF FailureRead
    <2>2. CASE run.status \notin Terminal
      BY <1>18, <2>2, <1>d, StayTyped, ReadTyped DEF FailureRead
    <2> QED BY <2>1, <2>2
  <1>19. CASE Finish(a)
    <2>1. CASE pc' = [pc EXCEPT ![a] = "idle"] /\ UNCHANGED loop
      BY <1>19, <2>1, <1>d DEF Finish
    <2>2. CASE Stay(a, "failure")
      BY <1>19, <2>2, <1>d, StayTyped DEF Finish
    <2> QED BY <1>19, <2>1, <2>2 DEF Finish
  <1> QED
    BY <1>1, <1>2, <1>3, <1>4, <1>5, <1>6, <1>7, <1>8, <1>9, <1>10, <1>11, <1>12, <1>13,
       <1>15, <1>16, <1>17, <1>18, <1>19 DEF Step

(* So does a new execution, each step of a request, a crash and a stutter. *)
LEMMA TypeBegin ==
  ASSUME TypeOK, NEW a \in Actor, Begin(a)
  PROVE  TypeOK'
  BY DEF TypeOK, Begin, Suspended

(* A request changes nothing of the run when it begins. *)
LEMMA RequestTyped ==
  ASSUME TypeOK, NEW c \in Actor, Request(c)
  PROVE  /\ UNCHANGED <<run, log, artifacts, approval, calls, round, execs>>
         /\ requests' \in Nat
  BY DEF TypeOK, Request

(* The handlers keep the types. *)
LEMMA TypeHandle ==
  ASSUME RunKernelAssumption, TypeOK, NEW c \in Client, Handle(c)
  PROVE  TypeOK'
  <1> USE DEF TypeOK
  <1>a. c \in Actor /\ hdr[c] \in Row /\ [hdr[c] EXCEPT !.cancelReq = TRUE] \in Row
    BY DEF Actor, Row
  <1>b. /\ <<>> \in Seq(EventType) /\ <<"APPROVAL_RESOLVED">> \in Seq(EventType)
        /\ <<"RUN_QUEUED">> \in Seq(EventType)
        /\ <<"APPROVAL_RESOLVED", "RUN_QUEUED">> \in Seq(EventType)
    BY DEF EventType
  <1>c. {"idle", "finalize", "cancelling", "approving", "denying", "queueing",
         "step"} \subseteq PCs
    BY DEF Parked, Segment, Deciding
  <1>d. ASSUME CancelTask(c)
        PROVE  /\ pc' \in [Actor -> PCs] /\ hdr' \in [Actor -> Row]
               /\ loop' \in [Process -> Actor \cup {NoActor}]
    BY <1>c, <1>d, BlankIsRow DEF CancelTask
  <1>1. CASE CancelRead(c)
    <2>0. /\ UNCHANGED <<run, log, artifacts, approval, calls, round, execs, target>>
          /\ requests' \in Nat
      BY <1>1, <1>a, RequestTyped DEF CancelRead
    <2>1. CASE CancelTask(c)
      BY <2>0, <2>1, <1>d
    <2>2. CASE ReadHeader(c) /\ Stay(c, "cancelling")
      BY <2>0, <2>2, <1>a, <1>c, StayTyped, ReadTyped
    <2> QED BY <1>1, <2>1, <2>2 DEF CancelRead
  <1>2. CASE CancelWrite(c)
    <2>1. run' \in Row /\ log' \in Seq(EventType)
      BY <1>2, <1>a, <1>b, RecordTyped DEF CancelWrite, Decision
    <2> QED BY <1>2, <2>1, <1>d DEF CancelWrite
  <1>3. CASE ResolveRead(c)
    <2>1. PICK l \in {"approving", "denying"} : Stay(c, l)
      BY <1>3 DEF ResolveRead
    <2>2. target' \in [Actor -> Approval]
      BY <1>3 DEF ResolveRead
    <2>3. Request(c) /\ ReadHeader(c)
      BY <1>3 DEF ResolveRead
    <2> QED BY <2>1, <2>2, <2>3, <1>a, <1>c, StayTyped, ReadTyped, RequestTyped
  <1>4. CASE ResolveApproved(c)
    <2>1. run' \in Row /\ log' \in Seq(EventType)
      BY <1>4, <1>a, <1>b, RecordTyped DEF ResolveApproved, Decision
    <2> QED BY <1>4, <2>1, <1>a, <1>c, LeaveTyped DEF ResolveApproved
  <1>5. CASE ResolveDenied(c)
    <2>1. run' \in Row /\ log' \in Seq(EventType)
      BY <1>5, <1>a, <1>b, RecordTyped DEF ResolveDenied, Decision
    <2> QED BY <1>5, <2>1, <1>a, <1>c, LeaveTyped DEF ResolveDenied
  <1>6. CASE QueueRead(c)
    BY <1>6, <1>a, <1>c, StayTyped, ReadTyped, RequestTyped DEF QueueRead
  <1>7. CASE QueueWrite(c)
    <2>1. run' \in Row /\ log' \in Seq(EventType)
      BY <1>7, <1>a, <1>b, RecordTyped DEF QueueWrite, Decision
    <2> QED BY <1>7, <2>1, <1>a, <1>c, LeaveTyped DEF QueueWrite
  <1>8. CASE Resume(c)
    BY <1>8, <1>a, <1>c, StayTyped DEF Resume
  <1> QED BY <1>1, <1>2, <1>3, <1>4, <1>5, <1>6, <1>7, <1>8 DEF Handle

(* The death of a process keeps the types. *)
LEMMA TypeCrash ==
  ASSUME TypeOK, NEW p \in Process, Crash(p)
  PROVE  TypeOK'
  BY BlankIsRow DEF TypeOK, Crash, Parked

(* A step that changes nothing keeps the types. *)
LEMMA TypeStutter == TypeOK /\ UNCHANGED vars => TypeOK'
  BY DEF TypeOK, vars

(* The tool calls left over are counted right. *)
LEMMA CallPendingKept ==
  ASSUME RunKernelAssumption, TypeOK, CallPending, [Next]_vars
  PROVE  CallPending'
  <1> USE DEF TypeOK, CallPending, InCall
  <1>0. MaxCalls \in Nat
    BY DEF RunKernelAssumption
  <1>1. ASSUME NEW a \in Actor, Step(a) PROVE CallPending'
    <2>1. CASE StepRead(a)
      BY <2>1 DEF StepRead, Leave, Suspend, Stay
    <2>2. CASE RecordResponse(a)
      <3>1. CASE \E l \in {"mark_failed", "complete"} : Stay(a, l) /\ UNCHANGED calls
        BY <3>1 DEF Stay
      <3>2. CASE \E n \in 1..MaxCalls : calls' = [calls EXCEPT ![a] = n] /\ Stay(a, "next_call")
        <4>1. PICK n \in 1..MaxCalls : calls' = [calls EXCEPT ![a] = n] /\ Stay(a, "next_call")
          BY <3>2
        <4>2. n > 0
          BY <1>0
        <4> QED BY <4>1, <4>2 DEF Stay
      <3> QED BY <2>2, <3>1, <3>2 DEF RecordResponse
    <2>3. CASE RecordResult(a)
      BY <2>3 DEF RecordResult, Stay
    <2>4. CASE StepStart(a) \/ ModelReturn(a) \/ NextCall(a) \/ RecordCall(a) \/ ToolReturn(a)
                \/ EndRound(a) \/ Finish(a)
      BY <2>4 DEF StepStart, ModelReturn, NextCall, RecordCall, ToolReturn, EndRound, Finish,
                  Suspend, Stay
    <2>5. CASE AskApproval(a) \/ Complete(a) \/ MarkCancelled(a) \/ MarkFailed(a)
      BY <2>5 DEF AskApproval, Complete, MarkCancelled, MarkFailed, Leave, Suspend
    <2>6. CASE RecordRaises(a) \/ CallRaises(a)
      BY <2>6 DEF RecordRaises, CallRaises, Raise, Leave, Suspend
    <2>7. CASE FinalizeRead(a) \/ FailureRead(a)
      BY <2>7 DEF FinalizeRead, FailureRead, Leave, Suspend, Stay
    <2> QED BY <1>1, <2>1, <2>2, <2>3, <2>4, <2>5, <2>6, <2>7 DEF Step
  <1>2. ASSUME NEW c \in Client, Handle(c) PROVE CallPending'
    <2>0. c \in Actor
      BY DEF Actor
    <2>1. CASE CancelRead(c) \/ CancelWrite(c)
      BY <2>0, <2>1 DEF CancelRead, CancelWrite, CancelTask, Request, Stay
    <2>2. CASE ResolveRead(c) \/ QueueRead(c)
      BY <2>0, <2>2 DEF ResolveRead, QueueRead, Request, Stay
    <2>3. CASE ResolveApproved(c) \/ ResolveDenied(c) \/ QueueWrite(c)
      BY <2>0, <2>3 DEF ResolveApproved, ResolveDenied, QueueWrite, Leave, Suspend
    <2>4. CASE Resume(c)
      BY <2>0, <2>4 DEF Resume, Stay
    <2> QED BY <1>2, <2>1, <2>2, <2>3, <2>4 DEF Handle
  <1>3. ASSUME NEW w \in Worker, Begin(w) PROVE CallPending'
    BY <1>3 DEF Begin, Actor
  <1>4. ASSUME NEW p \in Process, Crash(p) PROVE CallPending'
    BY <1>4 DEF Crash
  <1>5. CASE UNCHANGED vars
    BY <1>5 DEF vars
  <1> QED BY <1>1, <1>2, <1>3, <1>4, <1>5 DEF Next

(* Every step keeps the types. *)
LEMMA TypeNext ==
  ASSUME RunKernelAssumption, TypeOK, CallPending, [Next]_vars
  PROVE  TypeOK' /\ CallPending'
  <1>1. ASSUME NEW w \in Worker, Begin(w) PROVE TypeOK'
    BY <1>1, TypeBegin DEF Actor
  <1>2. ASSUME NEW a \in Actor, Step(a) PROVE TypeOK'
    BY <1>2, TypeStep
  <1>3. ASSUME NEW c \in Client, Handle(c) PROVE TypeOK'
    BY <1>3, TypeHandle
  <1>4. ASSUME NEW p \in Process, Crash(p) PROVE TypeOK'
    BY <1>4, TypeCrash
  <1>5. ASSUME UNCHANGED vars PROVE TypeOK'
    BY <1>5, TypeStutter
  <1> QED BY <1>1, <1>2, <1>3, <1>4, <1>5, CallPendingKept DEF Next

(* Every variable keeps its type, whatever the processes, the faults and   *)
(* the dispatcher do.                                                      *)
THEOREM TypeCorrect == Spec => []TypeOK
  <1> DEFINE Inv == TypeOK /\ CallPending
  <1>1. Init => Inv
    BY RunKernelAssumption, TypeInit DEF Init, CallPending, InCall
  <1>2. Inv /\ [Next]_vars => Inv'
    BY RunKernelAssumption, TypeNext
  <1> QED BY <1>1, <1>2, PTL DEF Spec

-----------------------------------------------------------------------------
(* One event loop: the header in hand is the row. *)

Synced == LoopHeld /\ HeaderIsRow

(* Two coroutines of one loop are never both between a read and its write. *)
LEMMA Alone ==
  ASSUME OneLoop, LoopHeld, NEW a \in Actor, CanRun(a) \/ pc[a] \in Segment,
         NoActor \notin Actor, NEW b \in Actor, b # a
  PROVE  pc[b] \notin Segment
  BY DEF OneLoop, LoopHeld, CanRun

(* A step of a that leaves every other coroutine where it is, and ends     *)
(* with a outside a segment, or inside it with the loop and the row.       *)
LEMMA OthersOut ==
  ASSUME RunKernelAssumption, TypeOK, OneLoop, Synced, NEW a \in Actor,
         CanRun(a) \/ pc[a] \in Segment,
         \A b \in Actor \ {a} : pc'[b] = pc[b] \/ pc'[b] \notin Segment,
         \/ pc'[a] \notin Segment
         \/ loop'[Home[a]] = a /\ (pc'[a] \in Deciding => hdr'[a] = run')
  PROVE  Synced'
  <1>1. NoActor \notin Actor
    BY DEF RunKernelAssumption
  <1>2. ASSUME NEW b \in Actor, pc'[b] \in Segment PROVE b = a
    BY <1>1, <1>2, Alone DEF Synced
  <1> QED BY <1>2 DEF Synced, LoopHeld, HeaderIsRow, Segment

(* Staying after reading the header, staying without a write, going away.  *)
LEMMA SyncedStay ==
  ASSUME RunKernelAssumption, TypeOK, OneLoop, Synced, NEW a \in Actor, NEW l \in Segment,
         CanRun(a) \/ pc[a] \in Segment, Stay(a, l),
         l \in Deciding => hdr'[a] = run'
  PROVE  Synced'
  <1>1. pc'[a] = l /\ \A b \in Actor \ {a} : pc'[b] = pc[b]
    BY DEF Stay, TypeOK
  <1>2. loop'[Home[a]] = a
    BY DEF Stay, TypeOK, RunKernelAssumption
  <1> QED BY <1>1, <1>2, OthersOut

(* A coroutine that waits leaves the others in step with the row. *)
LEMMA SyncedSuspend ==
  ASSUME RunKernelAssumption, TypeOK, OneLoop, Synced, NEW a \in Actor, NEW l,
         l \notin Segment, CanRun(a) \/ pc[a] \in Segment, Suspend(a, l)
  PROVE  Synced'
  <1>1. pc'[a] = l /\ \A b \in Actor \ {a} : pc'[b] = pc[b]
    BY DEF Suspend, TypeOK
  <1> QED BY <1>1, OthersOut

(* A step of an execution keeps headers in step with the row. *)
LEMMA SyncedStep ==
  ASSUME RunKernelAssumption, TypeOK, OneLoop, Synced, NEW a \in Actor, Step(a)
  PROVE  Synced'
  <1>a. /\ {"returned", "failed", "failure", "idle", "model", "tool"} \cap Segment = {}
        /\ {"step", "next_call"} \subseteq Segment \ Deciding
        /\ {"mark_failed", "mark_cancelled", "start", "response", "complete", "call", "result",
             "continue", "ask", "finalizing", "failing"} \subseteq Segment \cap Deciding
    BY DEF Segment, Deciding
  <1>b. ReadHeader(a) => hdr'[a] = run
    BY DEF ReadHeader, TypeOK
  <1>c. pc[a] \in Deciding => hdr[a] = run
    BY DEF Synced, HeaderIsRow
  <1>1. CASE StepRead(a)
    <2>1. CASE Leave(a, "returned")
      BY <1>1, <2>1, <1>a, SyncedSuspend DEF StepRead, Leave
    <2>2. CASE ReadHeader(a) /\ \E l \in {"mark_failed", "mark_cancelled", "start"} : Stay(a, l)
      BY <1>1, <2>2, <1>a, <1>b, SyncedStay DEF StepRead
    <2> QED BY <1>1, <2>1, <2>2 DEF StepRead
  <1>2. CASE StepStart(a)
    BY <1>2, <1>a, SyncedSuspend DEF StepStart
  <1>3. CASE ModelReturn(a)
    <2>1. PICK l \in {"mark_cancelled", "mark_failed", "response"} : Stay(a, l)
      BY <1>3 DEF ModelReturn
    <2> QED BY <1>3, <2>1, <1>a, <1>b, SyncedStay DEF ModelReturn
  <1>4. CASE RecordResponse(a)
    <2>1. PICK l \in {"mark_failed", "complete", "next_call"} : Stay(a, l)
      BY <1>4 DEF RecordResponse
    <2> QED BY <1>4, <2>1, <1>a, <1>c, SyncedStay DEF RecordResponse, AppendEvent
  <1>5. CASE NextCall(a)
    <2>1. PICK l \in {"mark_cancelled", "call"} : Stay(a, l)
      BY <1>5 DEF NextCall
    <2> QED BY <1>5, <2>1, <1>a, <1>b, SyncedStay DEF NextCall
  <1>6. CASE RecordCall(a)
    BY <1>6, <1>a, SyncedSuspend DEF RecordCall
  <1>7. CASE ToolReturn(a)
    <2>1. PICK l \in {"mark_cancelled", "result"} : Stay(a, l)
      BY <1>7 DEF ToolReturn
    <2> QED BY <1>7, <2>1, <1>a, <1>b, SyncedStay DEF ToolReturn
  <1>8. CASE RecordResult(a)
    <2>1. PICK l \in {"next_call", "continue", "ask"} : Stay(a, l)
      BY <1>8 DEF RecordResult
    <2> QED BY <1>8, <2>1, <1>a, <1>c, SyncedStay DEF RecordResult, AppendEvent
  <1>9. CASE EndRound(a)
    BY <1>9, <1>a, SyncedStay DEF EndRound
  <1>10. CASE AskApproval(a) \/ Complete(a) \/ MarkCancelled(a)
    BY <1>10, <1>a, SyncedSuspend DEF AskApproval, Complete, MarkCancelled, Leave
  <1>11. CASE MarkFailed(a)
    <2>1. PICK l \in {"failed", "returned"} : Leave(a, l)
      BY <1>11 DEF MarkFailed
    <2> QED BY <1>11, <2>1, <1>a, SyncedSuspend DEF MarkFailed, Leave
  <1>12. CASE RecordRaises(a) \/ CallRaises(a)
    <2>1. PICK l \in {"idle", "failed", "failure"} : Leave(a, l)
      BY <1>12 DEF RecordRaises, CallRaises, Raise
    <2> QED BY <1>12, <2>1, <1>a, SyncedSuspend DEF RecordRaises, CallRaises, Leave, Segment
  <1>13. CASE FinalizeRead(a) \/ FailureRead(a)
    <2>1. CanRun(a) /\ run' = run
      BY <1>13 DEF FinalizeRead, FailureRead
    <2>2. CASE \E l \in {"returned", "failed"} : Leave(a, l)
      BY <2>1, <2>2, <1>a, SyncedSuspend DEF Leave
    <2>3. CASE ReadHeader(a) /\ \E l \in {"finalizing", "failing"} : Stay(a, l)
      BY <2>1, <2>3, <1>a, <1>b, SyncedStay
    <2> QED BY <1>13, <2>2, <2>3 DEF FinalizeRead, FailureRead
  <1>14. CASE Finish(a)
    <2>1. CASE pc' = [pc EXCEPT ![a] = "idle"] /\ UNCHANGED loop
      BY <1>14, <2>1, <1>a DEF Finish, TypeOK, Synced, LoopHeld, HeaderIsRow, Segment
    <2>2. CASE Stay(a, "failure")
      <3>1. pc'[a] = "failure" /\ \A b \in Actor \ {a} : pc'[b] = pc[b]
        BY <2>2 DEF Stay, TypeOK
      <3>2. loop'[Home[a]] = a
        BY <2>2 DEF Stay, TypeOK, RunKernelAssumption
      <3> QED BY <1>14, <3>1, <3>2, <1>a, OthersOut DEF Finish
    <2> QED BY <1>14, <2>1, <2>2 DEF Finish
  <1> QED
    BY <1>1, <1>2, <1>3, <1>4, <1>5, <1>6, <1>7, <1>8, <1>9, <1>10, <1>11, <1>12, <1>13, <1>14
    DEF Step

(* So does a step of a handler. *)
LEMMA SyncedHandle ==
  ASSUME RunKernelAssumption, TypeOK, OneLoop, Synced, NEW c \in Client, Handle(c)
  PROVE  Synced'
  <1>a. /\ {"idle", "begin", "finalize"} \cap Segment = {}
        /\ {"cancelling", "approving", "denying", "queueing"} \subseteq Segment \cap Deciding
    BY DEF Segment, Deciding
  <1>b. c \in Actor /\ (ReadHeader(c) => hdr'[c] = run)
    BY DEF ReadHeader, TypeOK, Actor
  <1>c. ASSUME CanRun(c) \/ pc[c] \in Segment, CancelTask(c) PROVE Synced'
    <2>1. /\ pc'[c] = "idle"
          /\ \A b \in Actor \ {c} : pc'[b] = pc[b] \/ pc'[b] = "finalize"
      BY <1>b, <1>c DEF CancelTask
    <2> QED BY <2>1, <1>a, <1>b, <1>c, OthersOut
  <1>1. CASE CancelRead(c)
    <2>1. CanRun(c) /\ run' = run
      BY <1>1 DEF CancelRead, Request
    <2>2. CASE CancelTask(c)
      BY <2>1, <2>2, <1>c
    <2>3. CASE ReadHeader(c) /\ Stay(c, "cancelling")
      BY <2>1, <2>3, <1>a, <1>b, SyncedStay
    <2> QED BY <1>1, <2>2, <2>3 DEF CancelRead
  <1>2. CASE CancelWrite(c)
    BY <1>2, <1>a, <1>c DEF CancelWrite
  <1>3. CASE ResolveRead(c) \/ QueueRead(c)
    <2>1. CanRun(c) /\ run' = run /\ ReadHeader(c)
      BY <1>3 DEF ResolveRead, QueueRead, Request
    <2>2. PICK l \in {"approving", "denying", "queueing"} : Stay(c, l)
      BY <1>3 DEF ResolveRead, QueueRead
    <2> QED BY <2>1, <2>2, <1>a, <1>b, SyncedStay
  <1>4. CASE ResolveApproved(c) \/ ResolveDenied(c) \/ QueueWrite(c)
    BY <1>4, <1>a, <1>b, SyncedSuspend DEF ResolveApproved, ResolveDenied, QueueWrite, Leave
  <1>5. CASE Resume(c)
    <2>1. "step" \in Segment /\ "step" \notin Deciding
      BY DEF Segment, Deciding
    <2>2. c \in Actor /\ CanRun(c) /\ Stay(c, "step")
      BY <1>5 DEF Resume, Actor
    <2> QED BY <2>1, <2>2, SyncedStay
  <1> QED BY <1>1, <1>2, <1>3, <1>4, <1>5 DEF Handle

(* So does every step. *)
LEMMA SyncedNext ==
  ASSUME RunKernelAssumption, TypeOK, OneLoop, Synced, [Next]_vars
  PROVE  Synced'
  <1>1. ASSUME NEW w \in Worker, Begin(w) PROVE Synced'
    BY <1>1 DEF Begin, TypeOK, Synced, LoopHeld, HeaderIsRow, Segment, Deciding, Actor
  <1>2. ASSUME NEW p \in Process, Crash(p) PROVE Synced'
    BY <1>2 DEF Crash, TypeOK, Synced, LoopHeld, HeaderIsRow, Segment, Deciding,
                RunKernelAssumption
  <1>3. ASSUME NEW a \in Actor, Step(a) PROVE Synced'
    BY <1>3, SyncedStep
  <1>4. ASSUME NEW c \in Client, Handle(c) PROVE Synced'
    BY <1>4, SyncedHandle
  <1>5. CASE UNCHANGED vars
    BY <1>5 DEF vars, Synced, LoopHeld, HeaderIsRow
  <1> QED BY <1>1, <1>2, <1>3, <1>4, <1>5 DEF Next

-----------------------------------------------------------------------------
(* What a step writes. *)

(* A step that writes the run does it through Record: the new row is the   *)
(* header of some coroutine with the status that coroutine decided on.     *)
(* Artifacts are written by Complete alone.                                *)
LEMMA Written ==
  ASSUME TypeOK, Next
  PROVE  \/ run' = run /\ artifacts' = artifacts
         \/ \E a \in Actor :
              /\ pc[a] \in DOMAIN Decision
              /\ CanTransition(hdr[a].status, Decision[pc[a]])
              /\ run'.status = Decision[pc[a]]
              /\ run'.cancelReq = (hdr[a].cancelReq \/ pc[a] = "cancelling")
              /\ artifacts' = IF pc[a] = "complete" THEN artifacts + 1 ELSE artifacts
  <1> DEFINE Wrote(a) ==
              /\ pc[a] \in DOMAIN Decision
              /\ CanTransition(hdr[a].status, Decision[pc[a]])
              /\ run'.status = Decision[pc[a]]
              /\ run'.cancelReq = (hdr[a].cancelReq \/ pc[a] = "cancelling")
              /\ artifacts' = IF pc[a] = "complete" THEN artifacts + 1 ELSE artifacts
  <1>1. ASSUME NEW a \in Actor, NEW events, Record(a, hdr[a], events), artifacts' = artifacts,
               pc[a] \in DOMAIN Decision, pc[a] \notin {"cancelling", "complete"}
        PROVE  Wrote(a)
    BY <1>1 DEF Record, TypeOK, Row
  <1>2. ASSUME NEW a \in Actor, Step(a)
        PROVE  (run' = run /\ artifacts' = artifacts) \/ Wrote(a)
    <2>1. CASE StepStart(a) \/ AskApproval(a) \/ EndRound(a) \/ MarkCancelled(a) \/ MarkFailed(a)
      BY <2>1, <1>1 DEF StepStart, AskApproval, EndRound, MarkCancelled, MarkFailed, Decision
    <2>2. CASE Complete(a)
      BY <2>2 DEF Complete, Record, Decision, TypeOK, Row
    <2>3. CASE RecordResponse(a) \/ RecordCall(a) \/ RecordResult(a)
      BY <2>3 DEF RecordResponse, RecordCall, RecordResult, AppendEvent
    <2>4. CASE StepRead(a) \/ ModelReturn(a) \/ NextCall(a) \/ ToolReturn(a)
      BY <2>4 DEF StepRead, ModelReturn, NextCall, ToolReturn
    <2>5. CASE RecordRaises(a) \/ CallRaises(a) \/ FinalizeRead(a) \/ FailureRead(a) \/ Finish(a)
      BY <2>5 DEF RecordRaises, CallRaises, FinalizeRead, FailureRead, Finish
    <2> QED BY <1>2, <2>1, <2>2, <2>3, <2>4, <2>5 DEF Step
  <1>3. ASSUME NEW c \in Client, Handle(c)
        PROVE  (run' = run /\ artifacts' = artifacts) \/ Wrote(c)
    <2>0. c \in Actor
      BY DEF Actor
    <2>1. CASE ResolveApproved(c) \/ ResolveDenied(c) \/ QueueWrite(c)
      BY <2>0, <2>1, <1>1 DEF ResolveApproved, ResolveDenied, QueueWrite, Decision
    <2>2. CASE CancelWrite(c)
      BY <2>0, <2>2 DEF CancelWrite, Record, Decision, TypeOK, Row
    <2>3. CASE CancelRead(c) \/ ResolveRead(c) \/ QueueRead(c) \/ Resume(c)
      BY <2>3 DEF CancelRead, ResolveRead, QueueRead, Resume, Request, Begin
    <2> QED BY <1>3, <2>1, <2>2, <2>3 DEF Handle
  <1>4. ASSUME NEW w \in Worker, Begin(w) PROVE run' = run /\ artifacts' = artifacts
    BY <1>4 DEF Begin
  <1>5. ASSUME NEW p \in Process, Crash(p) PROVE run' = run /\ artifacts' = artifacts
    BY <1>5 DEF Crash
  <1>6. Client \subseteq Actor
    BY DEF Actor
  <1> QED BY <1>2, <1>3, <1>4, <1>5, <1>6 DEF Next

(* On one loop the check Record makes on the header is a check on the row. *)
LEMMA WrittenOnRow ==
  ASSUME TypeOK, Synced, Next
  PROVE  \/ run' = run /\ artifacts' = artifacts
         \/ \E a \in Actor :
              /\ pc[a] \in DOMAIN Decision
              /\ CanTransition(run.status, run'.status)
              /\ run'.status = Decision[pc[a]]
              /\ run'.cancelReq = (run.cancelReq \/ pc[a] = "cancelling")
              /\ artifacts' = IF pc[a] = "complete" THEN artifacts + 1 ELSE artifacts
  <1>1. CASE run' = run /\ artifacts' = artifacts
    BY <1>1
  <1>2. CASE \E a \in Actor :
              /\ pc[a] \in DOMAIN Decision
              /\ CanTransition(hdr[a].status, Decision[pc[a]])
              /\ run'.status = Decision[pc[a]]
              /\ run'.cancelReq = (hdr[a].cancelReq \/ pc[a] = "cancelling")
              /\ artifacts' = IF pc[a] = "complete" THEN artifacts + 1 ELSE artifacts
    <2>1. DOMAIN Decision \subseteq Deciding
      BY DEF Decision, Deciding
    <2> QED BY <1>2, <2>1 DEF Synced, HeaderIsRow
  <1> QED BY <1>1, <1>2, Written

-----------------------------------------------------------------------------
(* The theorems for one event loop. *)

KernelInv == TypeOK /\ CallPending /\ Synced

(* The invariant of one process holds at every step. *)
LEMMA KernelInvariant == ASSUME OneLoop PROVE Spec => []KernelInv
  <1>1. Init => KernelInv
    <2> SUFFICES ASSUME Init PROVE KernelInv
      OBVIOUS
    <2>1. TypeOK
      BY RunKernelAssumption, TypeInit
    <2>2. CallPending /\ Synced
      BY DEF Init, CallPending, InCall, Synced, LoopHeld, HeaderIsRow, Segment, Deciding
    <2> QED BY <2>1, <2>2 DEF KernelInv
  <1>2. KernelInv /\ [Next]_vars => KernelInv'
    BY RunKernelAssumption, TypeNext, SyncedNext DEF KernelInv
  <1> QED BY <1>1, <1>2, PTL DEF Spec

(* On one loop the header a coroutine decides on is always the row: no     *)
(* update of TransitionRecorder.record is ever lost.                       *)
THEOREM HeaderAlwaysRow == ASSUME OneLoop PROVE Spec => [](LoopHeld /\ HeaderIsRow)
  <1>1. KernelInv => LoopHeld /\ HeaderIsRow
    BY DEF KernelInv, Synced
  <1> QED BY <1>1, KernelInvariant, PTL

(* On one loop the status of the run follows VALID_TRANSITIONS.            *)
THEOREM StatusFollows == ASSUME OneLoop PROVE Spec => StateMachineHolds
  <1>1. KernelInv /\ [Next]_vars
        => [run'.status # run.status => run'.status \in ValidTransitions[run.status]]_vars
    <2> SUFFICES ASSUME KernelInv, Next, run'.status # run.status
                 PROVE  run'.status \in ValidTransitions[run.status]
      OBVIOUS
    <2> QED BY WrittenOnRow DEF KernelInv, CanTransition
  <1> QED BY <1>1, KernelInvariant, PTL DEF Spec, StateMachineHolds

(* No transition leaves a terminal status. *)
LEMMA TerminalIsFinal == \A s \in Terminal : ValidTransitions[s] = {}
  BY DEF Terminal, Status, ValidTransitions

(* On one loop a run that is over stays as it ended. *)
THEOREM TerminalStays == ASSUME OneLoop PROVE Spec => TerminalForever
  <1>1. KernelInv /\ [Next]_vars => [run.status \in Terminal => run'.status = run.status]_vars
    <2> SUFFICES ASSUME KernelInv, Next, run.status \in Terminal
                 PROVE  run'.status = run.status
      OBVIOUS
    <2> QED BY WrittenOnRow, TerminalIsFinal DEF KernelInv, CanTransition
  <1> QED BY <1>1, KernelInvariant, PTL DEF Spec, TerminalForever

(* On one loop a cancellation that was accepted is never undone. *)
THEOREM CancellationSticks == ASSUME OneLoop PROVE Spec => []CancelSticks
  <1>1. Init => CancelSticks
    BY DEF Init, CancelSticks
  <1>2. KernelInv /\ CancelSticks /\ [Next]_vars => CancelSticks'
    <2> SUFFICES ASSUME KernelInv, CancelSticks, Next PROVE CancelSticks'
      BY DEF vars, CancelSticks
    <2>1. CASE run' = run
      BY <2>1 DEF CancelSticks
    <2>2. ASSUME NEW a \in Actor, CanTransition(run.status, run'.status),
                 run'.status = Decision[pc[a]],
                 run'.cancelReq = (run.cancelReq \/ pc[a] = "cancelling")
          PROVE  CancelSticks'
      <3>1. CASE pc[a] = "cancelling"
        BY <2>2, <3>1 DEF CancelSticks, Decision
      <3>2. CASE run.cancelReq
        <4>1. run.status \in {"CANCELLING", "CANCELLED", "FAILED"}
          BY <3>2 DEF CancelSticks
        <4>2. ValidTransitions["CANCELLING"] = {"CANCELLED", "FAILED"}
          BY DEF ValidTransitions, Status
        <4> QED BY <2>2, <4>1, <4>2, TerminalIsFinal DEF CanTransition, CancelSticks, Terminal
      <3>3. CASE ~run.cancelReq /\ pc[a] # "cancelling"
        BY <2>2, <3>3 DEF CancelSticks
      <3> QED BY <3>1, <3>2, <3>3
    <2> QED BY <2>1, <2>2, WrittenOnRow DEF KernelInv
  <1> QED BY <1>1, <1>2, KernelInvariant, PTL DEF Spec

(* On one loop a run is COMPLETED exactly when it has an artifact. *)
THEOREM CompletedWithArtifact == ASSUME OneLoop PROVE Spec => []CompletedHasArtifact
  <1>1. Init => CompletedHasArtifact
    BY DEF Init, CompletedHasArtifact
  <1>2. KernelInv /\ CompletedHasArtifact /\ [Next]_vars => CompletedHasArtifact'
    <2> SUFFICES ASSUME KernelInv, CompletedHasArtifact, Next PROVE CompletedHasArtifact'
      BY DEF vars, CompletedHasArtifact
    <2>1. artifacts \in Nat
      BY DEF KernelInv, TypeOK
    <2>2. CASE run' = run /\ artifacts' = artifacts
      BY <2>2 DEF CompletedHasArtifact
    <2>3. ASSUME NEW a \in Actor, pc[a] \in DOMAIN Decision,
                 CanTransition(run.status, run'.status), run'.status = Decision[pc[a]],
                 artifacts' = IF pc[a] = "complete" THEN artifacts + 1 ELSE artifacts
          PROVE  CompletedHasArtifact'
      <3>1. CASE pc[a] = "complete"
        BY <2>1, <2>3, <3>1 DEF CompletedHasArtifact, Decision
      <3>2. CASE pc[a] # "complete"
        <4>1. run'.status # "COMPLETED"
          BY <2>3, <3>2 DEF Decision
        <4>2. run.status # "COMPLETED"
          BY <2>3, <4>1, TerminalIsFinal DEF CanTransition, Terminal
        <4> QED BY <2>3, <3>2, <4>1, <4>2 DEF CompletedHasArtifact
      <3> QED BY <3>1, <3>2
    <2> QED BY <2>2, <2>3, WrittenOnRow DEF KernelInv
  <1> QED BY <1>1, <1>2, KernelInvariant, PTL DEF Spec

-----------------------------------------------------------------------------
(* Pauses, whatever the processes are. *)

(* A step that leaves the run waiting either asked for an approval itself, *)
(* or found the run waiting and touched no approval.                       *)
LEMMA Pausing ==
  ASSUME TypeOK, Next, run'.status = "AWAITING_APPROVAL"
  PROVE  \/ \E ap \in Approval : approval'[ap] = "pending"
         \/ run.status = "AWAITING_APPROVAL" /\ approval' = approval
  <1> DEFINE Goal == \/ \E ap \in Approval : approval'[ap] = "pending"
                     \/ run.status = "AWAITING_APPROVAL" /\ approval' = approval
  <1>1. ASSUME NEW a \in Actor, NEW header \in Row, NEW events, Record(a, header, events)
        PROVE  Decision[pc[a]] = "AWAITING_APPROVAL"
    BY <1>1 DEF Record, Row
  <1>2. ASSUME NEW a \in Actor, Step(a) PROVE Goal
    <2>1. hdr[a] \in Row
      BY DEF TypeOK
    <2>2. CASE AskApproval(a)
      <3>1. PICK ap \in Fresh : approval' = [approval EXCEPT ![ap] = "pending"]
        BY <2>2 DEF AskApproval
      <3>2. ap \in Approval /\ approval'[ap] = "pending"
        BY <3>1 DEF Fresh, TypeOK
      <3> QED BY <3>2
    <2>3. CASE StepStart(a) \/ EndRound(a) \/ Complete(a) \/ MarkCancelled(a) \/ MarkFailed(a)
      BY <2>1, <2>3, <1>1 DEF StepStart, EndRound, Complete, MarkCancelled, MarkFailed, Decision
    <2>4. CASE RecordResponse(a) \/ RecordCall(a) \/ RecordResult(a)
      BY <2>4 DEF RecordResponse, RecordCall, RecordResult, AppendEvent
    <2>5. CASE StepRead(a) \/ ModelReturn(a) \/ NextCall(a) \/ ToolReturn(a)
      BY <2>5 DEF StepRead, ModelReturn, NextCall, ToolReturn
    <2>6. CASE RecordRaises(a) \/ CallRaises(a) \/ FinalizeRead(a) \/ FailureRead(a) \/ Finish(a)
      BY <2>6 DEF RecordRaises, CallRaises, FinalizeRead, FailureRead, Finish
    <2> QED BY <1>2, <2>2, <2>3, <2>4, <2>5, <2>6 DEF Step
  <1>3. ASSUME NEW c \in Client, Handle(c) PROVE Goal
    <2>1. c \in Actor /\ hdr[c] \in Row /\ [hdr[c] EXCEPT !.cancelReq = TRUE] \in Row
      BY DEF TypeOK, Actor, Row
    <2>2. CASE ResolveApproved(c) \/ ResolveDenied(c) \/ QueueWrite(c) \/ CancelWrite(c)
      BY <2>1, <2>2, <1>1 DEF ResolveApproved, ResolveDenied, QueueWrite, CancelWrite, Decision
    <2>3. CASE CancelRead(c) \/ ResolveRead(c) \/ QueueRead(c) \/ Resume(c)
      BY <2>3 DEF CancelRead, ResolveRead, QueueRead, Resume, Request, Begin
    <2> QED BY <1>3, <2>2, <2>3 DEF Handle
  <1>4. ASSUME NEW w \in Worker, Begin(w) PROVE Goal
    BY <1>4 DEF Begin
  <1>5. ASSUME NEW p \in Process, Crash(p) PROVE Goal
    BY <1>5 DEF Crash
  <1> QED BY <1>2, <1>3, <1>4, <1>5 DEF Next

(* A paused run always has an approval that can still be resolved, even    *)
(* when several processes write it.                                        *)
THEOREM PauseIsResolvable == Spec => []PauseCanBeResolved
  <1> DEFINE Inv == TypeOK /\ CallPending /\ PauseCanBeResolved
  <1>1. Init => Inv
    BY RunKernelAssumption, TypeInit DEF Init, CallPending, InCall, PauseCanBeResolved
  <1>2. Inv /\ [Next]_vars => Inv'
    <2> SUFFICES ASSUME Inv, [Next]_vars PROVE PauseCanBeResolved'
      BY RunKernelAssumption, TypeNext
    <2>1. CASE Next
      BY <2>1, Pausing DEF PauseCanBeResolved
    <2>2. CASE UNCHANGED vars
      BY <2>2 DEF vars, PauseCanBeResolved
    <2> QED BY <2>1, <2>2
  <1> QED BY <1>1, <1>2, PTL DEF Spec
=============================================================================
