--------------------------- MODULE CaseExecutions ---------------------------
(***************************************************************************)
(* How a research case gets its runs: ResearchCaseService.execute_template *)
(* and create_run_link (case_service.py).  Creating the run, its execution *)
(* row, its two links, dispatching it and storing its status are           *)
(* transactions of their own, with the workers, clients and readers of     *)
(* other processes in between; nothing undoes the earlier ones when a      *)
(* later one fails.                                                        *)
(*                                                                         *)
(* Whoever changes the status of a run reads its header and writes it back *)
(* in a later transaction.  In one process nothing comes between the two;  *)
(* another process may write the run in between.                           *)
(*                                                                         *)
(* A request makes at most one run, which has the request's name.          *)
(***************************************************************************)
EXTENDS Naturals, FiniteSets

CONSTANTS
    Request,
    MaxFaults,  \* bound: requests that break off
    MaxClients  \* bound: cancels, decisions, resumes and links by clients

VARIABLES
    daemon,     \* requests to the daemon: its worker executes the run; the
                \* CLI and the MCP server execute it inside the request
    local,      \* runs that one process touches: `doged serve --role all`,
                \* or an MCP server, and nobody beside it
    run,        \* status of the run of each request
    execution,  \* stored status of the workflow_executions row
    links,      \* rows of workflow_template_runs and research_case_runs
    queue,      \* runs whose latest queue row is "queued"
    claimed,    \* runs that the worker executes
    pending,    \* runs with a pending approval
    at,         \* how far each request is
    header,     \* the status that each writer of the run has read
    asked,      \* runs that somebody cancelled
    resuming,   \* runs that a resume executes
    resumed,    \* runs that a resume executed at some time
    dropped,    \* runs with a resume that broke off
    clients,    \* how many of those there were
    shown       \* the status the reader showed last

vars == <<daemon, local, run, execution, links, queue, claimed, pending, at, header, asked,
          resuming, resumed, dropped, clients, shown>>

ASSUME CaseExecutionsAssumption == MaxFaults \in Nat /\ MaxClients \in Nat

Terminal == {"COMPLETED", "FAILED", "CANCELLED"}
Stopped == Terminal \cup {"AWAITING_APPROVAL"}
Status == {"CREATED", "QUEUED", "RUNNING", "AWAITING_APPROVAL", "CANCELLING"} \cup Terminal
Shown == Status \cup {"none", "created", "preflight_failed"}
Progress == {"created", "saved", "templated", "linked", "queued", "dispatched",
             "executing", "closing", "linking"}

(* Who reads the header of a run to write it: the worker and the requests  *)
(* that execute it, one that cancels it and one that resolves an approval. *)
Executor == {"worker", "request", "resume"}
Writer == Executor \cup {"cancel", "resolve"}

TypeOK ==
    /\ daemon \subseteq Request /\ local \subseteq Request
    /\ run \in [Request -> Status \cup {"none"}]
    /\ execution \in [Request -> Shown]
    /\ links \in [Request -> SUBSET {"template", "case"}]
    /\ queue \subseteq Request /\ claimed \subseteq Request /\ pending \subseteq Request
    /\ at \in [Request -> Progress \cup {"new", "answered", "refused", "broken"}]
    /\ header \in [Request -> [Writer -> Status \cup {"none"}]]
    /\ asked \subseteq Request
    /\ resuming \subseteq Request /\ resumed \subseteq Request /\ dropped \subseteq Request
    /\ clients \in 0..MaxClients
    /\ shown \in [Request -> Shown]

Init ==
    /\ daemon \in SUBSET Request /\ local \in SUBSET Request
    /\ run = [q \in Request |-> "none"]
    /\ execution = [q \in Request |-> "none"]
    /\ links = [q \in Request |-> {}]
    /\ queue = {} /\ claimed = {} /\ pending = {}
    /\ at = [q \in Request |-> "new"]
    /\ header = [q \in Request |-> [w \in Writer |-> "none"]]
    /\ asked = {} /\ resuming = {} /\ resumed = {} /\ dropped = {}
    /\ clients = 0
    /\ shown = [q \in Request |-> "none"]

-----------------------------------------------------------------------------
(* The header. *)

(* In one process nobody runs while somebody else is about to write what   *)
(* it read.                                                                *)
Free(q) == q \in local => \A w \in Writer : header[q][w] = "none"

(* Mutant: something is awaited between the read and the write. *)
ReadBeforeAwait(q, w) ==
    /\ header[q][w] = "none"
    /\ header' = [header EXCEPT ![q][w] = run[q]]

Read(q, w) ==
    /\ Free(q) /\ header[q][w] = "none"
    /\ header' = [header EXCEPT ![q][w] = run[q]]

Forget(q, w) == header' = [header EXCEPT ![q][w] = "none"]

Record(q, w, status) == run' = [run EXCEPT ![q] = status] /\ Forget(q, w)

-----------------------------------------------------------------------------
(* The request. *)

Goes(q, from, to) == at[q] = from /\ at' = [at EXCEPT ![q] = to]

kinds == <<daemon, local>>
others == <<kinds, claimed, pending, asked, resuming, resumed, dropped, clients, shown>>

(* The preflight finds something missing: the execution is stored without  *)
(* a run, and the request is refused.                                      *)
PreflightFails(q) ==
    /\ Goes(q, "new", "refused")
    /\ execution' = [execution EXCEPT ![q] = "preflight_failed"]
    /\ UNCHANGED <<run, links, queue, header, others>>

(* create_run, after the preflight (if it was not skipped) or for a link.  *)
CreateRun(q) ==
    /\ Goes(q, "new", "created") \/ Goes(q, "new", "linking")
    /\ run' = [run EXCEPT ![q] = "CREATED"]
    /\ UNCHANGED <<execution, links, queue, header, others>>

SaveExecution(q) ==
    /\ Goes(q, "created", "saved")
    /\ execution' = [execution EXCEPT ![q] = "created"]
    /\ UNCHANGED <<run, links, queue, header, others>>

(* Mutant: the template's link is taken for both. *)
LinkTemplateOnly(q) ==
    /\ Goes(q, "saved", "linked")
    /\ links' = [links EXCEPT ![q] = @ \cup {"template"}]
    /\ UNCHANGED <<run, execution, queue, header, others>>

LinkTemplate(q) ==
    /\ Goes(q, "saved", "templated")
    /\ links' = [links EXCEPT ![q] = @ \cup {"template"}]
    /\ UNCHANGED <<run, execution, queue, header, others>>

LinkCase(q) ==
    /\ Goes(q, "templated", "linked")
    /\ links' = [links EXCEPT ![q] = @ \cup {"case"}]
    /\ UNCHANGED <<run, execution, queue, header, others>>

(* create_run_link links a new run and leaves it at that.  The answer goes *)
(* out after the second link.                                              *)
LinkNewRun(q) ==
    /\ at[q] = "linking"
    /\ \/ /\ links[q] = {} \/ links[q] = {"case"}
          /\ links' = [links EXCEPT ![q] = @ \cup {"template"}]
          /\ at' = at
       \/ /\ "template" \in links[q]
          /\ links' = [links EXCEPT ![q] = @ \cup {"case"}]
          /\ at' = [at EXCEPT ![q] = "answered"]
    /\ UNCHANGED <<run, execution, queue, header, others>>

(* _dispatch_run with a worker: enqueue_continuation and queue_run read    *)
(* the run, ...                                                            *)
ReadToQueue(q) ==
    /\ q \in daemon /\ at[q] = "linked"
    /\ Read(q, "request")
    /\ UNCHANGED <<run, execution, links, queue, at, others>>

(* ... which goes to QUEUED unless it ended or is queued, ... *)
QueueRun(q) ==
    /\ q \in daemon /\ Goes(q, "linked", "queued")
    /\ \/ /\ header[q]["request"] \in {"CREATED", "AWAITING_APPROVAL"}
          /\ Record(q, "request", "QUEUED")
       \/ /\ header[q]["request"] \in {"QUEUED"} \cup Terminal
          /\ Forget(q, "request") /\ UNCHANGED run
    /\ UNCHANGED <<execution, links, queue, others>>

(* ... and is refused while it is being cancelled or executed. *)
QueueRunRefuses(q) ==
    /\ q \in daemon /\ Goes(q, "linked", "refused")
    /\ header[q]["request"] \in {"CANCELLING", "RUNNING"}
    /\ Forget(q, "request")
    /\ UNCHANGED <<run, execution, links, queue, others>>

(* Mutant: the run is QUEUED but has no queue row. *)
EnqueueForgotten(q) ==
    /\ Goes(q, "queued", "dispatched")
    /\ UNCHANGED <<run, execution, links, queue, header, others>>

(* The queue row is inserted. *)
Enqueue(q) ==
    /\ Goes(q, "queued", "dispatched")
    /\ queue' = queue \cup {q}
    /\ UNCHANGED <<run, execution, links, header, others>>

(* The run is read again. *)
Reread(q) ==
    /\ Goes(q, "dispatched", "closing")
    /\ Read(q, "request")
    /\ UNCHANGED <<run, execution, links, queue, others>>

(* _dispatch_run without a worker. *)
RunInline(q) ==
    /\ q \notin daemon
    /\ Goes(q, "linked", "executing")
    /\ UNCHANGED <<run, execution, links, queue, header, others>>

(* update_workflow_execution_status with the status that was read. *)
StoreStatus(q) ==
    /\ Goes(q, "closing", "answered")
    /\ execution' = [execution EXCEPT ![q] = header[q]["request"]]
    /\ Forget(q, "request")
    /\ UNCHANGED <<run, links, queue, others>>

MayBreakOff ==
    Cardinality({p \in Request : at[p] = "broken"}) + Cardinality(dropped) < MaxFaults

(* A write raises, or the process dies: what was written stays. *)
BreakOff(q) ==
    /\ at[q] \in Progress /\ MayBreakOff
    /\ at' = [at EXCEPT ![q] = "broken"]
    /\ Forget(q, "request")
    /\ UNCHANGED <<run, execution, links, queue, others>>

-----------------------------------------------------------------------------
(* The execution of a run: by a worker, inside the request, or inside a    *)
(* resume.  It goes round by round to its pause or its end.                *)

Executes(q, w) == CASE w = "worker"  -> q \in claimed
                    [] w = "request" -> at[q] = "executing"
                    [] w = "resume"  -> q \in resuming

account == <<kinds, execution, links, shown>>

Claim(q) ==
    /\ q \in queue \ claimed
    /\ queue' = queue \ {q} /\ claimed' = claimed \cup {q}
    /\ UNCHANGED <<account, run, pending, at, header, asked, resuming, resumed, dropped, clients>>

ReadToExecute(q, w) ==
    /\ Executes(q, w)
    /\ Read(q, w)
    /\ UNCHANGED <<account, run, queue, claimed, pending, at, asked, resuming, resumed, dropped,
                   clients>>

(* A round begins or ends: RUNNING is recorded. *)
GoOn(q, w) ==
    /\ Executes(q, w)
    /\ header[q][w] \in {"CREATED", "QUEUED", "RUNNING", "AWAITING_APPROVAL"}
    /\ Record(q, w, "RUNNING")
    /\ UNCHANGED <<account, queue, claimed, pending, at, asked, resuming, resumed, dropped, clients>>

(* The task of a worker that was cancelled marks its run, whatever another *)
(* process wrote since.                                                    *)
Marks(q, w) ==
    IF w = "worker" /\ q \in asked /\ header[q][w] # "CREATED" THEN {"CANCELLED"} ELSE {}

(* How an execution may end that read the header.                          *)
Ends(q, w) ==
    CASE header[q][w] \in Terminal    -> {header[q][w]}
      [] header[q][w] = "CANCELLING" -> {"CANCELLED", "FAILED"}
      [] header[q][w] = "RUNNING"    -> {"COMPLETED", "FAILED", "AWAITING_APPROVAL"}
                                        \cup Marks(q, w)
      [] OTHER -> {"FAILED"} \cup Marks(q, w)

(* The worker releases its claim; a request goes on with the status that   *)
(* it wrote.                                                               *)
End(q, w) ==
    /\ Executes(q, w) /\ header[q][w] # "none"
    /\ \E status \in Ends(q, w) :
          /\ run' = IF header[q][w] \in Terminal THEN run ELSE [run EXCEPT ![q] = status]
          /\ pending' = IF status = "AWAITING_APPROVAL" THEN pending \cup {q} ELSE pending
          /\ header' = [header EXCEPT ![q][w] = IF w = "request" THEN status ELSE "none"]
    /\ at' = IF w = "request" THEN [at EXCEPT ![q] = "closing"] ELSE at
    /\ claimed' = IF w = "worker" THEN claimed \ {q} ELSE claimed
    /\ resuming' = IF w = "resume" THEN resuming \ {q} ELSE resuming
    /\ UNCHANGED <<account, queue, asked, resumed, dropped, clients>>

ClientComes == clients < MaxClients /\ clients' = clients + 1

(* resume_run: a client has the run executed by its id.                    *)
Resume(q) ==
    /\ ClientComes
    /\ Free(q) /\ q \notin resuming
    /\ run[q] \in {"CREATED", "QUEUED"}
    /\ resuming' = resuming \cup {q} /\ resumed' = resumed \cup {q}
    /\ UNCHANGED <<account, run, queue, claimed, pending, at, header, asked, dropped>>

Drop(q) ==
    /\ q \in resuming /\ MayBreakOff
    /\ resuming' = resuming \ {q} /\ dropped' = dropped \cup {q}
    /\ Forget(q, "resume")
    /\ UNCHANGED <<account, run, queue, claimed, pending, at, asked, resumed, clients>>

-----------------------------------------------------------------------------
(* Clients and readers. *)

(* cancel_run leaves a run alone that ended. *)
ReadToCancel(q) ==
    /\ ClientComes
    /\ run[q] \notin Terminal \cup {"none"}
    /\ Read(q, "cancel")
    /\ UNCHANGED <<account, run, queue, claimed, pending, at, asked, resuming, resumed, dropped>>

Cancel(q) ==
    /\ header[q]["cancel"] # "none"
    /\ Record(q, "cancel", "CANCELLING")
    /\ asked' = asked \cup {q}
    /\ UNCHANGED <<account, queue, claimed, pending, at, resuming, resumed, dropped, clients>>

ReadToResolve(q) ==
    /\ ClientComes
    /\ q \in pending
    /\ Read(q, "resolve")
    /\ UNCHANGED <<account, run, queue, claimed, pending, at, asked, resuming, resumed, dropped>>

(* An approved run is queued again, or the request resumes it at once. *)
Approve(q) ==
    /\ header[q]["resolve"] \in {"QUEUED", "AWAITING_APPROVAL"}
    /\ Record(q, "resolve", "QUEUED")
    /\ pending' = pending \ {q}
    /\ \/ queue' = queue \cup {q} /\ UNCHANGED <<resuming, resumed>>
       \/ /\ q \notin resuming
          /\ resuming' = resuming \cup {q} /\ resumed' = resumed \cup {q}
          /\ UNCHANGED queue
    /\ UNCHANGED <<account, claimed, at, asked, dropped, clients>>

Deny(q) ==
    /\ header[q]["resolve"] \notin {"none", "COMPLETED", "CANCELLED"}
    /\ Record(q, "resolve", "FAILED")
    /\ pending' = pending \ {q}
    /\ UNCHANGED <<account, queue, claimed, at, asked, resuming, resumed, dropped, clients>>

(* The state machine refuses the decision. *)
ResolveRefuses(q) ==
    /\ header[q]["resolve"] \in Terminal \cup {"RUNNING", "CANCELLING"}
    /\ Forget(q, "resolve")
    /\ UNCHANGED <<account, run, queue, claimed, pending, at, asked, resuming, resumed, dropped,
                   clients>>

(* A client links a run that exists. *)
LinkExistingRun(q) ==
    /\ ClientComes
    /\ run[q] # "none"
    /\ links' = [links EXCEPT ![q] = @ \cup {"case"}]
    /\ UNCHANGED <<run, execution, queue, claimed, pending, at, header, asked, resuming,
                   resumed, dropped, kinds, shown>>

(* _with_current_run_status: the status of the run, read after the row, is *)
(* shown in place of the stored one.                                       *)
WithCurrentRunStatus(q) == IF run[q] = "none" THEN execution[q] ELSE run[q]

(* list_workflow_executions_for_case, get_workflow_execution and the views *)
(* built on them.                                                          *)
Show(q) ==
    /\ execution[q] # "none"
    /\ shown' = [shown EXCEPT ![q] = WithCurrentRunStatus(q)]
    /\ UNCHANGED <<kinds, run, execution, links, queue, claimed, pending, at, header, asked,
                   resuming, resumed, dropped, clients>>

Next ==
    \E q \in Request :
          \/ PreflightFails(q) \/ CreateRun(q) \/ SaveExecution(q)
          \/ LinkTemplate(q) \/ LinkCase(q) \/ LinkNewRun(q)
          \/ ReadToQueue(q) \/ QueueRun(q) \/ QueueRunRefuses(q) \/ Enqueue(q) \/ Reread(q)
          \/ RunInline(q) \/ StoreStatus(q) \/ BreakOff(q)
          \/ Claim(q) \/ \E w \in Executor : ReadToExecute(q, w) \/ GoOn(q, w) \/ End(q, w)
          \/ Resume(q) \/ Drop(q)
          \/ ReadToCancel(q) \/ Cancel(q)
          \/ ReadToResolve(q) \/ Approve(q) \/ Deny(q) \/ ResolveRefuses(q)
          \/ LinkExistingRun(q) \/ Show(q)

Spec == Init /\ [][Next]_vars

(* Requests run on, coroutines are scheduled, and a worker or request that *)
(* executes a run gets its model answered: rounds are limited, so that an  *)
(* execution ends.  Clients need not do anything, but write what they read *)
(* for.                                                                    *)
Fairness ==
    \A q \in Request :
        /\ WF_vars(SaveExecution(q) \/ LinkTemplate(q) \/ LinkCase(q) \/ QueueRun(q)
                     \/ QueueRunRefuses(q) \/ Enqueue(q) \/ RunInline(q) \/ StoreStatus(q))
        /\ SF_vars(ReadToQueue(q) \/ Reread(q))
        /\ WF_vars(Claim(q))
        /\ \A w \in Executor : SF_vars(ReadToExecute(q, w)) /\ SF_vars(End(q, w))
        /\ WF_vars(Cancel(q)) /\ WF_vars(Approve(q) \/ Deny(q) \/ ResolveRefuses(q))

FairSpec == Spec /\ Fairness

-----------------------------------------------------------------------------
(* Properties. *)

(* A run that is executed, or ever was, can be found from its case and its *)
(* template and has an execution, whatever broke off: only a resume by its *)
(* id executes a run that its case does not show.                          *)
Accounted ==
    \A q \in Request : run[q] \notin {"none", "CREATED", "CANCELLING"} =>
        \/ q \in resumed
        \/ execution[q] # "none" /\ links[q] = {"template", "case"}

(* A run that should go on and that nobody executes was left by a request  *)
(* that broke off, or was only meant to be linked.                         *)
NothingStranded ==
    \A q \in Request : run[q] \in {"CREATED", "QUEUED", "RUNNING"} =>
        \/ q \in queue \cup claimed \cup resuming \cup dropped
        \/ at[q] \in Progress \cup {"broken"}
        \/ execution[q] = "none"

(* The stored status is written late and may be out of date, but once a    *)
(* reader of the case was shown the end of a run that one process touches, *)
(* no later list takes it back: neither a dispatch, a resume, a cancel or  *)
(* a decision that comes late, nor a second execution writes over an end.  *)
EndsStayShown ==
    [][\A q \in local : shown[q] \in Terminal => shown'[q] = shown[q]]_vars

(* The run of an answered execution ends, pauses or is asked to cancel,    *)
(* unless a resume broke off.                                              *)
Settles ==
    \A q \in Request : at[q] = "answered" /\ execution[q] # "none"
        ~> run[q] \in Stopped \cup {"CANCELLING"} \/ q \in dropped
=============================================================================
