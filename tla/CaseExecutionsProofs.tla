------------------------ MODULE CaseExecutionsProofs ------------------------
(***************************************************************************)
(* What holds of CaseExecutions for any number of requests, with or        *)
(* without a daemon, any number of requests that break off, and clients    *)
(* that write what they read whenever another process lets them.           *)
(***************************************************************************)
EXTENDS CaseExecutions, TLAPS

Dispatched == {"linked", "queued", "dispatched", "executing", "closing"}

(* The execution row and both links are there, or a resume by id did       *)
(* without them.                                                           *)
Full(q) == execution[q] # "none" /\ links[q] = {"template", "case"}
Accountable(q) == q \in resumed \/ Full(q)

(* How far a request is and what it has written: a request that has come   *)
(* to the dispatch has written everything, and only then does the run move *)
(* or wait in the queue or for an approval, unless it is resumed.          *)
Written(q) ==
    /\ at[q] = "new" => run[q] = "none" /\ execution[q] = "none"
    /\ at[q] \in Progress => run[q] # "none"
    /\ at[q] = "linking" => execution[q] = "none"
    /\ at[q] \in {"saved", "templated"} => execution[q] # "none"
    /\ at[q] = "templated" => "template" \in links[q]
    /\ at[q] \in Dispatched => Full(q)
    /\ q \in queue \cup claimed \cup pending \cup resuming => Accountable(q) /\ run[q] # "none"
    /\ q \in resuming => q \in resumed
    /\ run[q] \notin {"none", "CREATED", "CANCELLING"} => Accountable(q)

(* Who holds a header: somebody who executes, queues or resolves the run,  *)
(* and who has seen it at most as it is now, as new as a run is.           *)
Held(q) ==
    /\ \A w \in Writer : header[q][w] # "none" => run[q] # "none"
    /\ \A w \in Writer : header[q][w] \notin {"none", "CREATED"} => run[q] # "CREATED"
    /\ header[q]["worker"] # "none" => q \in claimed
    /\ header[q]["resume"] # "none" => q \in resuming
    /\ header[q]["request"] # "none" =>
         (at[q] = "linked" /\ q \in daemon) \/ at[q] \in {"executing", "closing"}
    /\ at[q] = "closing" => header[q]["request"] # "none"
    /\ header[q]["cancel"] \notin Terminal
    /\ header[q]["resolve"] # "none" => Accountable(q)
    /\ q \in local => \A v, w \in Writer : header[q][v] # "none" =>
         header[q][v] = run[q] /\ (v # w => header[q][w] = "none")

(* Who sees to a run that should go on: somebody who executes it and has   *)
(* not seen its end.                                                       *)
Attends(q, w) == Executes(q, w) /\ header[q][w] \notin Terminal

Attended(q) ==
    /\ run[q] \in {"QUEUED", "RUNNING"} =>
         \/ q \in queue \cup dropped
         \/ at[q] \in {"queued", "broken"}
         \/ \E w \in Executor : Attends(q, w)
    /\ run[q] = "CREATED" =>
         \/ at[q] \in {"created", "saved", "templated", "linked", "executing", "broken"}
         \/ execution[q] = "none"

(* What was shown of an end is still so. *)
ShownTrue(q) ==
    /\ run[q] = "none" => execution[q] \in {"none", "preflight_failed"}
    /\ q \in local /\ shown[q] \in Terminal => run[q] = shown[q]

CaseInv == TypeOK /\ \A q \in Request : Written(q) /\ Held(q) /\ Attended(q) /\ ShownTrue(q)

-----------------------------------------------------------------------------
(* The invariant holds before any request. *)
LEMMA CaseInit == Init => CaseInv
  BY CaseExecutionsAssumption DEF Init, CaseInv, TypeOK, Written, Attended, Attends, Held, ShownTrue, Accountable, Full, Dispatched,
         Progress, Status, Shown, Terminal, Stopped, Executor, Writer

(* What an action of one request leaves alone. *)
Same(q) ==
    /\ UNCHANGED <<daemon, local>>
    /\ \A p \in Request \ {q} :
         /\ run'[p] = run[p] /\ execution'[p] = execution[p] /\ links'[p] = links[p]
         /\ at'[p] = at[p] /\ header'[p] = header[p] /\ shown'[p] = shown[p]
         /\ p \in queue' <=> p \in queue
         /\ p \in claimed' <=> p \in claimed
         /\ p \in pending' <=> p \in pending
         /\ p \in resuming' <=> p \in resuming
         /\ p \in resumed' <=> p \in resumed
         /\ p \in dropped' <=> p \in dropped

(* It is enough to look at the request that acts. *)
LEMMA OnlyThis ==
  ASSUME CaseInv, TypeOK', NEW q \in Request, Same(q),
         Written(q)', Held(q)', Attended(q)', ShownTrue(q)'
  PROVE  CaseInv'
  <1> SUFFICES ASSUME NEW p \in Request, p # q
               PROVE  Written(p)' /\ Held(p)' /\ Attended(p)' /\ ShownTrue(p)'
    BY DEF CaseInv
  <1>1. Written(p)'
    BY DEF CaseInv, Same, Written, Accountable, Full
  <1>2. Held(p)'
    BY DEF CaseInv, Same, Held, Accountable, Full
  <1>3. Attended(p)'
    BY DEF CaseInv, Same, Attended, Attends, Executes, Executor
  <1>4. ShownTrue(p)'
    BY DEF CaseInv, Same, ShownTrue
  <1> QED BY <1>1, <1>2, <1>3, <1>4

(* The writes of execute_template and create_run_link keep the invariant. *)
LEMMA RequestStep ==
  ASSUME CaseInv, NEW q \in Request,
         \/ PreflightFails(q) \/ CreateRun(q) \/ SaveExecution(q) \/ LinkTemplate(q) \/ LinkCase(q) \/ LinkNewRun(q)
  PROVE  CaseInv'
  <1>1. CASE PreflightFails(q)
    BY <1>1 DEF PreflightFails, Goes, others, kinds, account, Read, Free, Forget, Record, ClientComes, MayBreakOff,
         Executes, Ends, Marks, WithCurrentRunStatus, CaseInv, TypeOK, Written, Attended, Attends, Held, ShownTrue, Accountable, Full, Dispatched,
         Progress, Status, Shown, Terminal, Stopped, Executor, Writer
  <1>2. CASE CreateRun(q)
    <2>1. TypeOK'
      BY <1>2 DEF CreateRun, Goes, others, kinds, account, Read, Free, Forget, Record, ClientComes, MayBreakOff,
           Executes, Ends, Marks, WithCurrentRunStatus,
           CaseInv, TypeOK, Dispatched, Progress, Status, Shown, Terminal, Stopped, Executor, Writer
    <2>2. Same(q)
      BY <1>2 DEF CreateRun, Goes, others, kinds, account, Read, Free, Forget, Record, ClientComes, MayBreakOff,
           Executes, Ends, Marks, WithCurrentRunStatus,
           CaseInv, TypeOK, Same
    <2>3. Written(q)'
      BY <1>2, <2>1 DEF CreateRun, Goes, others, kinds, account, Read, Free, Forget, Record, ClientComes, MayBreakOff,
           Executes, Ends, Marks, WithCurrentRunStatus,
           CaseInv, TypeOK, Written, Accountable, Full, Held, Dispatched, Progress, Status, Shown, Terminal, Stopped, Executor, Writer
    <2>4. Held(q)'
      BY <1>2, <2>1 DEF CreateRun, Goes, others, kinds, account, Read, Free, Forget, Record, ClientComes, MayBreakOff,
           Executes, Ends, Marks, WithCurrentRunStatus,
           CaseInv, TypeOK, Held, Written, Accountable, Full, Dispatched, Progress, Status, Shown, Terminal, Stopped, Executor, Writer
    <2>5. Attended(q)'
      BY <1>2, <2>1 DEF CreateRun, Goes, others, kinds, account, Read, Free, Forget, Record, ClientComes, MayBreakOff,
           Executes, Ends, Marks, WithCurrentRunStatus,
           CaseInv, TypeOK, Attended, Attends, Written, Held, Dispatched, Progress, Status, Shown, Terminal, Stopped, Executor, Writer
    <2>6. ShownTrue(q)'
      BY <1>2, <2>1 DEF CreateRun, Goes, others, kinds, account, Read, Free, Forget, Record, ClientComes, MayBreakOff,
           Executes, Ends, Marks, WithCurrentRunStatus,
           CaseInv, TypeOK, ShownTrue, Written, Held, Dispatched, Progress, Status, Shown, Terminal, Stopped, Executor, Writer
    <2> QED BY <2>1, <2>2, <2>3, <2>4, <2>5, <2>6, OnlyThis
  <1>3. CASE SaveExecution(q)
    BY <1>3 DEF SaveExecution, Goes, others, kinds, account, Read, Free, Forget, Record, ClientComes, MayBreakOff,
         Executes, Ends, Marks, WithCurrentRunStatus, CaseInv, TypeOK, Written, Attended, Attends, Held, ShownTrue, Accountable, Full, Dispatched,
         Progress, Status, Shown, Terminal, Stopped, Executor, Writer
  <1>4. CASE LinkTemplate(q)
    BY <1>4 DEF LinkTemplate, Goes, others, kinds, account, Read, Free, Forget, Record, ClientComes, MayBreakOff,
         Executes, Ends, Marks, WithCurrentRunStatus, CaseInv, TypeOK, Written, Attended, Attends, Held, ShownTrue, Accountable, Full, Dispatched,
         Progress, Status, Shown, Terminal, Stopped, Executor, Writer
  <1>5. CASE LinkCase(q)
    BY <1>5 DEF LinkCase, Goes, others, kinds, account, Read, Free, Forget, Record, ClientComes, MayBreakOff,
         Executes, Ends, Marks, WithCurrentRunStatus, CaseInv, TypeOK, Written, Attended, Attends, Held, ShownTrue, Accountable, Full, Dispatched,
         Progress, Status, Shown, Terminal, Stopped, Executor, Writer
  <1>6. CASE LinkNewRun(q)
    <2>1. TypeOK'
      BY SMTT(60), <1>6 DEF LinkNewRun, Goes, others, kinds, account, Read, Free, Forget, Record, ClientComes, MayBreakOff,
           Executes, Ends, Marks, WithCurrentRunStatus,
           CaseInv, TypeOK, Dispatched, Progress, Status, Shown, Terminal, Stopped, Executor, Writer
    <2>2. Same(q)
      BY <1>6 DEF LinkNewRun, Goes, others, kinds, account, Read, Free, Forget, Record, ClientComes, MayBreakOff,
           Executes, Ends, Marks, WithCurrentRunStatus,
           CaseInv, TypeOK, Same
    <2>3. Written(q)'
      BY <1>6, <2>1 DEF LinkNewRun, Goes, others, kinds, account, Read, Free, Forget, Record, ClientComes, MayBreakOff,
           Executes, Ends, Marks, WithCurrentRunStatus,
           CaseInv, TypeOK, Written, Accountable, Full, Held, Dispatched, Progress, Status, Shown, Terminal, Stopped, Executor, Writer
    <2>4. Held(q)'
      BY <1>6, <2>1 DEF LinkNewRun, Goes, others, kinds, account, Read, Free, Forget, Record, ClientComes, MayBreakOff,
           Executes, Ends, Marks, WithCurrentRunStatus,
           CaseInv, TypeOK, Held, Written, Accountable, Full, Dispatched, Progress, Status, Shown, Terminal, Stopped, Executor, Writer
    <2>5. Attended(q)'
      BY <1>6, <2>1 DEF LinkNewRun, Goes, others, kinds, account, Read, Free, Forget, Record, ClientComes, MayBreakOff,
           Executes, Ends, Marks, WithCurrentRunStatus,
           CaseInv, TypeOK, Attended, Attends, Written, Held, Dispatched, Progress, Status, Shown, Terminal, Stopped, Executor, Writer
    <2>6. ShownTrue(q)'
      BY <1>6, <2>1 DEF LinkNewRun, Goes, others, kinds, account, Read, Free, Forget, Record, ClientComes, MayBreakOff,
           Executes, Ends, Marks, WithCurrentRunStatus,
           CaseInv, TypeOK, ShownTrue, Written, Held, Dispatched, Progress, Status, Shown, Terminal, Stopped, Executor, Writer
    <2> QED BY <2>1, <2>2, <2>3, <2>4, <2>5, <2>6, OnlyThis
  <1> QED BY <1>1, <1>2, <1>3, <1>4, <1>5, <1>6

(* Queueing and inline execution keep the invariant. *)
LEMMA DispatchStep ==
  ASSUME CaseInv, NEW q \in Request,
         \/ ReadToQueue(q) \/ QueueRun(q) \/ QueueRunRefuses(q) \/ Enqueue(q) \/ Reread(q) \/ RunInline(q) \/ StoreStatus(q)
  PROVE  CaseInv'
  <1>1. CASE ReadToQueue(q)
    BY <1>1 DEF ReadToQueue, Goes, others, kinds, account, Read, Free, Forget, Record, ClientComes, MayBreakOff,
         Executes, Ends, Marks, WithCurrentRunStatus, CaseInv, TypeOK, Written, Attended, Attends, Held, ShownTrue, Accountable, Full, Dispatched,
         Progress, Status, Shown, Terminal, Stopped, Executor, Writer
  <1>2. CASE QueueRun(q)
    <2>1. TypeOK'
      BY SMTT(60), <1>2 DEF QueueRun, Goes, others, kinds, account, Read, Free, Forget, Record, ClientComes, MayBreakOff,
           Executes, Ends, Marks, WithCurrentRunStatus,
           CaseInv, TypeOK, Dispatched, Progress, Status, Shown, Terminal, Stopped, Executor, Writer
    <2>2. Same(q)
      BY <1>2 DEF QueueRun, Goes, others, kinds, account, Read, Free, Forget, Record, ClientComes, MayBreakOff,
           Executes, Ends, Marks, WithCurrentRunStatus,
           CaseInv, TypeOK, Same
    <2>3. Written(q)'
      BY <1>2, <2>1 DEF QueueRun, Goes, others, kinds, account, Read, Free, Forget, Record, ClientComes, MayBreakOff,
           Executes, Ends, Marks, WithCurrentRunStatus,
           CaseInv, TypeOK, Written, Accountable, Full, Held, Dispatched, Progress, Status, Shown, Terminal, Stopped, Executor, Writer
    <2>4. Held(q)'
      BY <1>2, <2>1 DEF QueueRun, Goes, others, kinds, account, Read, Free, Forget, Record, ClientComes, MayBreakOff,
           Executes, Ends, Marks, WithCurrentRunStatus,
           CaseInv, TypeOK, Held, Written, Accountable, Full, Dispatched, Progress, Status, Shown, Terminal, Stopped, Executor, Writer
    <2>5. Attended(q)'
      BY <1>2, <2>1 DEF QueueRun, Goes, others, kinds, account, Read, Free, Forget, Record, ClientComes, MayBreakOff,
           Executes, Ends, Marks, WithCurrentRunStatus,
           CaseInv, TypeOK, Attended, Attends, Written, Held, Dispatched, Progress, Status, Shown, Terminal, Stopped, Executor, Writer
    <2>6. ShownTrue(q)'
      BY <1>2, <2>1 DEF QueueRun, Goes, others, kinds, account, Read, Free, Forget, Record, ClientComes, MayBreakOff,
           Executes, Ends, Marks, WithCurrentRunStatus,
           CaseInv, TypeOK, ShownTrue, Written, Held, Dispatched, Progress, Status, Shown, Terminal, Stopped, Executor, Writer
    <2> QED BY <2>1, <2>2, <2>3, <2>4, <2>5, <2>6, OnlyThis
  <1>3. CASE QueueRunRefuses(q)
    BY <1>3 DEF QueueRunRefuses, Goes, others, kinds, account, Read, Free, Forget, Record, ClientComes, MayBreakOff,
         Executes, Ends, Marks, WithCurrentRunStatus, CaseInv, TypeOK, Written, Attended, Attends, Held, ShownTrue, Accountable, Full, Dispatched,
         Progress, Status, Shown, Terminal, Stopped, Executor, Writer
  <1>4. CASE Enqueue(q)
    BY <1>4 DEF Enqueue, Goes, others, kinds, account, Read, Free, Forget, Record, ClientComes, MayBreakOff,
         Executes, Ends, Marks, WithCurrentRunStatus, CaseInv, TypeOK, Written, Attended, Attends, Held, ShownTrue, Accountable, Full, Dispatched,
         Progress, Status, Shown, Terminal, Stopped, Executor, Writer
  <1>5. CASE Reread(q)
    BY <1>5 DEF Reread, Goes, others, kinds, account, Read, Free, Forget, Record, ClientComes, MayBreakOff,
         Executes, Ends, Marks, WithCurrentRunStatus, CaseInv, TypeOK, Written, Attended, Attends, Held, ShownTrue, Accountable, Full, Dispatched,
         Progress, Status, Shown, Terminal, Stopped, Executor, Writer
  <1>6. CASE RunInline(q)
    BY <1>6 DEF RunInline, Goes, others, kinds, account, Read, Free, Forget, Record, ClientComes, MayBreakOff,
         Executes, Ends, Marks, WithCurrentRunStatus, CaseInv, TypeOK, Written, Attended, Attends, Held, ShownTrue, Accountable, Full, Dispatched,
         Progress, Status, Shown, Terminal, Stopped, Executor, Writer
  <1>7. CASE StoreStatus(q)
    <2>1. TypeOK'
      BY <1>7 DEF StoreStatus, Goes, others, kinds, account, Read, Free, Forget, Record, ClientComes, MayBreakOff,
           Executes, Ends, Marks, WithCurrentRunStatus,
           CaseInv, TypeOK, Dispatched, Progress, Status, Shown, Terminal, Stopped, Executor, Writer
    <2>2. Same(q)
      BY <1>7 DEF StoreStatus, Goes, others, kinds, account, Read, Free, Forget, Record, ClientComes, MayBreakOff,
           Executes, Ends, Marks, WithCurrentRunStatus,
           CaseInv, TypeOK, Same
    <2>3. Written(q)'
      BY <1>7, <2>1 DEF StoreStatus, Goes, others, kinds, account, Read, Free, Forget, Record, ClientComes, MayBreakOff,
           Executes, Ends, Marks, WithCurrentRunStatus,
           CaseInv, TypeOK, Written, Accountable, Full, Held, Dispatched, Progress, Status, Shown, Terminal, Stopped, Executor, Writer
    <2>4. Held(q)'
      BY <1>7, <2>1 DEF StoreStatus, Goes, others, kinds, account, Read, Free, Forget, Record, ClientComes, MayBreakOff,
           Executes, Ends, Marks, WithCurrentRunStatus,
           CaseInv, TypeOK, Held, Written, Accountable, Full, Dispatched, Progress, Status, Shown, Terminal, Stopped, Executor, Writer
    <2>5. Attended(q)'
      <3>1. ASSUME NEW w \in Executor, Attends(q, w)
            PROVE  Attends(q, w)'
        <4>1. w # "request"
          BY <1>7, <3>1 DEF StoreStatus, Goes, Attends, Executes
        <4>2. header'[q][w] = header[q][w]
          BY <1>7, <4>1 DEF StoreStatus, Forget, CaseInv, TypeOK, Executor, Writer
        <4> QED BY <1>7, <3>1, <4>1, <4>2
                DEF StoreStatus, others, Attends, Executes, Executor
      <3>2. run' = run /\ queue' = queue /\ dropped' = dropped /\ run[q] # "CREATED"
        BY <1>7 DEF StoreStatus, others, Goes, CaseInv, Attended, Written, Dispatched, Full
      <3>3. at[q] = "closing"
        BY <1>7 DEF StoreStatus, Goes
      <3> QED BY <3>1, <3>2, <3>3 DEF CaseInv, Attended
    <2>6. ShownTrue(q)'
      BY <1>7, <2>1 DEF StoreStatus, Goes, others, kinds, account, Read, Free, Forget, Record, ClientComes, MayBreakOff,
           Executes, Ends, Marks, WithCurrentRunStatus,
           CaseInv, TypeOK, ShownTrue, Written, Held, Dispatched, Progress, Status, Shown, Terminal, Stopped, Executor, Writer
    <2> QED BY <2>1, <2>2, <2>3, <2>4, <2>5, <2>6, OnlyThis
  <1> QED BY <1>1, <1>2, <1>3, <1>4, <1>5, <1>6, <1>7

(* A request or a resume that breaks off keeps the invariant. *)
LEMMA BreakOffStep ==
  ASSUME CaseInv, NEW q \in Request, BreakOff(q) \/ Drop(q)
  PROVE  CaseInv'
  <1>1. CASE BreakOff(q)
    BY <1>1 DEF BreakOff, Goes, others, kinds, account, Read, Free, Forget, Record, ClientComes, MayBreakOff,
         Executes, Ends, Marks, WithCurrentRunStatus, CaseInv, TypeOK, Written, Attended, Attends, Held, ShownTrue, Accountable, Full, Dispatched,
         Progress, Status, Shown, Terminal, Stopped, Executor, Writer
  <1>2. CASE Drop(q)
    BY <1>2 DEF Drop, Goes, others, kinds, account, Read, Free, Forget, Record, ClientComes, MayBreakOff,
         Executes, Ends, Marks, WithCurrentRunStatus, CaseInv, TypeOK, Written, Attended, Attends, Held, ShownTrue, Accountable, Full, Dispatched,
         Progress, Status, Shown, Terminal, Stopped, Executor, Writer
  <1> QED BY <1>1, <1>2

(* Whoever executes a run may read it, or record that it goes on. *)
LEMMA ExecutorKeepsHeld ==
  ASSUME CaseInv, NEW q \in Request, NEW w \in Executor,
         Executes(q, w),
         run'[q] # "none", run'[q] # "CREATED" \/ run'[q] = run[q],
         \A v \in Writer \ {w} : header'[q][v] = header[q][v],
         header'[q][w] = "none" \/ header'[q][w] = run'[q],
         q \in local => \A v \in Writer \ {w} : header[q][v] = "none",
         UNCHANGED <<at, daemon, local, claimed, resuming, resumed, execution, links>>
  PROVE  Held(q)'
  <1>1. w \in Writer /\ w \notin {"cancel", "resolve"} /\ Writer' = Writer
    BY DEF Executor, Writer
  <1>2. \A v \in Writer : header'[q][v] # "none" => run'[q] # "none"
    OBVIOUS
  <1>3. \A v \in Writer : header'[q][v] \notin {"none", "CREATED"} => run'[q] # "CREATED"
    BY <1>1 DEF CaseInv, Held
  <1>4. header'[q]["worker"] # "none" => q \in claimed'
    <2>1. CASE w = "worker" BY <2>1 DEF Executes
    <2>2. CASE w # "worker" BY <2>2 DEF CaseInv, Held, Writer, Executor
    <2> QED BY <2>1, <2>2
  <1>5. header'[q]["resume"] # "none" => q \in resuming'
    <2>1. CASE w = "resume" BY <2>1 DEF Executes
    <2>2. CASE w # "resume" BY <2>2 DEF CaseInv, Held, Writer, Executor
    <2> QED BY <2>1, <2>2
  <1>6. /\ header'[q]["request"] # "none" =>
             (at'[q] = "linked" /\ q \in daemon') \/ at'[q] \in {"executing", "closing"}
        /\ at'[q] = "closing" => header'[q]["request"] # "none"
    <2>1. CASE w = "request" BY <2>1 DEF Executes
    <2>2. CASE w # "request" BY <2>2 DEF CaseInv, Held, Writer, Executor
    <2> QED BY <2>1, <2>2
  <1>7. header'[q]["cancel"] \notin Terminal /\ (header'[q]["resolve"] # "none" => Accountable(q)')
    BY <1>1 DEF CaseInv, Held, Writer, Executor, Accountable, Full
  <1>8. q \in local' => \A u, v \in Writer : header'[q][u] # "none" =>
          header'[q][u] = run'[q] /\ (u # v => header'[q][v] = "none")
    BY <1>1
  <1> QED BY <1>1, <1>2, <1>3, <1>4, <1>5, <1>6, <1>7, <1>8 DEF Held, Terminal

(* Those who execute a run keep the invariant. *)
LEMMA ExecutionStep ==
  ASSUME CaseInv, NEW q \in Request, NEW w \in Executor,
         \/ Claim(q) \/ ReadToExecute(q, w) \/ GoOn(q, w) \/ End(q, w)
  PROVE  CaseInv'
  <1>1. CASE Claim(q)
    BY <1>1 DEF Claim, Goes, others, kinds, account, Read, Free, Forget, Record, ClientComes, MayBreakOff,
         Executes, Ends, Marks, WithCurrentRunStatus, CaseInv, TypeOK, Written, Attended, Attends, Held, ShownTrue, Accountable, Full, Dispatched,
         Progress, Status, Shown, Terminal, Stopped, Executor, Writer
  <1>2. CASE ReadToExecute(q, w)
    <2>1. TypeOK'
      BY <1>2 DEF ReadToExecute, Goes, others, kinds, account, Read, Free, Forget, Record, ClientComes, MayBreakOff,
           Executes, Ends, Marks, WithCurrentRunStatus,
           CaseInv, TypeOK, Dispatched, Progress, Status, Shown, Terminal, Stopped, Executor, Writer
    <2>2. Same(q)
      BY <1>2 DEF ReadToExecute, Goes, others, kinds, account, Read, Free, Forget, Record, ClientComes, MayBreakOff,
           Executes, Ends, Marks, WithCurrentRunStatus,
           CaseInv, TypeOK, Same
    <2>3. Written(q)'
      BY <1>2, <2>1 DEF ReadToExecute, Goes, others, kinds, account, Read, Free, Forget, Record, ClientComes, MayBreakOff,
           Executes, Ends, Marks, WithCurrentRunStatus,
           CaseInv, TypeOK, Written, Accountable, Full, Held, Dispatched, Progress, Status, Shown, Terminal, Stopped, Executor, Writer
    <2>4. Held(q)'
      <3>1. \A v \in Writer \ {w} : header'[q][v] = header[q][v]
        BY <1>2 DEF ReadToExecute, Read, CaseInv, TypeOK, Executor, Writer
      <3>2. header'[q][w] = run[q] /\ run' = run
        BY <1>2 DEF ReadToExecute, Read, CaseInv, TypeOK, Executor, Writer
      <3>3. UNCHANGED <<at, daemon, local, claimed, resuming, resumed, execution, links>>
        BY <1>2 DEF ReadToExecute, account, kinds
      <3>4. Executes(q, w)
        BY <1>2 DEF ReadToExecute
      <3>5. run[q] # "none"
        BY <3>4 DEF Executes, CaseInv, Written, Progress, Executor
      <3>6. q \in local => \A v \in Writer \ {w} : header[q][v] = "none"
        BY <1>2 DEF ReadToExecute, Read, Free
      <3> QED BY <3>1, <3>2, <3>3, <3>4, <3>5, <3>6, ExecutorKeepsHeld
    <2>5. Attended(q)'
      BY <1>2, <2>1 DEF ReadToExecute, Goes, others, kinds, account, Read, Free, Forget, Record, ClientComes, MayBreakOff,
           Executes, Ends, Marks, WithCurrentRunStatus,
           CaseInv, TypeOK, Attended, Attends, Written, Held, Dispatched, Progress, Status, Shown, Terminal, Stopped, Executor, Writer
    <2>6. ShownTrue(q)'
      BY <1>2, <2>1 DEF ReadToExecute, Goes, others, kinds, account, Read, Free, Forget, Record, ClientComes, MayBreakOff,
           Executes, Ends, Marks, WithCurrentRunStatus,
           CaseInv, TypeOK, ShownTrue, Written, Held, Dispatched, Progress, Status, Shown, Terminal, Stopped, Executor, Writer
    <2> QED BY <2>1, <2>2, <2>3, <2>4, <2>5, <2>6, OnlyThis
  <1>3. CASE GoOn(q, w)
    <2>1. TypeOK'
      BY <1>3 DEF GoOn, Goes, others, kinds, account, Read, Free, Forget, Record, ClientComes, MayBreakOff,
           Executes, Ends, Marks, WithCurrentRunStatus,
           CaseInv, TypeOK, Dispatched, Progress, Status, Shown, Terminal, Stopped, Executor, Writer
    <2>2. Same(q)
      BY <1>3 DEF GoOn, Goes, others, kinds, account, Read, Free, Forget, Record, ClientComes, MayBreakOff,
           Executes, Ends, Marks, WithCurrentRunStatus,
           CaseInv, TypeOK, Same
    <2>3. Written(q)'
      BY <1>3, <2>1 DEF GoOn, Goes, others, kinds, account, Read, Free, Forget, Record, ClientComes, MayBreakOff,
           Executes, Ends, Marks, WithCurrentRunStatus,
           CaseInv, TypeOK, Written, Accountable, Full, Held, Dispatched, Progress, Status, Shown, Terminal, Stopped, Executor, Writer
    <2>4. Held(q)'
      <3>1. \A v \in Writer \ {w} : header'[q][v] = header[q][v]
        BY <1>3 DEF GoOn, Record, Forget, CaseInv, TypeOK, Executor, Writer
      <3>2. header'[q][w] = "none" /\ run'[q] = "RUNNING"
        BY <1>3 DEF GoOn, Record, Forget, CaseInv, TypeOK, Executor, Writer
      <3>3. UNCHANGED <<at, daemon, local, claimed, resuming, resumed, execution, links>>
        BY <1>3 DEF GoOn, account, kinds
      <3>4. Executes(q, w) /\ header[q][w] # "none"
        BY <1>3 DEF GoOn
      <3>5. q \in local => \A v \in Writer \ {w} : header[q][v] = "none"
        BY <3>4 DEF CaseInv, Held, Executor, Writer
      <3> QED BY <3>1, <3>2, <3>3, <3>4, <3>5, ExecutorKeepsHeld
    <2>5. Attended(q)'
      <3>1. run'[q] = "RUNNING" /\ header'[q][w] = "none" /\ Executes(q, w)'
        BY <1>3 DEF GoOn, Record, Forget, Executes, CaseInv, TypeOK, Executor, Writer
      <3>2. Attends(q, w)'
        BY <3>1 DEF Attends, Terminal
      <3> QED BY <3>1, <3>2 DEF Attended
    <2>6. ShownTrue(q)'
      BY <1>3, <2>1 DEF GoOn, Goes, others, kinds, account, Read, Free, Forget, Record, ClientComes, MayBreakOff,
           Executes, Ends, Marks, WithCurrentRunStatus,
           CaseInv, TypeOK, ShownTrue, Written, Held, Dispatched, Progress, Status, Shown, Terminal, Stopped, Executor, Writer
    <2> QED BY <2>1, <2>2, <2>3, <2>4, <2>5, <2>6, OnlyThis
  <1>4. CASE End(q, w)
    <2>1. TypeOK'
      BY <1>4 DEF End, Goes, others, kinds, account, Read, Free, Forget, Record, ClientComes, MayBreakOff,
           Executes, Ends, Marks, WithCurrentRunStatus,
           CaseInv, TypeOK, Dispatched, Progress, Status, Shown, Terminal, Stopped, Executor, Writer
    <2>2. Same(q)
      BY <1>4 DEF End, Goes, others, kinds, account, Read, Free, Forget, Record, ClientComes, MayBreakOff,
           Executes, Ends, Marks, WithCurrentRunStatus,
           CaseInv, TypeOK, Same
    <2>3. Written(q)'
      BY <1>4, <2>1 DEF End, Goes, others, kinds, account, Read, Free, Forget, Record, ClientComes, MayBreakOff,
           Executes, Ends, Marks, WithCurrentRunStatus,
           CaseInv, TypeOK, Written, Accountable, Full, Held, Dispatched, Progress, Status, Shown, Terminal, Stopped, Executor, Writer
    <2>4. Held(q)'
      BY <1>4, <2>1 DEF End, Goes, others, kinds, account, Read, Free, Forget, Record, ClientComes, MayBreakOff,
           Executes, Ends, Marks, WithCurrentRunStatus,
           CaseInv, TypeOK, Held, Written, Accountable, Full, Dispatched, Progress, Status, Shown, Terminal, Stopped, Executor, Writer
    <2>5. Attended(q)'
      BY <1>4, <2>1 DEF End, Goes, others, kinds, account, Read, Free, Forget, Record, ClientComes, MayBreakOff,
           Executes, Ends, Marks, WithCurrentRunStatus,
           CaseInv, TypeOK, Attended, Attends, Written, Held, Dispatched, Progress, Status, Shown, Terminal, Stopped, Executor, Writer
    <2>6. ShownTrue(q)'
      BY <1>4, <2>1 DEF End, Goes, others, kinds, account, Read, Free, Forget, Record, ClientComes, MayBreakOff,
           Executes, Ends, Marks, WithCurrentRunStatus,
           CaseInv, TypeOK, ShownTrue, Written, Held, Dispatched, Progress, Status, Shown, Terminal, Stopped, Executor, Writer
    <2> QED BY <2>1, <2>2, <2>3, <2>4, <2>5, <2>6, OnlyThis
  <1> QED BY <1>1, <1>2, <1>3, <1>4

(* Clients and readers keep the invariant. *)
LEMMA ClientStep ==
  ASSUME CaseInv, NEW q \in Request,
         \/ Resume(q) \/ ReadToCancel(q) \/ Cancel(q) \/ ReadToResolve(q) \/ Approve(q) \/ Deny(q) \/ ResolveRefuses(q) \/ LinkExistingRun(q) \/ Show(q)
  PROVE  CaseInv'
  <1>1. CASE Resume(q)
    <2>1. TypeOK'
      BY CaseExecutionsAssumption, <1>1 DEF Resume, Goes, others, kinds, account, Read, Free, Forget, Record, ClientComes, MayBreakOff,
           Executes, Ends, Marks, WithCurrentRunStatus,
           CaseInv, TypeOK, Dispatched, Progress, Status, Shown, Terminal, Stopped, Executor, Writer
    <2>2. Same(q)
      BY <1>1 DEF Resume, Goes, others, kinds, account, Read, Free, Forget, Record, ClientComes, MayBreakOff,
           Executes, Ends, Marks, WithCurrentRunStatus,
           CaseInv, TypeOK, Same
    <2>3. Written(q)'
      BY <1>1, <2>1 DEF Resume, Goes, others, kinds, account, Read, Free, Forget, Record, ClientComes, MayBreakOff,
           Executes, Ends, Marks, WithCurrentRunStatus,
           CaseInv, TypeOK, Written, Accountable, Full, Held, Dispatched, Progress, Status, Shown, Terminal, Stopped, Executor, Writer
    <2>4. Held(q)'
      BY <1>1, <2>1 DEF Resume, Goes, others, kinds, account, Read, Free, Forget, Record, ClientComes, MayBreakOff,
           Executes, Ends, Marks, WithCurrentRunStatus,
           CaseInv, TypeOK, Held, Written, Accountable, Full, Dispatched, Progress, Status, Shown, Terminal, Stopped, Executor, Writer
    <2>5. Attended(q)'
      BY <1>1, <2>1 DEF Resume, Goes, others, kinds, account, Read, Free, Forget, Record, ClientComes, MayBreakOff,
           Executes, Ends, Marks, WithCurrentRunStatus,
           CaseInv, TypeOK, Attended, Attends, Written, Held, Dispatched, Progress, Status, Shown, Terminal, Stopped, Executor, Writer
    <2>6. ShownTrue(q)'
      BY <1>1, <2>1 DEF Resume, Goes, others, kinds, account, Read, Free, Forget, Record, ClientComes, MayBreakOff,
           Executes, Ends, Marks, WithCurrentRunStatus,
           CaseInv, TypeOK, ShownTrue, Written, Held, Dispatched, Progress, Status, Shown, Terminal, Stopped, Executor, Writer
    <2> QED BY <2>1, <2>2, <2>3, <2>4, <2>5, <2>6, OnlyThis
  <1>2. CASE ReadToCancel(q)
    <2>1. TypeOK'
      BY CaseExecutionsAssumption, <1>2 DEF ReadToCancel, Goes, others, kinds, account, Read, Free, Forget, Record, ClientComes, MayBreakOff,
           Executes, Ends, Marks, WithCurrentRunStatus,
           CaseInv, TypeOK, Dispatched, Progress, Status, Shown, Terminal, Stopped, Executor, Writer
    <2>2. Same(q)
      BY <1>2 DEF ReadToCancel, Goes, others, kinds, account, Read, Free, Forget, Record, ClientComes, MayBreakOff,
           Executes, Ends, Marks, WithCurrentRunStatus,
           CaseInv, TypeOK, Same
    <2>3. Written(q)'
      BY <1>2, <2>1 DEF ReadToCancel, Goes, others, kinds, account, Read, Free, Forget, Record, ClientComes, MayBreakOff,
           Executes, Ends, Marks, WithCurrentRunStatus,
           CaseInv, TypeOK, Written, Accountable, Full, Held, Dispatched, Progress, Status, Shown, Terminal, Stopped, Executor, Writer
    <2>4. Held(q)'
      BY <1>2, <2>1 DEF ReadToCancel, Goes, others, kinds, account, Read, Free, Forget, Record, ClientComes, MayBreakOff,
           Executes, Ends, Marks, WithCurrentRunStatus,
           CaseInv, TypeOK, Held, Written, Accountable, Full, Dispatched, Progress, Status, Shown, Terminal, Stopped, Executor, Writer
    <2>5. Attended(q)'
      BY <1>2, <2>1 DEF ReadToCancel, Goes, others, kinds, account, Read, Free, Forget, Record, ClientComes, MayBreakOff,
           Executes, Ends, Marks, WithCurrentRunStatus,
           CaseInv, TypeOK, Attended, Attends, Written, Held, Dispatched, Progress, Status, Shown, Terminal, Stopped, Executor, Writer
    <2>6. ShownTrue(q)'
      BY <1>2, <2>1 DEF ReadToCancel, Goes, others, kinds, account, Read, Free, Forget, Record, ClientComes, MayBreakOff,
           Executes, Ends, Marks, WithCurrentRunStatus,
           CaseInv, TypeOK, ShownTrue, Written, Held, Dispatched, Progress, Status, Shown, Terminal, Stopped, Executor, Writer
    <2> QED BY <2>1, <2>2, <2>3, <2>4, <2>5, <2>6, OnlyThis
  <1>3. CASE Cancel(q)
    <2>1. TypeOK'
      BY <1>3 DEF Cancel, Goes, others, kinds, account, Read, Free, Forget, Record, ClientComes, MayBreakOff,
           Executes, Ends, Marks, WithCurrentRunStatus,
           CaseInv, TypeOK, Dispatched, Progress, Status, Shown, Terminal, Stopped, Executor, Writer
    <2>2. Same(q)
      BY <1>3 DEF Cancel, Goes, others, kinds, account, Read, Free, Forget, Record, ClientComes, MayBreakOff,
           Executes, Ends, Marks, WithCurrentRunStatus,
           CaseInv, TypeOK, Same
    <2>3. Written(q)'
      BY <1>3, <2>1 DEF Cancel, Goes, others, kinds, account, Read, Free, Forget, Record, ClientComes, MayBreakOff,
           Executes, Ends, Marks, WithCurrentRunStatus,
           CaseInv, TypeOK, Written, Accountable, Full, Held, Dispatched, Progress, Status, Shown, Terminal, Stopped, Executor, Writer
    <2>4. Held(q)'
      BY <1>3, <2>1 DEF Cancel, Goes, others, kinds, account, Read, Free, Forget, Record, ClientComes, MayBreakOff,
           Executes, Ends, Marks, WithCurrentRunStatus,
           CaseInv, TypeOK, Held, Written, Accountable, Full, Dispatched, Progress, Status, Shown, Terminal, Stopped, Executor, Writer
    <2>5. Attended(q)'
      BY <1>3, <2>1 DEF Cancel, Goes, others, kinds, account, Read, Free, Forget, Record, ClientComes, MayBreakOff,
           Executes, Ends, Marks, WithCurrentRunStatus,
           CaseInv, TypeOK, Attended, Attends, Written, Held, Dispatched, Progress, Status, Shown, Terminal, Stopped, Executor, Writer
    <2>6. ShownTrue(q)'
      BY <1>3, <2>1 DEF Cancel, Goes, others, kinds, account, Read, Free, Forget, Record, ClientComes, MayBreakOff,
           Executes, Ends, Marks, WithCurrentRunStatus,
           CaseInv, TypeOK, ShownTrue, Written, Held, Dispatched, Progress, Status, Shown, Terminal, Stopped, Executor, Writer
    <2> QED BY <2>1, <2>2, <2>3, <2>4, <2>5, <2>6, OnlyThis
  <1>4. CASE ReadToResolve(q)
    <2>1. TypeOK'
      BY CaseExecutionsAssumption, <1>4 DEF ReadToResolve, Goes, others, kinds, account, Read, Free, Forget, Record, ClientComes, MayBreakOff,
           Executes, Ends, Marks, WithCurrentRunStatus,
           CaseInv, TypeOK, Dispatched, Progress, Status, Shown, Terminal, Stopped, Executor, Writer
    <2>2. Same(q)
      BY <1>4 DEF ReadToResolve, Goes, others, kinds, account, Read, Free, Forget, Record, ClientComes, MayBreakOff,
           Executes, Ends, Marks, WithCurrentRunStatus,
           CaseInv, TypeOK, Same
    <2>3. Written(q)'
      BY <1>4, <2>1 DEF ReadToResolve, Goes, others, kinds, account, Read, Free, Forget, Record, ClientComes, MayBreakOff,
           Executes, Ends, Marks, WithCurrentRunStatus,
           CaseInv, TypeOK, Written, Accountable, Full, Held, Dispatched, Progress, Status, Shown, Terminal, Stopped, Executor, Writer
    <2>4. Held(q)'
      BY <1>4, <2>1 DEF ReadToResolve, Goes, others, kinds, account, Read, Free, Forget, Record, ClientComes, MayBreakOff,
           Executes, Ends, Marks, WithCurrentRunStatus,
           CaseInv, TypeOK, Held, Written, Accountable, Full, Dispatched, Progress, Status, Shown, Terminal, Stopped, Executor, Writer
    <2>5. Attended(q)'
      BY <1>4, <2>1 DEF ReadToResolve, Goes, others, kinds, account, Read, Free, Forget, Record, ClientComes, MayBreakOff,
           Executes, Ends, Marks, WithCurrentRunStatus,
           CaseInv, TypeOK, Attended, Attends, Written, Held, Dispatched, Progress, Status, Shown, Terminal, Stopped, Executor, Writer
    <2>6. ShownTrue(q)'
      BY <1>4, <2>1 DEF ReadToResolve, Goes, others, kinds, account, Read, Free, Forget, Record, ClientComes, MayBreakOff,
           Executes, Ends, Marks, WithCurrentRunStatus,
           CaseInv, TypeOK, ShownTrue, Written, Held, Dispatched, Progress, Status, Shown, Terminal, Stopped, Executor, Writer
    <2> QED BY <2>1, <2>2, <2>3, <2>4, <2>5, <2>6, OnlyThis
  <1>5. CASE Approve(q)
    BY <1>5 DEF Approve, Goes, others, kinds, account, Read, Free, Forget, Record, ClientComes, MayBreakOff,
         Executes, Ends, Marks, WithCurrentRunStatus, CaseInv, TypeOK, Written, Attended, Attends, Held, ShownTrue, Accountable, Full, Dispatched,
         Progress, Status, Shown, Terminal, Stopped, Executor, Writer
  <1>6. CASE Deny(q)
    BY <1>6 DEF Deny, Goes, others, kinds, account, Read, Free, Forget, Record, ClientComes, MayBreakOff,
         Executes, Ends, Marks, WithCurrentRunStatus, CaseInv, TypeOK, Written, Attended, Attends, Held, ShownTrue, Accountable, Full, Dispatched,
         Progress, Status, Shown, Terminal, Stopped, Executor, Writer
  <1>7. CASE ResolveRefuses(q)
    BY <1>7 DEF ResolveRefuses, Goes, others, kinds, account, Read, Free, Forget, Record, ClientComes, MayBreakOff,
         Executes, Ends, Marks, WithCurrentRunStatus, CaseInv, TypeOK, Written, Attended, Attends, Held, ShownTrue, Accountable, Full, Dispatched,
         Progress, Status, Shown, Terminal, Stopped, Executor, Writer
  <1>8. CASE LinkExistingRun(q)
    <2>1. TypeOK'
      BY CaseExecutionsAssumption, <1>8 DEF LinkExistingRun, Goes, others, kinds, account, Read, Free, Forget, Record, ClientComes, MayBreakOff,
           Executes, Ends, Marks, WithCurrentRunStatus,
           CaseInv, TypeOK, Dispatched, Progress, Status, Shown, Terminal, Stopped, Executor, Writer
    <2>2. Same(q)
      BY <1>8 DEF LinkExistingRun, Goes, others, kinds, account, Read, Free, Forget, Record, ClientComes, MayBreakOff,
           Executes, Ends, Marks, WithCurrentRunStatus,
           CaseInv, TypeOK, Same
    <2>3. Written(q)'
      BY <1>8, <2>1 DEF LinkExistingRun, Goes, others, kinds, account, Read, Free, Forget, Record, ClientComes, MayBreakOff,
           Executes, Ends, Marks, WithCurrentRunStatus,
           CaseInv, TypeOK, Written, Accountable, Full, Held, Dispatched, Progress, Status, Shown, Terminal, Stopped, Executor, Writer
    <2>4. Held(q)'
      BY <1>8, <2>1 DEF LinkExistingRun, Goes, others, kinds, account, Read, Free, Forget, Record, ClientComes, MayBreakOff,
           Executes, Ends, Marks, WithCurrentRunStatus,
           CaseInv, TypeOK, Held, Written, Accountable, Full, Dispatched, Progress, Status, Shown, Terminal, Stopped, Executor, Writer
    <2>5. Attended(q)'
      BY <1>8, <2>1 DEF LinkExistingRun, Goes, others, kinds, account, Read, Free, Forget, Record, ClientComes, MayBreakOff,
           Executes, Ends, Marks, WithCurrentRunStatus,
           CaseInv, TypeOK, Attended, Attends, Written, Held, Dispatched, Progress, Status, Shown, Terminal, Stopped, Executor, Writer
    <2>6. ShownTrue(q)'
      BY <1>8, <2>1 DEF LinkExistingRun, Goes, others, kinds, account, Read, Free, Forget, Record, ClientComes, MayBreakOff,
           Executes, Ends, Marks, WithCurrentRunStatus,
           CaseInv, TypeOK, ShownTrue, Written, Held, Dispatched, Progress, Status, Shown, Terminal, Stopped, Executor, Writer
    <2> QED BY <2>1, <2>2, <2>3, <2>4, <2>5, <2>6, OnlyThis
  <1>9. CASE Show(q)
    BY <1>9 DEF Show, Goes, others, kinds, account, Read, Free, Forget, Record, ClientComes, MayBreakOff,
         Executes, Ends, Marks, WithCurrentRunStatus, CaseInv, TypeOK, Written, Attended, Attends, Held, ShownTrue, Accountable, Full, Dispatched,
         Progress, Status, Shown, Terminal, Stopped, Executor, Writer
  <1> QED BY <1>1, <1>2, <1>3, <1>4, <1>5, <1>6, <1>7, <1>8, <1>9

(* The invariant of the requests holds at every step. *)
LEMMA CaseInvariant == Spec => []CaseInv
  <1>1. CaseInv /\ [Next]_vars => CaseInv'
    <2> SUFFICES ASSUME CaseInv, [Next]_vars PROVE CaseInv'
      OBVIOUS
    <2>1. CASE UNCHANGED vars
      <3>1. TypeOK'
        BY <2>1 DEF vars, CaseInv, TypeOK
      <3>2. ASSUME NEW q \in Request PROVE Written(q)' /\ Held(q)'
        BY <2>1 DEF vars, CaseInv, Written, Held, Accountable, Full
      <3>3. ASSUME NEW q \in Request PROVE Attended(q)' /\ ShownTrue(q)'
        BY <2>1 DEF vars, CaseInv, Attended, Attends, Executes, ShownTrue
      <3> QED BY <3>1, <3>2, <3>3 DEF CaseInv
    <2>2. CASE Next
      BY <2>2, RequestStep, DispatchStep, BreakOffStep, ExecutionStep, ClientStep DEF Next, Executor
    <2> QED BY <2>1, <2>2
  <1> QED BY CaseInit, <1>1, PTL DEF Spec

-----------------------------------------------------------------------------
(* Every variable keeps its type. *)
THEOREM TypeCorrect == Spec => []TypeOK
  <1>1. CaseInv => TypeOK
    BY DEF CaseInv
  <1> QED BY <1>1, CaseInvariant, PTL

(* A run that is or was executed has its execution and both links, unless  *)
(* a client resumed it by its id.                                          *)
THEOREM ExecutedIsAccounted == Spec => []Accounted
  <1>1. CaseInv => Accounted
    BY DEF CaseInv, Written, Accountable, Full, Accounted
  <1> QED BY <1>1, CaseInvariant, PTL

(* Only a request that broke off leaves a run that should go on to nobody. *)
THEOREM OnlyBrokenStrand == Spec => []NothingStranded
  <1>1. CaseInv => NothingStranded
    BY DEF CaseInv, Attended, Attends, Executes, Executor, Progress, NothingStranded
  <1> QED BY <1>1, CaseInvariant, PTL

(* A reader who was shown the end of a run that one process touches is     *)
(* never shown anything else.                                              *)
THEOREM EndsStay == Spec => EndsStayShown
  <1>1. ASSUME CaseInv, NEW q \in local, Next, shown[q] \in Terminal
        PROVE  shown'[q] = shown[q]
    <2>0. q \in Request
      BY <1>1 DEF CaseInv, TypeOK
    <2>1. run[q] = shown[q] /\ run[q] \notin {"none"}
      BY <1>1, <2>0 DEF CaseInv, ShownTrue, Terminal
    <2>2. PICK p \in Request : Show(p) \/ UNCHANGED shown
      BY <1>1 DEF Next, PreflightFails, CreateRun, SaveExecution, LinkTemplate, LinkCase, LinkNewRun,
           ReadToQueue, QueueRun, QueueRunRefuses, Enqueue, Reread, RunInline, StoreStatus, BreakOff,
           Claim, ReadToExecute, GoOn, End, Resume, Drop, ReadToCancel, Cancel, ReadToResolve,
           Approve, Deny, ResolveRefuses, LinkExistingRun, others, account
    <2> QED BY <1>1, <2>0, <2>1, <2>2 DEF Show, WithCurrentRunStatus, CaseInv, TypeOK
  <1>2. CaseInv /\ [Next]_vars => [\A q \in local : shown[q] \in Terminal => shown'[q] = shown[q]]_vars
    BY <1>1 DEF vars
  <1> QED BY <1>2, CaseInvariant, PTL DEF Spec, EndsStayShown
=============================================================================
