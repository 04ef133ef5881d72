# TLA+ models of DOGE: agent runs, and what surrounds them

DOGE (`src/src/doge`) is a financial research assistant. Its core is a daemon
that executes *agent runs*: a run asks a model, executes the tools the model
asks for, pauses for human approvals, and ends with an artifact. This directory
holds TLA+ modules of that core, of the protocols around it (intake, outbox,
streams, cases, migrations, slots) and of the data it works on (documents, prices,
market scans and their console), the TLC configurations that check them on
small instances, and proofs TLAPS checks for every instance.

    tlasany M.tla                       parse a module
    tlc -config X.cfg MCM.tla           check one instance (section 4)
    tlapm MProofs.tla                   check the proofs

`PROJECT.json` lists every run, mutant, theorem, the source lines each definition
translates, and the hazards the properties are for.

## 1. Inventory

Paths are relative to `src/src/doge` where nothing else is said.

| part | state it keeps | operations | what is hard about it |
|---|---|---|---|
| run kernel (`application/agent/run_stepper`, `run_lifecycle_service`, `approval_coordinator`, `transition_recorder`, `state_machine`) | rows of `runs`, `events`, `artifacts`, `approvals` | create, step, pause, resolve, cancel, resume, fail | the header is read, then written whole in another transaction; awaits of minutes between decisions; `task.cancel()`; several processes |
| run queue (`infrastructure/database/agent_repositories.SQLiteRunQueue`) | the log `run_queue`, latest row per run | append, claim, heartbeat, release, recover | leases that expire under a live worker, a claim released by its former owner, attempts, order |
| worker loop (`application/agent/worker`) | its claim, the task that executes it, a heartbeat task | poll, execute, cancel, release, stop | a heartbeat that dies, death between two commits, attempts that continuations use up |
| enqueue unit of work (`sqlite_uow`, `sqlite_runtime_transaction`) | `idempotency_keys`, and a run with its turn, events and queue row | reserve-or-get, insert, publish after commit | a failure half way, a repeated request, a lost answer |
| outbox (`outbox_publisher`, `SQLiteOutboxRepository`) | `runtime_outbox` | stage, claim, publish, mark | at-least-once, leases that are not fenced, a loop that dies |
| event stream (`handlers/streaming`, `routers/run_stream`, the event subscriber, the SDK's reader) | the cursor of each client | open, replay, follow, close, reconnect | the run moves on between the reads that decide whether the stream ends |
| API handlers and facade (`interfaces/api`, `interfaces/gateway`, `runtime_kernel`) | none | cancel, resolve, resume, enqueue | they run beside the worker, in its process or another |
| slots platform (`platform/slots`, `bootstrap/runtime_factories/slots`) | the install directory, bundle rows | install, top up, load, activate | installers that die between files, runtimes that load meanwhile |
| case service (`platform/workspace`) | cases, executions, links, decisions | execute template, link, review, decide | five transactions for one operation, a status that is stale when written |
| schema migrations (`migration_runner`) | `schema_migrations`, every table | apply, record | which statements are durable when a process dies, two processes at start-up |
| market scan (`api_legacy/routers/scan`, `use_cases/scan_market`, `data_source`) | the lock and status of each market, a thread and a queue of events per scan | accept, download or read files, store, report, release | the thread is started by the response's generator; two sources; several events that end the stream |
| price store (`database/sqlite_storage`) | `stock_prices` | read the newest date, append, prune | three transactions for one save, other processes, bars that still change |
| documents (`file_upload_service`, `page_extraction_service`, `evidence_repository`) | files under their hash, `documents`, `document_pages`, `document_chunks` | upload bytes or a stream, move, parse, store, cut into chunks | shared temporary files, uploads of what is known, deaths between five writes |
| web console (`web/src/stores/scanner`, `web/src/composables/useSSE`, from the top of the repository) | status, stream and timer of each market | scan, auto-scan, watch, fail, complete | one watchdog flag and one timer handle for two markets |
| reports, retrieval, portfolio, caches | files, tables | fetch, transform, print | I/O; little state that outlives a call |
| governance, identity, access | policies, audit rows | decide, record | one request at a time |
| other front ends (CLI, MCP, legacy API, SDKs, web), settings, evaluation | none | parse, call, print | nothing concurrent of their own |

How the parts interact: a session turn makes the unit of work insert a run
(QUEUED), its first events and a queue row in one transaction. A worker loop
claims the oldest claimable row, starts a heartbeat task and the execution
(`run_to_pause_or_completion`), and releases the claim with the status the
execution ended in. Handlers resolve approvals (which queues the run again) and
cancel runs (which records CANCELLING and cancels the task, if the run is
executed in the same process). Every commit of the kernel stages its events in the
outbox and publishes them on the bus of its process; streams read them from the
log. A research case creates runs of its own, links them and queues them, or
executes them in the request. All processes bootstrap the same database file and
load the same install directory of slots. Beside the runs, the market API scans a
market on request: the handler takes the market's lock, a thread downloads and
stores prices, and the console follows the stream of its progress. Uploads store a
file under the hash of its content, and a document with its page and chunks, which
runs cite.

What makes each part correct: *kernel* - the status of a run follows the
transition table, terminal statuses are final, an accepted cancel is not
overwritten, COMPLETED means an artifact, a pause can be resolved, an approval
is resolved once, nothing follows the closing event. *Queue* - one executor per
run, bounded and exact attempts, claims ended only by their holder, every run
settled in the end. *Unit of work* - one run per idempotency key, all rows or
none. *Outbox* - every committed event is announced, in order, at least once.
*Stream* - each event once, up to the closing one. *Cases* - whatever is executed
can be found from its case, nothing is stranded, ends that were shown stay.
*Migrations* - no rows are lost, what is recorded was applied. *Slots* - what is
installed is whole, and does not keep a runtime from starting. *Scans* - one at a
time for a market, the lock comes back, what the client is told is how the scan
ended. *Prices* - no holes, no stale success, history stays. *Documents* - a file is
what was hashed, an answered upload is extracted, chunks lose nothing and cite
exactly. *Console* - one stream for a market, errors and silence end it and its
timer.

## 2. Plan

In this order, most important behaviour first:

1. `RunKernel` and `RunKernelProofs`: the run. **Done.**
2. `RunQueue` and `RunQueueProofs`: the queue and the loops. **Done.**
3. `AgentDaemon`: composes 1 and 2 as the worker does. **Done.**
4. `Outbox`, `TurnIntake` and its promise `IdempotentIntake`. **Done.**
5. `RunLog` and `EventStream`; `AgentDaemon` is checked to implement `RunLog`. **Done.**
6. `CaseExecutions`. **Done.**
7. `Migrations`. **Done.**
8. `SlotInstall`. **Done** for installations one after another; left: two
   installers at once, activation of bundles, execution of providers.
9. `RunDispatch`, an abstract queue (an open run is handed to one worker at a time,
   and closed by one who worked on it or given up) that `RunQueue` refines under the
   assumptions of `Exclusive`. **Done.**
10. `DocumentIntake` and `Chunking`; `MarketScan`, `PriceStore` and `ScannerStore`.
   **Done.** Left: composing `ScannerStore` with the stream of `MarketScan`.
11. Proofs: one module for each component with theorems, `AgentDaemonProofs` over
   those of its halves, `SurroundingsProofs` for the six parts of `Surroundings`.
   **Done** for every safety property that a run checks.

## 3. The modules and the code

### RunKernel: one run, and every coroutine that works on it

| model | code |
|---|---|
| `run` (`status`, `cancelReq`) | the row of `runs` |
| `log` | the types of the rows of `events`, in order |
| `artifacts`, `approval` | the rows of `artifacts` and `approvals` |
| `pc[a]` | where coroutine `a` is: suspended in a model or tool call, or between a read of the header and the write it leads to |
| `hdr[a]` | the `AgentRun` object in the hands of `a` |
| `loop[p]` | the coroutine that the event loop of process `p` is running |
| `calls`, `round` | the loop variables of `RunStepper.step` and `run_to_pause_or_completion` |
| `execs`, `requests` | bounds, not code |

The code reads the header, decides, and `TransitionRecorder.record` writes the
whole header back with its events in one transaction. Every read is one action
(`StepRead`, `ModelReturn`, `NextCall`, `ToolReturn`, `CancelRead`, ...) and every
transaction is another (`StepStart`, `RecordResponse`, `AskApproval`, `Complete`,
`CancelWrite`, ...). Which of them can be interleaved is the asyncio part: `record`
contains no await that suspends (the bus publishes into unbounded queues), so in
one process nothing runs between a read and its write. `Stay` keeps the loop,
`Suspend` and `Leave` give it up, `CanRun` is the right to take it. Coroutines of
*other* processes interleave everywhere. `RecordRaises` is a write that is refused
(`ensure_transition`) or fails (`FaultyWrites`); `CallRaises` a call that raises;
`FinalizeRead`, `FailureRead` and `Finish` are what the worker does with an
execution that was cancelled, failed or ended. Prompts, payloads, budgets and
citations are choices: a response is over budget, final, or asks for `n` calls.

### RunQueue: the table run_queue, and the loops

| model | code |
|---|---|
| `row[r]` | the latest row of run `r`; `left` is the lease time left, from `lease_expires_at` |
| `before` | the order of the latest rows (`queue_id`) |
| `pc`, `holds`, `beat` | each `_process_loop`: its state, its claim, its heartbeat task |
| `seen` | what `append_status` read and has not inserted yet |
| `claims`, `appends` | a history variable, and a bound |

`claim_atomic` is one `BEGIN IMMEDIATE` transaction with two outcomes
(`ClaimAtomic`, `DeadLetter`); `append_status` is two statements without a
transaction, so it is `AppendStatus` then `AppendWrite` unless `AtomicAppend`;
`heartbeat`, `release_claim` and `recover_stalled_leases` (in `Start`) are one
action each. Time is `Tick`, which lowers `left`.

`RunDispatch` is what is left for those who queue runs: no leases, heartbeats or
processes. `open` is the runs whose latest row is `queued` or `running`, `doing[w]`
the run that worker `w` executes, `handed` the claims. `HandsOut` is that the queue
implements it: `append_status` offers a run (which only an idle one may be), a claim
hands it out, the end of an execution or a death stops it, a release closes it, and
dead letters, of a claim or of a recovery, give it up.

### AgentDaemon: the two together

`K == INSTANCE RunKernel` and `Q == INSTANCE RunQueue`, sharing `run`/`row` the way
`AsyncioWorker` does: `Claim` is `Q!ClaimAtomic` and `K!Begin` (claim, then create
the task); `Execute` is a step of the kernel, whose last one is `Q!End`; `Release`
is `Q!ReleaseClaim` with the status of `_queue_status_for_run`, and `AfterRelease`
what happens when the await of a heartbeat task that had failed raises after the
release. `Request` is the cancel, resolve and resume requests; `Continue` is
`enqueue_continuation`, which follows an approval in the same request (`owes`).
`InlineResume` adds `POST /v1/runs/{id}/resume`; `MaxCrashes` bounds process deaths.
One run suffices: runs share nothing but the order of the queue, which `RunQueue`
checks with two.

The assumptions the halves make of each other become properties here:
`HalvesFit` is `DispatchIsExclusive`, which is `Exclusive` of the kernel, and
`ProducersAreDisciplined`, which is `Disciplined` of the queue. `FeedsStreams`
maps the log of the kernel to the abstract `RunLog` (`Seen` forgets which step an
event belongs to), so what `EventStream` assumes of its writer is what the daemon
does.

### Outbox, TurnIntake and IdempotentIntake: how a turn becomes a run

| model | code |
|---|---|
| `outbox` | the rows of `runtime_outbox`, one per event, in the order of `created_at`; `age` is the time since `claimed_at` |
| `announced` | how often the publisher loops published each event (history) |
| `pc`, `held`, `todo`, `alive` | the event loop of each process, the batch its publisher loop leased and what is left of it, and whether the loop still runs |
| `created`, `reserved` | the rows of `runs`, numbered by commit, with their key; `idempotency_keys` |
| `writer`, `found` | who is inside `BEGIN IMMEDIATE`, for which request, and what its lookup returned |
| `request` | each client request: its state, its process, the run that answers it |

`Begin` is `BEGIN IMMEDIATE` and `_reserve_or_get`; `Repeat`, `Insert` and
`RollBack` are the three ways out of `enqueue_run_and_turn`; `Record` is any other
commit of one event. `Stage` is `stage_outbox` within those transactions, `Emit`
the publication in the committing process. `Claim`, `Publish` (one event each) and
`Mark` (row by row, each a commit) are `publish_once`, `DbFault` an exception out of it, which ends the loop
(`_run` has no handler), `Tick` the clock that expires leases. `Die` takes the
process, its transaction and its requests.

`IdempotentIntake` is what a client may rely on, in five one-step actions.
`KeepsPromise` is the refinement: `runs <- created`, and of a request only its
state and its run. Two things in the code differ from what one may expect:
`outbox_publisher.py:11-17` describes the publisher as switched by a flag, but
staging always inserts, so with the flag off the table only grows; and
`release_stale` has no caller (`claim_pending` takes expired leases itself).

### RunLog and EventStream: who follows a run

| model | code |
|---|---|
| `status`, `events` (`RunLog`) | the status of the run, and its events by what they mean to a stream |
| `server` | the generator of `RunStreamHandler`: `atStart` and `max` are `close_at_start` and the probe, `last` the last sequence number sent, `upto` the end of the batch it fetched |
| `wire` | what was sent and has not arrived |
| `received`, `client`, `attempts` | the generator of `RunResource.stream` in the SDK, its `Last-Event-ID` and reconnects |

Every read of the server is a step of its own (`Open`, `Probe`, `Fetch`, `Check`),
and the writer (`Write`, a step of `RunLog`) gets in between. A followed stream may
therefore end at an *old* `approval_requested` when the run has completed
meanwhile; that is a closing event, and `EndsComplete` allows it. `EndsComplete`
leaves FAILED runs out: the handler ends the stream after the first event it
sends, although `src/docs/reference/http-api.md:289` says that historical events
are replayed.

### CaseExecutions: runs that belong to a research case

| model | code |
|---|---|
| `run`, `pending` | the status of each run, and those with a pending approval |
| `queue`, `claimed`, `resuming` | the runs whose latest queue row is `queued`, those the worker executes, and those that a resume executes |
| `header` | the status that each writer of the run has read and not yet written: the worker, the request, a resume, a cancel, a decision |
| `execution`, `links` | the stored status in `workflow_executions`; the rows of `workflow_template_runs` and `research_case_runs` |
| `at` | how far each `execute_template` or `create_run_link` is |
| `daemon`, `local` | whether a worker executes the run or the request does; whether one process alone touches it |
| `asked`, `resumed`, `dropped` | which runs somebody cancelled, resumed, or resumed in vain (history, but for `asked`: the task that was cancelled) |
| `shown` | the last status a reader was shown |

Each write of `execute_template` is a transaction of its own: `CreateRun`,
`SaveExecution`, `LinkTemplate`, `LinkCase`, `QueueRun`, `Enqueue`, `StoreStatus`;
`BreakOff` is an exception or a death between any two. `LinkNewRun` is
`create_run_link`, `LinkExistingRun` the linking of a run that is there. A request is
dispatched to the daemon or executed inline. The kernel is here what its clients see
of it, but with its two transactions: whoever changes a status reads the header
(`Read`, in `ReadToExecute`, `ReadToCancel`, `ReadToResolve`, `ReadToQueue`,
`Reread`) and writes it back later (`Record`, in `GoOn`, `End`, `Cancel`, `Approve`,
`Deny`, `QueueRun`), by the transition table of what it *read*. In one process
nobody reads while another is about to write (`Free`, proved of the kernel as
`HeaderAlwaysRow`); processes get in between. `Resume` is `POST /v1/runs/{id}/resume`
of a CREATED or QUEUED run, `Drop` its request dying. `Show` is what the reads
return: the stored status overlaid by the status of the run (`WithCurrentRunStatus`).

A resume by its id executes a run whose request broke off before it was linked, so
`Accounted` excepts runs that were resumed. A late cancel in another process writes
CANCELLING over an end, so `EndsStayShown` is about the runs in `local`; with
`q \in Request` instead TLC finds an execution that ends and is shown, and a cancel of
another process, which had read the run before, that then records CANCELLING. Seen while
modelling: a run cancelled between its creation
and its dispatch makes `queue_run` refuse and the request raise; an inline run
whose CLI dies stays RUNNING for ever; linking a run again overwrites `link_type`,
while `ADR-0016:81` says the existing link is returned.

### Migrations: starting on an old database

| model | code |
|---|---|
| `disk`, `work`, `writer` | the committed database, the one an open transaction sees, and whose transaction that is |
| a table's `schema`, `full`, `legacy` | its definition, whether it holds the rows, whether `<table>_legacy` holds them |
| `recorded` | `schema_migrations` |
| `pc`, `at` | each process in `bootstrap_agent_schema` and `apply_context_migrations` |

The interesting part is Python's `sqlite3`: a DDL statement outside a transaction
is durable at once, the first INSERT or UPDATE opens a transaction, and DDL inside
it belongs to it (`Ddl`, `Dml`). So of the first pending rebuild `RENAME` and
`CREATE` are durable before the copy (`migration_runner.py:437`, and `:106`), and
everything after the first copy or record is one transaction up to the commit of
the bootstrap. A death in between leaves the rows in `<table>_legacy`; the next
bootstrap creates the table empty, finds it migrated, records it, and never copies
the rows back. `NothingDestroyed` says that they are still somewhere,
`LeftBehindByInterruption` that only a death or an error does this. Two processes
that start at once both look, and the second rebuilds the new table once more.
The copy is an INSERT OR IGNORE: rows that the new definition refuses are skipped, and
lost with the DROP. `full` and `legacy` are about the rows it admits.
A plan of four migrations (five statements) stands for the seventeen of the code:
a rebuild, a backfill, an added column, a rebuild of two tables.

### SlotInstall: installing beside loading

| model | code |
|---|---|
| `stage`, `dest` | `.<slot>.stage` and `<slot>` in the install directory, by their three files |
| `pc`, `src`, `open` | `SlotInstaller.install`: its step, its source, whether a copy is half done |
| `phase`, `seen`, `unread`, `loaded` | a runtime in `SlotLoader.load` and the registry |

`Clear`, `Make`, `Copy` (twice per file) and `Promote` install a new slot,
`TopUpSignature` and `TopUpPackage` change an installed one in place;
`Make` needs `Clear`, because `mkdir` refuses a directory that is there;
`StagingFails`, `OtherwiseFails` and `Die` are failures where a handler removes the
stage, where none does, and deaths. A loader lists (`Scan`), looks for manifests
(`Probe`), reads them (`Read`) and registers them (`Register`), with the installer
in between. The stage directory matches the loader's pattern `*/slot.json`, so a
runtime can load it or fail at it; and topping up replaces the signature before it
compares the package. Installations follow one another here: two at once share the
stage directory, and are not modelled.

### MarketScan: one market, its handler, its threads and its streams

| model | code |
|---|---|
| `lock`, `status` | `_scan_locks[market]` and `_scan_status[market]` |
| `pc`, `server`, `path` | how far a scan is: handler, `run_scan`, its `finally`; `use_server` and `tdx_path` of its request |
| `tried`, `kept` | how many tickers the scan has gone through, and whether of them nothing, a ticker, or only remains were stored |
| `queue`, `stream`, `told` | the events that end a stream on their way, the response, the last event the client got |

`Accept`, `Answer` and `Begin` are the handler and the first step of the generator,
which starts the thread; `Disconnect` cancels the response, and before that first
step nobody is left to release the lock. `Download` and `ReadFile` are one ticker
each, `FinishServer` and `ServerRaises` go over to local files or not, `Release` and
`Reset` are the two statements of the `finally`. They are in this order, so a scan
that begins in between may be shown as idle; `RunningIsNoLie` is the other direction.
`Save` is what `save_prices` may leave: the ticker, nothing, or the remains of a save
that committed its append and then raised while pruning, which counts as failed. So a
client that is told of a failure has no ticker saved, but there may be remains of the
download that the scan of the local files followed (`FailureMeansNothingSaved`).
Progress below 100 has no effect but on the display and is left out.

### PriceStore: the bars of one ticker

| model | code |
|---|---|
| `bars` | `stock_prices`: nothing, the final bar, or one stored while the exchange was open |
| `pc`, `day`, `early`, `seen`, `outcome` | each saver: its step, the frame it downloaded, the `MAX(date)` it read, what it reported |
| `today`, `trading` | the calendar, in trading days |

`Anchor` reads the newest date, `AppendBars` is `to_sql` (which commits by itself),
`Prune` the `DELETE` and its commit; `Conflict` is the primary key that refuses a
whole append because another process was faster. The lock of `MarketScan` holds in
one process only, so two savers are two processes. `Open` assumes that scans are no
further apart than a download reaches (120 bars) and that no save lasts into the day
after the next one; without the first there is a hole that no program can avoid.

### DocumentIntake: from an upload to its chunks

| model | code |
|---|---|
| `stored`, `shared`, `torn`, `writes` | the file under its hash, the file `<hash>.tmp`, which files are truncated and not yet written, which file an upload has open |
| `rows`, `content`, `page`, `chunks` | `documents` in the order of their rows, their text, `document_pages`, and the pages `document_chunks` were cut from |
| `pc`, `upload`, `doc`, `text` | each process: its step, its upload, the document it works on, what the parser gave |

All uploads have the same content, because different contents share nothing. `Open`,
`Write`, `MoveStream` and `MoveShared` are the two ways a file is stored
(`Exists` looks whether it is there before the shared file is truncated; `register_stream`, which has a temporary file of its own, and `register_bytes`,
which shares one, for the uploads in `Small`); `Lookup` is `get_by_hash`, `Parse` and
`Save` register the document, `Read`, `SavePage` and `SaveChunks` extract it.
`SaveChunks` is the last of the transactions that save a chunk each, since an answer
needs them all. A parser returns what is in the file, or fails, each time anew.

### Chunking: where a page is cut

`Cut` is one turn of the loop of `chunk_page`: `WindowEnd` with `Split`
(`_last_break_before`), `Keep` with `Strip`, `NextStart`. A character is a letter, a
break or other white space; `". "` ends in a break and needs no kind of its own, and
of `"\n\n"` the code finds the second newline as well, and takes the largest
position. The limit 240 is `Reach`.

### ScannerStore: the console

| model | code |
|---|---|
| `status`, `enabled` | `cnStatus`, `usStatus` and the auto-scan switches |
| `stream`, `isRunning` | the request of each market, and the flag of the one `useSSE()` they share |
| `ticking`, `timer`, `lost` | the intervals that are alive, the handles `cnTimer` and `usTimer`, and the live intervals whose handle was overwritten |

`TimerOf` is constant because `startAutoScan` keeps every interval in `cnTimer`, and
`stopAutoScan('us')` looks into `usTimer`, which nobody sets. So a switch or a new
interval of the American market leaves its old interval alive, and its start
overwrites the handle of the Chinese one (`Keep`). `OneOfEach` says what is true of
that with both switches in use: one stream for a market; an interval is the one
`cnTimer` holds or was lost to a start of the American auto-scan; and as long as that
took none from the Chinese market, this one obeys its switch.
`Stall` and `Resume` are the connection, `Watchdog` the interval that gives a silent
stream up if the flag is set.

## 4. What is checked

Passing runs (`MC*` modules hold the instances):

| run | instance | what it shows |
|---|---|---|
| `kernel_one_loop` | 2 workers and a client in one process, overlapping executions, approvals decided twice, death, writes that fail | no decision on a header somebody overwrote (`HeaderIsRow`), an accepted cancel sticks, COMPLETED means an artifact |
| `queue_leases` | 2 runs, 2 workers, timely heartbeats | the queue is `RunDispatch` (`HandsOut`): no run is handed to two workers at once, none is closed that nobody worked on; attempts are counted exactly and used up before a run is given up; with fairness, every run settles |
| `queue_fencing` | 2 runs, 2 workers, 2 racing producers, late and failing heartbeats | nobody but its holder ends a live claim (`Fenced`) |
| `daemon_one_process` | worker, 2 clients, 2 approvals, one process | a run that should go on is queued or claimed (`Attended`), a pause is left only by a decision or a cancel (`GateHolds`), status and log are those of `RunLog` (`FeedsStreams`) |
| `daemon_two_processes` | a second worker process | executions are exclusive and producers disciplined (`HalvesFit`) |
| `daemon_faults` | 2 deaths, heartbeats that fail, 2 attempts | `OneArtifact`; with fairness, queued runs go on and cancels of queued or executed runs end, also when they hit the finalization of an earlier one (or the attempts are used up) |
| `turn_intake` | 2 requests with one key, 2 processes that publish, failures | `KeepsPromise`; events are announced in order unless leased, again only after failures, and in the end |
| `stream_follow` | up to 5 events, 2 broken connections, 1 reconnect in a row | every event once and in order, complete ends, the stream ends with its run |
| `cases` | one template execution or link, through the daemon or inline, in one process or several, 2 client requests (cancel, decision, resume, link), 1 request or resume that breaks off | executed runs are found from their case unless resumed by id; the end of a run that one process touches is not taken back; with fairness, executions go on |
| `migrations` | 3 processes, any earlier version, 2 deaths or timeouts | rows survive, only interruptions leave renamed tables behind; with fairness, everybody comes up |
| `surroundings` | six parts that share no state, one per behaviour: see below | pages: no letter is lost (`Covers`), the loop ends; scans: one writer, no ticker saved when a failure is told (`ScanIsSound`), the lock comes back from a thread that began; console: one stream for a market, and no interval escapes its handle but by the American auto-scan (`OneOfEach`); prices: no hole, no stale success (`HistoryIsSound`); uploads: answered ones are extracted, only overlaps duplicate a document, torn files heal; slots: only whole releases appear, success is true, only a stage directory stops a runtime, and installing again removes it |

`Surroundings` puts the models of what runs work with side by side: `part` says
which of them takes the steps, and the others stay where they begin (`EachPartIsItself`
proves that a behaviour of it is one of every part). The parts, and their instances
in `MCSurroundings`: every page of up to 6 characters in windows of 3; 2 scans of a
market with 2 tickers, the second from local files; both markets of the console,
with auto-scan, 2 intervals and 2 stalls; 2 savers over 4 days with windows of 2
and 2 days kept; 2 processes with 3 uploads, 2 of bytes and 1 streamed, and 1 death;
releases of 2 manifests and 2 packages with a loader and 3 deaths or failures.

One run shows a claim of the documents fail (`findings` quotes the line):
`daemon_crash`. A worker dies between the pause and the release of its claim; the
run goes on with the approval pending.

Seven more configurations give counterexamples, for example with
`tlc -config ScannerTimer.cfg ScannerStore.tla`. What they refute is said by the code
or its documents:

| configuration | module | refuted | what happens, and who says otherwise |
|---|---|---|---|
| `ScannerTimer.cfg` | `ScannerStore` | `ErrorStopsAutoScan` | the interval of the American market is kept in `cnTimer` and an error does not stop it; `docs/architecture/adr-0008-web-architecture.md:121` "A terminal error also **stops the auto-scan timer**" |
| `ScannerWatchdog.cfg` | `ScannerStore` | `EveryStallSurfaces` | one market's end resets the flag the other's watchdog looks at; the same, lines 94-97: "every active SSE stream keeps a `lastEventAt` timestamp" and beyond the timeout "a **terminal** error is surfaced" |
| `ScannerBareEnd.cfg` | `ScannerStore` | `RunningHasStream` | a stream that ends without 100 or -1 leaves the market running; `useSSE.ts:203` "Treat as complete so the UI leaves the 'running' state." |
| `ScanVerdict.cfg` | `MarketScan` | `CompleteMeansDone` | the last ticker's progress, 100, ends the stream before the scan is over; `docs/reference/http-api-contracts.md:28`: 100 is success with message "done" |
| `ScanLock.cfg` | `MarketScan` | `LockComesBack` | a client that leaves before its response begins keeps the lock taken; `docs/operations/runbook.md:380` says that a scan "resets status to `idle` in `finally`" |
| `UploadAgain.cfg` | `DocumentIntake` | `ChunksHavePage` | a known file that cannot be parsed this time loses the page its chunks belong to; `design/cdd/document-evidence-pipeline.md:65` "Page/chunk IDs must remain stable enough for citations after re-open." |
| `PriceEarly.cfg` | `PriceStore` | `DownloadedIsStored` | the bar of an open day is never replaced by the final one; `design/cdd/market-data-storage.md:20` "every price I downloaded is durably stored on my local disk" |

Other limits are found by changing one constant. `RunKernel!ResolvedOnce` fails with
`Resubmission = TRUE`: an approval submitted again after it was resolved is
resolved again. `TerminalForever` fails with API and worker in two processes: a
cancel that read the header before the run ended overwrites the terminal status.
`Attended` fails with 3 approvals and 3 attempts: continuations inherit the
attempts, so the run is dead-lettered without a failure and stays QUEUED. A run
cancelled while it waits for an approval stays CANCELLING, so `CancelSettles` is
about runs that are queued or executed. With `InlineResume` a run is executed by
the request and by a worker at once (`HalvesFit` and `GateHolds` fail);
with `HeartbeatFaults` a run that has just paused is recorded as FAILED when the
dead heartbeat is awaited (`GateHolds` fails); with a death between a resolution
and its enqueue a QUEUED run is in no queue (`Attended` fails). These are why
`daemon_one_process` has no deaths and the assumptions are constants. Each of
`Timely`, no `HeartbeatFaults`, `AtomicAppend` and `Disciplined` is needed for
`MutualExclusion`, and so for `HandsOut`: dropping any one of them violates it.

### Bounds

Two workers are the least that overlap, two clients the least that race; two
approvals give a pause, its continuation and a second pause; `MaxRounds = 2` and
`MaxCalls = 2` reach the round limit, a next round and a call that is not the last.
`LeaseTicks = 2` separates a fresh, an old and an expired lease. `MaxAttempts` is 2
where the limit is to be reached. `MaxExecs`, `MaxRequests`, `MaxAppends` and
`MaxCrashes` only bound the runs; `MaxExecs` is never below what the attempts allow
in the liveness runs, so that it does not stop a claim.

The two requests of `turn_intake` have one key, so that one joins the other, is
rolled back before it, or retries after a lost answer; `BatchSize` is below
`MaxEvents`, so that batches leave rows behind; the one failure is a process or a
loop that dies, with or without a batch, or a batch that outlives its lease and is
leased again by the other loop. Five events of a stream hold a pause, a
continuation and an end; two cuts with one reconnect reach both the reset of the
attempts by a received event and the client that gives up. Three processes of
`migrations` let a third one come between two that race. In `surroundings`, three faults
let an installation be broken twice and then fail again while it is cleared. Two
scans are the one that has the market and the one that wants it, two tickers a scan
that succeeds in part. Three uploads are two that race for the shared file and one
that finds what they left; the death may be of any. Windows of 3 with `Overlap` and
`Reach` 2 are the smallest where the overlap is limited and windows step back as far
as they can. On the fourth day pruning with 2 days kept meets an append and a saver
that is a day late. One request of `cases` is enough, because requests share nothing;
two client requests let a cancel or decision be read before an end and written after
it, and let a resume meet the dispatch; one thing breaks off. Every action of every
module fires. The configurations allow deadlock
where the bounds, or a finished run, really stop the system.

### Fairness

`RunQueue!FairSpec`: time passes; a stopped process is started again; heartbeats
are sent; an execution ends (models and tools are called with timeouts) and its
claim is released: weak fairness. Polling has strong fairness: a loop that is
killed again and again is not always killed before it polls.
`AgentDaemon!FairSpec`: the same, and every coroutine that is ready is scheduled by
the event loop. That is strong fairness, because the loop belongs to another
coroutine in between; asyncio runs ready callbacks in order, so nobody is passed
over for ever. Clients need not send anything (`Request` is fair only once it has
begun), and deaths are not fair.

`TurnIntake`: time, announcements and open transactions go on (weak); a publisher
loop gets the database in the end (strong, because the lock is taken and released
by others in between). `EventStream`: the server polls and the client reads.
`Migrations`: a statement that waits for the lock gets it, and a process that could
not start is started again (strong). `CaseExecutions`: requests, workers and
executions go on; reading the header and ending an execution are strong, because a
coroutine of the same process may be between its read and its write again and again,
and asyncio passes nobody over. Clients need not come, but write what they read for. `SlotInstall`: an installer that has begun goes on; `Heals`
promises nothing unless somebody installs the slot again and again. `MarketScan`: the
event loop serves its responses and threads go on; clients may leave.
`DocumentIntake`: a process goes on with its upload, new ones need not come.
`Chunking`: the loop runs. All weak. In `surroundings` each of them is fair in its own
part; there a response need not begin, and `BegunMeansReleased` needs no more than
the threads. The fairness of `ScannerStore` (the browser fires the interval of a
watchdog) is only for `ScannerWatchdog.cfg`.

## 5. What is proved

TLAPS checks the theorems for every value of the constants that satisfies the
`ASSUME`s of their modules.

*RunKernelProofs.* `TypeCorrect` needs `CallPending` (a tool call in progress is
counted in `calls`). The other theorems but one assume `OneLoop`, all coroutines in
one process. Their invariant is `KernelInv == TypeOK /\ CallPending /\ Synced`,
where `Synced` is `LoopHeld` (a coroutine between read and write holds the loop) and
`HeaderIsRow` (its header is the row): `HeaderIsRow` alone is not inductive, because
without `LoopHeld` another coroutine could write. `Alone` says that two coroutines
of one loop are never both deciding; `Written` that every step either leaves the
row and the artifacts alone or is a decision; `WrittenOnRow` puts these together:
the check `record` makes on the object is a check on the row. From it follow
`StatusFollows` (`StateMachineHolds`), `TerminalStays`, `CancellationSticks` and
`CompletedWithArtifact`. `PauseIsResolvable` needs no assumption on processes.
`OneLoop` is needed: with two processes TLC refutes `TerminalForever`.

*RunQueueProofs.* `Exclusive` (`MutualExclusion`) assumes `Leased`: timely heartbeats
that do not fail, an atomic append, disciplined producers. Its invariant `ClaimLive`
says that whoever executes has a live heartbeat and owns a row whose lease has not
expired, so that the run is neither claimable nor recovered. `AttemptsCounted`
(`AttemptsExact`) assumes `AtomicAppend` only; its invariant `Counted` says that the
latest row carries the number of claims, and that a claimed row counts at least one.
Of both follows `QueueDispatches` (`HandsOut`, assuming `Leased`): a row that is
offered, claimed, released or given up belongs to a run nobody executes (`IsIdle`,
`NobodyOnIt`), a release follows a claim, and who is given up has used up the
attempts (`Dispatches`, one step for each action). `ClaimsFenced` (`Fenced`) assumes nothing
and needs only types.

*TurnIntakeProofs.* Of the outbox, `BatchInv` says of a
leased batch that each of its events is still to be announced or was announced, and
that nothing before its last event is pending; from the first follows
`NothingMarkedUnannounced`, from the second `RunsStayInOrder`. Of the intake,
`LookedUp` says that what the writer's lookup found is still true, because nobody
else holds the write lock; `KeysMatch` that keys and runs name each other; `Staged`
that the events belong to runs and each run has two; `Numbered` that every run has
used up a request, which types the run numbers. With them each step is a step of
`IdempotentIntake` or changes nothing it speaks of (`InvNext`), which is
`Implements`, and they give `WholeOrNothing`, `KeysCreateOneRun` and
`AnswersNameTheRun`. `OncePerFailure` (`RepeatsNeedFailures`) counts: how often an event
was announced says nothing of the loops that still hold it, so `RepeatInv` bounds the
announcements *and* the batches that may still announce it by the failures, plus one
unless the row is free to be leased again.

*CaseExecutionsProofs.* `CaseInv` has four parts for each request. `Written` is what the
request has written at each step, and gives `ExecutedIsAccounted`. `Held` is who has a
header and how old it can be: of a run that one process touches it is the row, and nobody
else has one. With it `ShownTrue` (an end that was shown is the status of the run) is
kept by every write, which is `EndsStay`; without `local` the late cancel breaks it.
`Attended` is who sees to a run that should go on, from which `OnlyBrokenStrand` follows.

*MigrationsProofs.* `Behind` and `Here` say what a process that is at step i knows of
the steps before it in the database *it* sees: recorded, or migrated and of the
migration it is applying. `Changes` is the one lemma on SQLite: a statement makes
the database of its process later and leaves the others theirs. `RecordsAreTrue`
needs the assumption that the statements of a migration follow one another.
`OnlyInterruptionsLeaveRows` (`LeftBehindByInterruption`) rests on `InHand`: while
nobody was interrupted there is one database, and a table that is not whole is one that
a live process is rebuilding and will finish.

*EventStreamProofs.* `InStep` says that the wire starts where the received events end
and the server stands where the wire ends; `Complete` what an ended server has seen.

*AgentDaemonProofs.* The proofs of the halves are used through instances: `KernelStep`
and `QueueStep` say that a step of the daemon is a step of the kernel (or a run that a
request puts back into the queue) and a step of the queue, so that their lemmas hold
here. What the halves assume of each other cannot be assumed any more, it is what has to
be shown, and neither half is inductive without the other.

- `ArtifactIsOne` (`OneArtifact`) is for one process without inline resumption, through
  deaths, heartbeats that fail, late leases, refused writes and repeated approvals. `Single`
  adds to the invariant of the kernel where a worker and a client can be (`Placed`), and
  that nobody is in the middle of a step when the run is COMPLETED (`NoneLate`).
- The others are about a *calm* daemon: timely heartbeats that do not fail, no deaths,
  no inline resumption, no repeated approval, clients of one process. `Calm` is the
  conjunction, the setting of `daemon_one_process` and of `daemon_two_processes`; what
  fails without each of these is in section 4, and `daemon_crash` shows it for deaths.
  Workers may be many and live in any processes.
- `OneBaton` is their invariant: the right to move the run on is one baton. It is with the
  queued row, with the one worker that holds the claim, with the pending approval, or
  with the request that owes the row (`Baton`); `Duties` says what a worker at each step of
  its loop has. `HalvesAlwaysFit` and `GateAlwaysHolds` follow from it.
- `Going` adds that a run that is QUEUED has its row queued, is executed or owed, or was given
  up: `NobodyIsForgotten`. Writes must not fail: one that does leaves the pause half
  made. `RunIsAttended` (`Attended`) removes the last case by counting: `Spent` says that
  attempts are at most the approvals decided and one, so `Provided` (more attempts than
  approvals) never lets them run out.
- `Open` says that whoever has the baton has a run that is not over. With it each step is
  one of `RunLog` (`StreamsAreFed`): status and closing event together, nothing
  after the end. This needs the clients in the process of the workers as well
  (`K!OneLoop`), for the reason `TerminalStays` does.

*SurroundingsProofs.* An invariant for each part, all of them for any value of the
constants.

- *Pages.* `Windows` says where the loop stands: the next window starts in the
  last one, no further before its end than `Overlap`, and the loop goes on only before
  the end of the page. With it `Covers` and `Citeable` are inductive for any page and any sizes
  (`NothingLost`, `OffsetsExact`); `WindowsAdvance` needs `Roomy`, because a window that
  ends at a break as far back as `Reach` and starts again `Overlap` earlier could end
  where it did before.
- *Console.* `Handles` says that `usTimer` is never set, that the live intervals of a
  market are those that were lost and the one that `cnTimer` holds (`Reached`), and
  that it holds one of the Chinese market only while its switch is on. Any set of
  switches may be in use.
- *Scans.* `Held` says that a scan from its acceptance to its release is the one that has
  the lock; `Fruitless` (`Honest` of each scan) that once a failure is in its queue, or
  told, nothing is saved (`Vain`) and nothing will be: a failure of the whole scan is
  only put there at a step before the first ticker of a source. Remains of failed saves can
  be there only of a scan that has gone from the server to local files. They give
  `ScansAreSound`.
- *Prices.* That there is no hole now does not tell that an append keeps it so: a saver
  appends what it downloaded against a newest date it read before. `NewestIsStored` bounds
  how far today is from the newest bar by `Window`, `SaverIsCurrent` how old what a saver
  read can be; an append then reaches back to what is there. Pruning keeps the
  newest `Retention` days, which is no less than a window (`PriceAssumption`).
- *Uploads.* `Knows` says what a process has at each of its steps, given what is stored: the
  document it looked up, the text it parsed, and from `answer` on that it is stored;
  rows are never taken away. For `OneRowForEachProcess` each process that found no row
  has a place reserved for the one it is going to insert (`Room`): rows and such
  processes together are never more than processes, because a lookup that finds a row
  reserves none.
- *Slots.* `Staged` says what an installation that makes a directory has laid at each step,
  `ToppedUp` what one that tops up has found and replaced, `Sees` that a runtime never
  sees both directories. The final one comes from the stage by one rename and its
  manifest is not touched again: hence `PromotionsAreWhole`, `SuccessIsInstalled` and
  `RuntimesFailOnlyAtAStage`.

*Proved, and in no run:* `MutualExclusion` (which `HandsOut` implies), `AllOrNothing`, `OneRunPerKey`, `AnswersAgree`,
`MarkedIsAnnounced`, `RecordedMeansMigrated`, `AllAtOnce`, `PauseCanBeResolved`,
`NothingStranded`, `Citeable` and `EndsAdvance` are left to their theorems.

*Only model-checked:* all liveness (`Settles`, `CancelSettles`, `GoesOn`, `Drains`,
`StreamEnds`, `ComesUp`, `Heals`, `BegunMeansReleased`, `TornHeals`, `PageEnds`), which is
out of the prover's reach, as is `ENABLED`.

## 6. What is not modelled

The parts that `PROJECT.json` lists as `not_modelled`, with reasons: I/O, parsing,
formatting and single-row reads and writes, which have no protocol. Inside the
modelled parts: payloads, budgets and prompts; access checks and audit rows; the
wake-up queue in memory (the loop polls anyway); metrics; failing statements of the
queue other than heartbeats; failing writes of `enqueue_continuation`; the
subscribers of the event bus; two installers of one slot at once, activation of
bundles and the execution of providers; the macro and report jobs of the market API,
retrieval, the DuckDB views, the formats the parsers read, and the views of the web
console other than the scanner; what happens to a file that was torn by a death (it
stays, because a file that exists is not written again: `TornHeals` is about uploads
that live).
SQLite transactions are taken to be atomic and durable, renames of directories
atomic.
