----------------------------- MODULE MarketScan -----------------------------
(***************************************************************************)
(* POST /api/scan/{market} of the market API (api_legacy/routers/scan.py), *)
(* for one market: the handler, which takes the market's lock; the thread, *)
(* which downloads or reads the prices of every ticker and stores them     *)
(* (ScanMarketUseCase), refreshes the views and gives the lock back; and   *)
(* the stream of progress events between them and the client.              *)
(*                                                                         *)
(* Handlers and streams run on the event loop, each scan has a thread of   *)
(* its own.                                                                *)
(***************************************************************************)
EXTENDS Naturals, Sequences, FiniteSets

CONSTANTS
    MaxScans,   \* bound: accepted requests
    Tickers     \* number of tickers, or of local files

Scan == 1..MaxScans
NoScan == 0

VARIABLES
    lock,       \* _scan_locks[market]: the scan that has it
    status,     \* _scan_status[market]
    pc,         \* how far each scan is
    server,     \* scans with use_server
    path,       \* scans with a tdx_path
    tried,      \* tickers or files the use case has gone through
    kept,       \* what of that was stored
    queue,      \* events on their way to the stream
    stream,     \* the response of each scan
    told        \* the last event that its client got

vars == <<lock, status, pc, server, path, tried, kept, queue, stream, told>>

MarketScanAssumption == MaxScans \in Nat /\ Tickers \in Nat

(* Progress is "full" at 100 while the thread goes on, "done" at 100 when  *)
(* it is through, "failed" at -1.  Lower progress changes nothing but the  *)
(* display and is left out.                                                *)
Kind == {"full", "done", "failed"}

(* "remains" are rows that save_prices committed before it raised; the     *)
(* ticker counts as failed.                                                *)
Kept == {"nothing", "remains", "saved"}

Working == {"schema", "tickers", "server", "local", "refresh", "done", "failing", "release"}

TypeOK ==
    /\ lock \in Scan \cup {NoScan}
    /\ status \in {"idle", "running"}
    /\ pc \in [Scan -> {"new", "accepted", "answered", "never", "reset", "over"} \cup Working]
    /\ server \subseteq Scan /\ path \subseteq Scan
    /\ tried \in [Scan -> 0..Tickers] /\ kept \in [Scan -> Kept]
    /\ queue \in [Scan -> Seq(Kind)]
    /\ stream \in [Scan -> {"none", "waiting", "open", "closed"}]
    /\ told \in [Scan -> Kind \cup {"nothing"}]

Init ==
    /\ lock = NoScan
    /\ status = "idle"
    /\ pc = [s \in Scan |-> "new"]
    /\ server \in SUBSET Scan /\ path \in SUBSET Scan
    /\ tried = [s \in Scan |-> 0] /\ kept = [s \in Scan |-> "nothing"]
    /\ queue = [s \in Scan |-> <<>>]
    /\ stream = [s \in Scan |-> "none"]
    /\ told = [s \in Scan |-> "nothing"]

-----------------------------------------------------------------------------
(* The handler and the stream. *)

Goes(s, from, to) == pc[s] = from /\ pc' = [pc EXCEPT ![s] = to]

asked == <<server, path>>
work == <<tried, kept>>

(* start_scan gets the lock; it answers 409 while another scan has it.     *)
Accept(s) ==
    /\ Goes(s, "new", "accepted")
    /\ \A r \in Scan : r < s => pc[r] # "new"
    /\ lock = NoScan
    /\ lock' = s
    /\ UNCHANGED <<status, asked, work, queue, stream, told>>

Answer(s) ==
    /\ Goes(s, "accepted", "answered")
    /\ status' = "running"
    /\ stream' = [stream EXCEPT ![s] = "waiting"]
    /\ UNCHANGED <<lock, asked, work, queue, told>>

(* The server begins to send: event_generator starts the thread. *)
Begin(s) ==
    /\ Goes(s, "answered", "schema")
    /\ stream' = [stream EXCEPT ![s] = "open"]
    /\ UNCHANGED <<lock, status, asked, work, queue, told>>

(* 100 and -1 end the stream. *)
Deliver(s) ==
    /\ stream[s] = "open" /\ queue[s] # <<>>
    /\ told' = [told EXCEPT ![s] = Head(queue[s])]
    /\ queue' = [queue EXCEPT ![s] = Tail(@)]
    /\ stream' = [stream EXCEPT ![s] = "closed"]
    /\ UNCHANGED <<lock, status, pc, asked, work>>

(* The client goes away: the response is cancelled, and a generator that   *)
(* has not begun never does.                                               *)
Disconnect(s) ==
    /\ stream[s] \in {"waiting", "open"}
    /\ stream' = [stream EXCEPT ![s] = "closed"]
    /\ pc' = [pc EXCEPT ![s] = IF @ = "answered" THEN "never" ELSE @]
    /\ UNCHANGED <<lock, status, asked, work, queue, told>>

-----------------------------------------------------------------------------
(* The thread. *)

Emit(s, kind) == queue' = [queue EXCEPT ![s] = Append(@, kind)]

(* The percentage after n tickers or files. *)
Report(s, n) == IF n = Tickers THEN Emit(s, "full") ELSE UNCHANGED queue

outside == <<lock, status, asked, stream, told>>

Schema(s) ==
    /\ \/ s \in server /\ Goes(s, "schema", "tickers")
       \/ s \notin server /\ Goes(s, "schema", "local")
       \/ Goes(s, "schema", "failing")
    /\ UNCHANGED <<work, queue, outside>>

(* _load_scan_tickers: with no list of tickers, local files are read.      *)
LoadTickers(s) ==
    /\ \/ Goes(s, "tickers", "server")
       \/ Goes(s, "tickers", "local")
       \/ Goes(s, "tickers", "failing")
    /\ UNCHANGED <<work, queue, outside>>

(* save_prices appends and prunes in transactions of their own: it stores  *)
(* a ticker, or raises with its rows stored or without.                    *)
Save(s) ==
    \E k \in {kept[s], "saved", IF kept[s] = "saved" THEN "saved" ELSE "remains"} :
        kept' = [kept EXCEPT ![s] = k]

(* _scan_remote, one ticker: saved, failed, or empty, and then no progress *)
(* is reported.                                                            *)
Download(s) ==
    /\ pc[s] = "server" /\ tried[s] < Tickers
    /\ tried' = [tried EXCEPT ![s] = @ + 1]
    /\ \/ Save(s) /\ Report(s, tried'[s])
       \/ UNCHANGED <<kept, queue>>
    /\ UNCHANGED <<pc, outside>>

(* Mutant: a scan that got some of its prices is tried again from files.   *)
RetryLocally(s) ==
    /\ pc[s] = "server" /\ tried[s] = Tickers
    /\ IF s \in path
       THEN Goes(s, "server", "local") /\ tried' = [tried EXCEPT ![s] = 0] /\ UNCHANGED queue
       ELSE Goes(s, "server", "refresh") /\ Emit(s, "full") /\ UNCHANGED tried
    /\ UNCHANGED <<kept, outside>>

(* _run_server_scan: a scan without a single success tries local files.    *)
FinishServer(s) ==
    /\ pc[s] = "server" /\ tried[s] = Tickers
    /\ IF kept[s] # "saved" /\ s \in path
       THEN Goes(s, "server", "local") /\ tried' = [tried EXCEPT ![s] = 0] /\ UNCHANGED queue
       ELSE Goes(s, "server", "refresh") /\ Emit(s, "full") /\ UNCHANGED tried
    /\ UNCHANGED <<kept, outside>>

(* The use case raises before its first ticker: the database or the        *)
(* connection is not there.                                                *)
ServerRaises(s) ==
    /\ pc[s] = "server" /\ tried[s] = 0
    /\ IF s \in path
       THEN Goes(s, "server", "local") /\ UNCHANGED queue
       ELSE Goes(s, "server", "refresh") /\ Emit(s, "failed")
    /\ UNCHANGED <<work, outside>>

(* _run_local_scan. *)
SkipLocal(s) ==
    /\ s \notin path
    /\ Goes(s, "local", "refresh")
    /\ UNCHANGED <<work, queue, outside>>

(* One file, saved or not; not every file is reported. *)
ReadFile(s) ==
    /\ s \in path /\ pc[s] = "local" /\ tried[s] < Tickers
    /\ tried' = [tried EXCEPT ![s] = @ + 1]
    /\ Save(s)
    /\ Report(s, tried'[s])
    /\ UNCHANGED <<pc, outside>>

(* There may be fewer files than tickers. *)
FinishLocal(s) ==
    /\ s \in path
    /\ Goes(s, "local", "refresh")
    /\ Emit(s, "full")
    /\ UNCHANGED <<work, outside>>

(* The files cannot be listed. *)
LocalRaises(s) ==
    /\ s \in path /\ tried[s] = 0
    /\ Goes(s, "local", "refresh")
    /\ Emit(s, "failed")
    /\ UNCHANGED <<work, outside>>

(* refresh_views; a failure is logged. *)
Refresh(s) ==
    /\ Goes(s, "refresh", "done")
    /\ UNCHANGED <<work, queue, outside>>

Finish(s) ==
    /\ \/ Goes(s, "done", "release") /\ Emit(s, "done")
       \/ Goes(s, "failing", "release") /\ Emit(s, "failed")
    /\ UNCHANGED <<work, outside>>

(* Mutant: the lock is given back by the stream, when it has ended. *)
ReleaseIfHeard(s) ==
    /\ stream[s] = "closed" /\ told[s] # "nothing"
    /\ Goes(s, "release", "reset")
    /\ lock' = NoScan
    /\ UNCHANGED <<status, asked, work, queue, stream, told>>

(* The finally of run_scan gives the lock back first ... *)
Release(s) ==
    /\ Goes(s, "release", "reset")
    /\ lock' = NoScan
    /\ UNCHANGED <<status, asked, work, queue, stream, told>>

(* ... and then resets the status, whoever has the lock now. *)
Reset(s) ==
    /\ Goes(s, "reset", "over")
    /\ status' = "idle"
    /\ UNCHANGED <<lock, asked, work, queue, stream, told>>

Thread(s) ==
    \/ Schema(s) \/ LoadTickers(s) \/ Download(s) \/ FinishServer(s) \/ ServerRaises(s)
    \/ SkipLocal(s) \/ ReadFile(s) \/ FinishLocal(s) \/ LocalRaises(s)
    \/ Refresh(s) \/ Finish(s) \/ Release(s) \/ Reset(s)

Next == \E s \in Scan :
    Accept(s) \/ Answer(s) \/ Begin(s) \/ Deliver(s) \/ Disconnect(s) \/ Thread(s)

Spec == Init /\ [][Next]_vars

(* The event loop serves its responses, a thread goes on (downloads and    *)
(* retries are bounded by timeouts).  Clients may stay or go.              *)
FairSpec ==
    /\ Spec
    /\ \A s \in Scan : WF_vars(Answer(s) \/ Begin(s)) /\ WF_vars(Deliver(s)) /\ WF_vars(Thread(s))

-----------------------------------------------------------------------------
(* Properties. *)

(* Two scans never write the prices of one market at once: a thread has    *)
(* the lock from its first to its last write, whether anybody listens or   *)
(* not.                                                                    *)
SingleWriter == \A s \in Scan : pc[s] \in Working => lock = s

(* The status says running only for a scan that was accepted and has not   *)
(* reset it.                                                               *)
RunningIsNoLie ==
    status = "running" =>
        \E s \in Scan : pc[s] \in {"answered", "never", "reset"} \cup Working

(* A client that is told of a failure can start again: no ticker was saved *)
(* under that scan.  Rows may be there of saves that failed while they     *)
(* were pruned, but only if the scan downloaded them and was then tried    *)
(* again from files.                                                       *)
FailureMeansNothingSaved ==
    \A s \in Scan : told[s] = "failed" =>
        kept[s] = "nothing" \/ (kept[s] = "remains" /\ s \in server \cap path)

(* One scan writes at a time, and what the server says of scans is so.     *)
ScanIsSound == SingleWriter /\ RunningIsNoLie /\ FailureMeansNothingSaved

(* A scan that began gives the market back, also when its client left.     *)
BegunMeansReleased == \A s \in Scan : pc[s] = "schema" ~> pc[s] = "over"

(* A client that is told 100 is told of the end of the scan. *)
CompleteMeansDone ==
    \A s \in Scan : told[s] \in {"full", "done"} => pc[s] \in {"release", "reset", "over"}

(* The lock of a market is given back. *)
LockComesBack == \A s \in Scan : lock = s ~> lock # s
=============================================================================
