---------------------------- MODULE EventStream ----------------------------
(***************************************************************************)
(* GET /v1/runs/{id}/stream: RunStreamHandler (streaming.py) over the      *)
(* polling SQLiteEventSubscriber, and the client of the Python SDK that    *)
(* reconnects with Last-Event-ID (doge_sdk/run.py), while the run goes on. *)
(*                                                                         *)
(* Every read is a transaction of its own, and the server is suspended     *)
(* whenever an event is on its way out: the writer gets in between.        *)
(***************************************************************************)
EXTENDS RunLog

CONSTANTS
    MaxEvents,      \* bound: events of the run
    MaxReconnects,  \* max_reconnects
    MaxCuts         \* bound: connections that break

ASSUME EventStreamAssumption ==
    MaxEvents \in Nat /\ MaxReconnects \in Nat /\ MaxCuts \in Nat

VARIABLES
    server,    \* the generator of the current connection
    wire,      \* events sent and not yet received
    received,  \* events the client was given, over all connections
    client, attempts, cuts

vars == <<log, server, wire, received, client, attempts, cuts>>

Seq0(n) == [i \in 1..n |-> i]
Close == Terminal \cup {"AWAITING_APPROVAL"}
CloseEvent == Kind \ {"step"}

Idle == [pc |-> "none", atStart |-> FALSE, max |-> 0, last |-> 0, upto |-> 0]

TypeOK ==
    /\ status \in Status /\ events \in Seq(Kind)
    /\ server.pc \in {"none", "probe", "poll", "check", "ended"}
    /\ server.atStart \in BOOLEAN
    /\ {server.max, server.last, server.upto} \subseteq 0..Len(events)
    /\ wire \in Seq(Nat) /\ received \in Seq(Nat)
    /\ client \in {"none", "reading", "cut", "done", "raised"}
    /\ attempts \in 0..MaxReconnects /\ cuts \in 0..MaxCuts

StreamInit ==
    /\ Init
    /\ server = Idle
    /\ wire = <<>> /\ received = <<>>
    /\ client = "none"
    /\ attempts = 0 /\ cuts = 0

LastEventId == IF received = <<>> THEN 0 ELSE received[Len(received)]

-----------------------------------------------------------------------------
(* The server. *)

(* Mutant: Last-Event-ID is not sent. *)
OpenAfresh ==
    server' = [Idle EXCEPT !.pc = "probe", !.atStart = status \in Close]

(* RunStreamHandler.open reads the run ... *)
Open ==
    server' = [Idle EXCEPT !.pc = "probe", !.atStart = status \in Close,
                           !.last = LastEventId, !.upto = LastEventId]

(* ... and then the last sequence number; a run that was over and has      *)
(* nothing new ends the stream at once.                                    *)
Probe ==
    /\ server.pc = "probe"
    /\ server' = [server EXCEPT !.max = Len(events),
                                !.pc = IF server.atStart /\ Len(events) <= server.last
                                       THEN "ended" ELSE "poll"]
    /\ UNCHANGED <<log, wire, received, client, attempts, cuts>>

(* list_for_run(after_sequence = last_seen), when there is something. *)
Fetch ==
    /\ server.pc = "poll" /\ server.last = server.upto
    /\ server.upto < Len(events)
    /\ server' = [server EXCEPT !.upto = Len(events)]
    /\ UNCHANGED <<log, wire, received, client, attempts, cuts>>

(* The next event of the batch is sent. *)
Yield ==
    /\ server.pc = "poll" /\ server.last < server.upto
    /\ server' = [server EXCEPT !.last = @ + 1, !.pc = "check"]
    /\ wire' = Append(wire, server.last + 1)
    /\ UNCHANGED <<log, received, client, attempts, cuts>>

(* Mutant: a failed run is no special case. *)
EndsAfterClosingEvent(e) ==
    /\ status \in Close
    /\ \/ server.atStart /\ e >= server.max
       \/ ~server.atStart /\ events[e] \in CloseEvent

(* Mutant: the close status alone ends the stream. *)
EndsWithStatus(e) == status \in Close

(* The run is read again after the event e was sent. *)
EndsAfter(e) ==
    /\ status \in Close
    /\ \/ server.atStart /\ e >= server.max
       \/ status = "FAILED"
       \/ ~server.atStart /\ events[e] \in CloseEvent

Check ==
    /\ server.pc = "check"
    /\ server' = [server EXCEPT !.pc = IF EndsAfter(server.last) THEN "ended" ELSE "poll"]
    /\ UNCHANGED <<log, wire, received, client, attempts, cuts>>

-----------------------------------------------------------------------------
(* The client. *)

Connect ==
    /\ client = "none" /\ client' = "reading"
    /\ Open
    /\ UNCHANGED <<log, wire, received, attempts, cuts>>

Receive ==
    /\ client = "reading" /\ wire # <<>>
    /\ received' = Append(received, Head(wire))
    /\ wire' = Tail(wire)
    /\ attempts' = 0
    /\ UNCHANGED <<log, server, client, cuts>>

(* A clean end of the response is the end of the stream. *)
Finish ==
    /\ client = "reading" /\ wire = <<>> /\ server.pc = "ended"
    /\ client' = "done"
    /\ UNCHANGED <<log, server, wire, received, attempts, cuts>>

(* What is on the wire is lost, and the generator is closed. *)
Cut ==
    /\ client = "reading" /\ cuts < MaxCuts
    /\ client' = "cut" /\ cuts' = cuts + 1
    /\ wire' = <<>> /\ server' = Idle
    /\ UNCHANGED <<log, received, attempts>>

Retry ==
    /\ client = "cut"
    /\ \/ /\ attempts < MaxReconnects
          /\ attempts' = attempts + 1 /\ client' = "reading"
          /\ Open
       \/ /\ attempts = MaxReconnects
          /\ client' = "raised"
          /\ UNCHANGED <<server, attempts>>
    /\ UNCHANGED <<log, wire, received, cuts>>

Write ==
    /\ Next
    /\ Len(events') <= MaxEvents
    /\ UNCHANGED <<server, wire, received, client, attempts, cuts>>

Serve == Probe \/ Fetch \/ Yield \/ Check
Read == Receive \/ Finish \/ Retry

StreamNext == Write \/ Serve \/ Connect \/ Read \/ Cut

StreamSpec == StreamInit /\ [][StreamNext]_vars

(* The server polls and sends, the client reads and retries. *)
Fairness == WF_vars(Serve) /\ WF_vars(Read)

FairSpec == StreamSpec /\ Fairness

-----------------------------------------------------------------------------
(* Properties. *)

(* Over all connections the client is given every event once and in the    *)
(* order of the log, whatever was lost on the wire.                        *)
NoGapNoRepeat == received = Seq0(Len(received))

(* Unless the run failed: a stream that was opened on a finished or        *)
(* waiting run ends only after all that was there when it was opened, and  *)
(* a stream that follows a run ends with a closing event.                  *)
EndsComplete ==
    client = "done" =>
        \/ status = "FAILED"
        \/ /\ server.atStart
           /\ Len(received) >= server.max
        \/ /\ ~server.atStart /\ received # <<>>
           /\ events[LastEventId] \in CloseEvent

(* A stream does not outlive its run: when the run is over, the client     *)
(* comes to the end of the stream or gives up, however the run ended.      *)
StreamEnds == status \in Terminal /\ client # "none" ~> client \in {"done", "raised"}
=============================================================================
