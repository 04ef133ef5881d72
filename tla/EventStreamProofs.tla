------------------------- MODULE EventStreamProofs --------------------------
(***************************************************************************)
(* What the client of a stream is given, for a run with any number of      *)
(* events and any number of connections that break.                        *)
(***************************************************************************)
EXTENDS EventStream, SequenceTheorems, TLAPS

(* What is on the wire goes on where the received events end, and the      *)
(* server goes on where the wire ends.                                     *)
InStep ==
    /\ received = Seq0(Len(received))
    /\ wire = [i \in 1..Len(wire) |-> Len(received) + i]
    /\ client # "reading" => wire = <<>> /\ server.pc \in {"none", "ended"}
    /\ client = "reading" => server.last = Len(received) + Len(wire)
    /\ client = "done" => server.last = Len(received) /\ server.pc = "ended"
    /\ client = "reading" \/ client = "done" => server.last <= server.upto
    /\ server.pc = "check" => server.last >= 1

(* What the server has seen when it ends.                                  *)
Complete ==
    server.pc = "ended" =>
        \/ status = "FAILED"
        \/ server.atStart /\ server.last >= server.max
        \/ ~server.atStart /\ server.last >= 1 /\ events[server.last] \in CloseEvent

Pc == {"none", "probe", "poll", "check", "ended"}
Server == [pc : Pc, atStart : BOOLEAN, max : Nat, last : Nat, upto : Nat]

Types ==
    /\ status \in Status /\ events \in Seq(Kind)
    /\ server \in Server
    /\ server.max <= Len(events) /\ server.last <= Len(events) /\ server.upto <= Len(events)
    /\ wire \in Seq(Nat) /\ received \in Seq(Nat)
    /\ Len(received) <= Len(events)
    /\ client \in {"none", "reading", "cut", "done", "raised"}
    /\ attempts \in 0..MaxReconnects /\ cuts \in 0..MaxCuts

Inv == Types /\ InStep /\ Complete

-----------------------------------------------------------------------------
(* The lengths of the log, the wire and the received events are numbers. *)
LEMMA Lengths ==
  ASSUME Types
  PROVE  Len(events) \in Nat /\ Len(wire) \in Nat /\ Len(received) \in Nat
  BY LenProperties DEF Types

(* Short words over the kinds of events are sequences. *)
LEMMA Words ==
  /\ <<>> \in Seq(Kind)
  /\ \A x \in Kind : <<x>> \in Seq(Kind) /\ <<x, x>> \in Seq(Kind)
  OBVIOUS

(* The invariant holds before the stream is opened. *)
LEMMA InvInit == StreamInit => Inv
  <1> SUFFICES ASSUME StreamInit PROVE Inv
    OBVIOUS
  <1>1. events \in Seq(Kind) /\ Len(events) \in Nat /\ status \in Status
    <2>1. "step" \in Kind /\ "ACTIVE" \in Status
      BY DEF Kind, Status
    <2>2. events \in Seq(Kind)
      BY <2>1, Words DEF StreamInit, Init
    <2> QED BY <2>1, <2>2, LenProperties DEF StreamInit, Init
  <1>2. Types
    BY <1>1, EventStreamAssumption DEF StreamInit, Idle, Types, Server, Pc
  <1>3. InStep /\ Complete
    BY DEF StreamInit, Idle, InStep, Complete, Seq0
  <1> QED BY <1>2, <1>3 DEF Inv

(* The writer only adds to the log, and a failed run stays failed.         *)
LEMMA WriteStep ==
  ASSUME Inv, Write
  PROVE  Inv'
  <1>1. PICK new \in Seq(Kind) : events' = events \o new
    <2>1. \A x \in {"step", "approval_requested", "artifact_created", "error", "run_cancelled"} : x \in Kind
      BY DEF Kind
    <2> QED BY <2>1, Words DEF Write, Next, Work, Pause, Proceed, Deny, Ends, Commit
  <1>2. /\ events' \in Seq(Kind) /\ Len(events') \in Nat /\ Len(events') >= Len(events)
        /\ Len(events) \in Nat /\ \A i \in 1..Len(events) : events'[i] = events[i]
    BY <1>1, ConcatProperties, LenProperties DEF Inv, Types
  <1>3. status' \in Status /\ (status = "FAILED" => status' = "FAILED")
    BY DEF Write, Next, Work, Pause, Proceed, Deny, Ends, Commit, Status, Terminal
  <1>4. UNCHANGED <<server, wire, received, client, attempts, cuts>>
    BY DEF Write
  <1>5. Types'
    BY <1>2, <1>3, <1>4, Lengths DEF Inv, Types, Server
  <1>6. InStep'
    BY <1>4 DEF Inv, InStep
  <1>7. Complete'
    <2>1. server.last \in 0..Len(events)
      BY <1>2 DEF Inv, Types, Server
    <2>2. server.pc = "ended" /\ server.last >= 1 => events'[server.last] = events[server.last]
      BY <1>2, <2>1
    <2> QED BY <1>3, <1>4, <2>2 DEF Inv, Complete
  <1> QED BY <1>5, <1>6, <1>7 DEF Inv

(* Steps of the server that send nothing.                                  *)
LEMMA ServerMoves ==
  ASSUME Inv, client = "reading", UNCHANGED <<log, wire, received, client, attempts, cuts>>,
         server' \in Server, server'.last = server.last, server'.max <= Len(events),
         server'.upto <= Len(events), server'.last <= server'.upto, server'.pc \in {"poll", "ended"},
         server'.pc = "ended" =>
            \/ status = "FAILED"
            \/ server'.atStart /\ server'.last >= server'.max
            \/ ~server'.atStart /\ server'.last >= 1 /\ events[server'.last] \in CloseEvent
  PROVE  Inv'
  <1>1. Types'
    BY DEF Inv, Types, log
  <1>2. InStep'
    BY DEF Inv, InStep
  <1>3. Complete'
    BY DEF Complete, log
  <1> QED BY <1>1, <1>2, <1>3 DEF Inv

(* The steps of the server keep the invariant. *)
LEMMA ServeStep ==
  ASSUME Inv, Serve
  PROVE  Inv'
  <1>1. UNCHANGED <<log, received, client, attempts, cuts>> /\ client = "reading"
    BY DEF Serve, Probe, Fetch, Yield, Check, Inv, InStep
  <1>2. Len(events) \in Nat /\ Len(wire) \in Nat /\ Len(received) \in Nat
    BY Lengths DEF Inv
  <1>3. /\ server \in Server /\ server.max \in Nat /\ server.last \in Nat /\ server.upto \in Nat
        /\ server.max <= Len(events) /\ server.last <= Len(events) /\ server.upto <= Len(events)
        /\ server.last <= server.upto /\ (server.pc = "check" => server.last >= 1)
    BY <1>1 DEF Inv, Types, Server, InStep
  <1>4. CASE Probe
    <2>1. PICK l \in {"poll", "ended"} :
             /\ server' = [server EXCEPT !.max = Len(events), !.pc = l]
             /\ l = "ended" => server.atStart /\ Len(events) <= server.last
      BY <1>4 DEF Probe
    <2>2. /\ server' \in Server /\ server'.last = server.last /\ server'.max = Len(events)
          /\ server'.upto = server.upto /\ server'.pc = l /\ server'.atStart = server.atStart
      BY <1>2, <1>3, <2>1 DEF Server, Pc
    <2>3. UNCHANGED wire
      BY <1>4 DEF Probe
    <2> QED BY <1>1, <1>2, <1>3, <2>1, <2>2, <2>3, ServerMoves
  <1>5. CASE Fetch
    <2>1. server' = [server EXCEPT !.upto = Len(events)] /\ server.pc = "poll"
      BY <1>5 DEF Fetch
    <2>2. /\ server' \in Server /\ server'.last = server.last /\ server'.max = server.max
          /\ server'.upto = Len(events) /\ server'.pc = "poll"
      BY <1>2, <1>3, <2>1 DEF Server, Pc
    <2>3. UNCHANGED wire
      BY <1>5 DEF Fetch
    <2> QED BY <1>1, <1>2, <1>3, <2>2, <2>3, ServerMoves
  <1>6. CASE Check
    <2>1. PICK l \in {"poll", "ended"} : /\ server' = [server EXCEPT !.pc = l]
                                         /\ l = "ended" => EndsAfter(server.last)
      BY <1>6 DEF Check
    <2>2. /\ server' \in Server /\ server'.last = server.last /\ server'.max = server.max
          /\ server'.upto = server.upto /\ server'.pc = l /\ server'.atStart = server.atStart
      BY <1>3, <2>1 DEF Server, Pc
    <2>3. UNCHANGED wire /\ server.last >= 1
      BY <1>3, <1>6 DEF Check
    <2>4. l = "ended" =>
             \/ status = "FAILED"
             \/ server'.atStart /\ server'.last >= server'.max
             \/ ~server'.atStart /\ server'.last >= 1 /\ events[server'.last] \in CloseEvent
      BY <2>1, <2>2, <2>3 DEF EndsAfter
    <2> QED BY <1>1, <1>3, <2>2, <2>3, <2>4, ServerMoves
  <1>7. CASE Yield
    <2> DEFINE n == server.last + 1
    <2>1. n \in 1..Len(events) /\ wire' = Append(wire, n) /\ n = Len(received) + Len(wire) + 1
      BY <1>1, <1>2, <1>3, <1>7 DEF Yield, Inv, InStep
    <2>2. server' = [server EXCEPT !.last = n, !.pc = "check"]
      BY <1>7 DEF Yield
    <2>3. wire' \in Seq(Nat) /\ Len(wire') = Len(wire) + 1
          /\ \A i \in 1..Len(wire') : wire'[i] = IF i <= Len(wire) THEN wire[i] ELSE n
      BY <1>2, <2>1 DEF Inv, Types
    <2>4. Types'
      <3>1. /\ server' \in Server
            /\ server'.last = n /\ server'.max = server.max /\ server'.upto = server.upto
        <4>1. n \in Nat
          BY <1>3
        <4> HIDE DEF n
        <4> QED BY <1>3, <2>2, <4>1 DEF Server, Pc
      <3> QED BY <1>1, <1>2, <2>1, <2>3, <3>1 DEF Inv, Types, log
    <2>5. wire' = [i \in 1..Len(wire') |-> Len(received') + i]
      <3>1. \A i \in 1..Len(wire') : wire'[i] = Len(received') + i
        <4>1. \A i \in 1..Len(wire) : wire[i] = Len(received) + i
          BY DEF Inv, InStep
        <4>2. \A i \in 1..Len(wire') : i \in 1..Len(wire) \/ i = Len(wire) + 1
          BY <1>2, <2>3
        <4>3. Len(received') = Len(received)
          BY <1>1
        <4>4. \A i \in 1..Len(wire) : wire'[i] = wire[i]
          BY <1>2, <2>3
        <4>5. wire'[Len(wire) + 1] = Len(received) + (Len(wire) + 1)
          BY <1>2, <2>1, <2>3
        <4> QED BY <4>1, <4>2, <4>3, <4>4, <4>5
      <3>2. wire' \in [1..Len(wire') -> Nat]
        BY <2>3
      <3> QED BY <3>1, <3>2
    <2>6. server'.last = Len(received') + Len(wire')
      <3>1. server'.last = n
        BY <1>3, <2>2 DEF Server
      <3> QED BY <1>1, <1>2, <2>1, <2>3, <3>1
    <2>7. server'.last <= server'.upto /\ server'.last >= 1
      BY <1>3, <1>7, <2>2 DEF Yield, Server
    <2>8. InStep'
      BY <1>1, <2>5, <2>6, <2>7 DEF Inv, InStep
    <2>9. Complete'
      BY <2>2 DEF Inv, Types, Complete
    <2> QED BY <2>4, <2>8, <2>9 DEF Inv
  <1> QED BY <1>4, <1>5, <1>6, <1>7 DEF Serve

(* A connection starts where the received events end.                      *)
LEMMA OpenStep ==
  ASSUME Inv, Open, client # "reading", client # "done", client' = "reading",
         attempts' \in 0..MaxReconnects, UNCHANGED <<log, wire, received, cuts>>
  PROVE  Inv'
  <1>1. Len(events) \in Nat /\ Len(received) \in Nat /\ wire = <<>>
    BY Lengths DEF Inv, InStep
  <1>2. LastEventId = Len(received)
    BY <1>1 DEF LastEventId, Inv, Types, InStep, Seq0
  <1>3. Types'
    <2>1. /\ server' \in Server
          /\ server'.max = 0 /\ server'.last = Len(received) /\ server'.upto = Len(received)
      <3>1. PICK b \in BOOLEAN : b <=> status \in Close
        OBVIOUS
      <3>2. server' = [pc |-> "probe", atStart |-> b, max |-> 0, last |-> Len(received),
                       upto |-> Len(received)]
        BY <1>2, <3>1 DEF Open, Idle
      <3> QED BY <1>1, <3>2 DEF Server, Pc
    <2> QED BY <1>1, <2>1 DEF Inv, Types, log
  <1>4. InStep' /\ Complete'
    BY <1>1, <1>2 DEF Open, Idle, Inv, InStep, Complete
  <1> QED BY <1>3, <1>4 DEF Inv

(* An event that arrives keeps the invariant. *)
LEMMA ReceiveStep ==
  ASSUME Inv, Receive
  PROVE  Inv'
  <1>1. /\ UNCHANGED <<log, server, client, cuts>> /\ attempts' = 0 /\ client = "reading"
        /\ received' = Append(received, Head(wire)) /\ wire' = Tail(wire) /\ wire # <<>>
    BY DEF Receive
  <1>2. Len(events) \in Nat /\ Len(wire) \in Nat /\ Len(received) \in Nat /\ Len(wire) >= 1
    BY <1>1, Lengths, EmptySeq DEF Inv, Types
  <1>3. Head(wire) = Len(received) + 1
    BY <1>1, <1>2 DEF Inv, InStep
  <1>4. /\ wire' \in Seq(Nat) /\ Len(wire') = Len(wire) - 1
        /\ \A i \in 1..Len(wire') : wire'[i] = wire[i + 1]
    BY <1>1, <1>2, HeadTailProperties DEF Inv, Types
  <1>5. /\ received' \in Seq(Nat) /\ Len(received') = Len(received) + 1
        /\ \A i \in 1..Len(received') : received'[i] = IF i <= Len(received) THEN received[i]
                                                       ELSE Len(received) + 1
    BY <1>1, <1>2, <1>3 DEF Inv, Types
  <1>6. Types'
    <2>1. Len(received) + 1 <= Len(events)
      BY <1>1, <1>2 DEF Inv, Types, InStep
    <2> QED BY <1>1, <1>2, <1>4, <1>5, <2>1, EventStreamAssumption DEF Inv, Types, log
  <1>7. received' = Seq0(Len(received'))
    <2>1. \A i \in 1..Len(received') : received'[i] = i
      <3>1. \A i \in 1..Len(received) : received[i] = i
        BY DEF Inv, InStep, Seq0
      <3>2. \A i \in 1..Len(received') : i \in 1..Len(received) \/ i = Len(received) + 1
        BY <1>2, <1>5
      <3> QED BY <1>2, <1>5, <3>1, <3>2
    <2>2. received' \in [1..Len(received') -> Nat]
      BY <1>5
    <2> QED BY <2>1, <2>2 DEF Seq0
  <1>8. wire' = [i \in 1..Len(wire') |-> Len(received') + i]
    <2>1. \A i \in 1..Len(wire') : wire'[i] = Len(received') + i
      <3>1. \A i \in 1..Len(wire) : wire[i] = Len(received) + i
        BY DEF Inv, InStep
      <3>2. \A i \in 1..Len(wire') : i + 1 \in 1..Len(wire)
        BY <1>2, <1>4
      <3> QED BY <1>2, <1>4, <1>5, <3>1, <3>2
    <2>2. wire' \in [1..Len(wire') -> Nat]
      BY <1>4
    <2> QED BY <2>1, <2>2
  <1>9. InStep'
    <2>1. server'.last = Len(received') + Len(wire')
      BY <1>1, <1>2, <1>4, <1>5 DEF Inv, InStep
    <2> QED BY <1>1, <1>7, <1>8, <2>1 DEF Inv, InStep
  <1>10. Complete'
    BY <1>1 DEF Inv, Complete, log
  <1> QED BY <1>6, <1>9, <1>10 DEF Inv

(* Connections that begin, end or break keep the invariant. *)
LEMMA ClientStep ==
  ASSUME Inv, Connect \/ Finish \/ Cut \/ Retry
  PROVE  Inv'
  <1>1. Len(events) \in Nat /\ Len(received) \in Nat /\ Len(wire) \in Nat
    BY Lengths DEF Inv
  <1>2. CASE Connect
    BY <1>2, OpenStep DEF Connect, Inv, Types
  <1>3. CASE Finish
    BY <1>1, <1>3 DEF Finish, Inv, Types, InStep, Complete, log
  <1>4. CASE Cut
    <2>1. Types'
      BY <1>1, <1>4, EventStreamAssumption DEF Cut, Idle, Inv, Types, log, Server, Pc
    <2>2. InStep' /\ Complete'
      BY <1>1, <1>4 DEF Cut, Idle, Inv, InStep, Complete
    <2> QED BY <2>1, <2>2 DEF Inv
  <1>5. CASE Retry
    <2>1. CASE attempts < MaxReconnects /\ attempts' = attempts + 1 /\ client' = "reading" /\ Open
      <3>1. attempts' \in 0..MaxReconnects
        BY <2>1, EventStreamAssumption DEF Inv, Types
      <3> QED BY <1>5, <2>1, <3>1, OpenStep DEF Retry
    <2>2. CASE client' = "raised" /\ UNCHANGED <<server, attempts>>
      BY <1>5, <2>2 DEF Retry, Inv, Types, InStep, Complete, log
    <2> QED BY <1>5, <2>1, <2>2 DEF Retry
  <1> QED BY <1>2, <1>3, <1>4, <1>5

(* The invariant holds over all connections. *)
LEMMA Invariant == StreamSpec => []Inv
  <1>1. ASSUME Inv, [StreamNext]_vars PROVE Inv'
    <2>1. CASE UNCHANGED vars
      BY <1>1, <2>1 DEF vars, log, Inv, Types, InStep, Complete
    <2> QED BY <1>1, <2>1, WriteStep, ServeStep, ReceiveStep, ClientStep DEF StreamNext, Read
  <1> QED BY InvInit, <1>1, PTL DEF StreamSpec

-----------------------------------------------------------------------------
(* The theorems. *)

(* The variables have their types.                                         *)
THEOREM TypeCorrect == StreamSpec => []TypeOK
  <1>1. Inv => TypeOK
    BY DEF Inv, Types, TypeOK, Server, Pc
  <1> QED BY Invariant, <1>1, PTL

(* No event is lost or repeated for a client that reconnects, however      *)
(* often and wherever its connections break.                               *)
THEOREM EveryEventOnce == StreamSpec => []NoGapNoRepeat
  <1>1. Inv => NoGapNoRepeat
    BY DEF Inv, InStep, NoGapNoRepeat
  <1> QED BY Invariant, <1>1, PTL

(* A stream of a run that did not fail ends where the handler says.        *)
THEOREM StreamsEndComplete == StreamSpec => []EndsComplete
  <1>1. ASSUME Inv PROVE EndsComplete
    <2> SUFFICES ASSUME client = "done" PROVE EndsComplete
      BY DEF EndsComplete
    <2>1. server.pc = "ended" /\ server.last = Len(received) /\ Len(received) \in Nat
      BY <1>1, Lengths DEF Inv, InStep
    <2>2. Len(received) >= 1 => received # <<>> /\ LastEventId = Len(received)
      BY <1>1, <2>1 DEF LastEventId, Inv, Types, InStep, Seq0
    <2> QED BY <1>1, <2>1, <2>2 DEF Inv, Complete, EndsComplete
  <1> QED BY Invariant, <1>1, PTL
=============================================================================
