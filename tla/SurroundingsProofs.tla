------------------------- MODULE SurroundingsProofs -------------------------
(***************************************************************************)
(* The six parts, for every value of the constants.  Each has an invariant *)
(* of its own; the properties that Surroundings names follow from it.      *)
(***************************************************************************)
EXTENDS Surroundings, FiniteSetTheorems, TLAPS

-----------------------------------------------------------------------------
(***************************************************************************)
(* Pages, windows, overlaps and reaches of any size: no letter is lost,    *)
(* offsets are exact, and windows advance where chunk_size leaves room.    *)
(***************************************************************************)

(* A window starts in the one before it, no further back than the overlap, *)
(* and the loop goes on only before the end of the page.                   *)
Windows ==
    /\ start <= end /\ end <= length
    /\ ~done => end - start <= Overlap /\ (end < length \/ length = 0)

PageInv == TypeOK /\ Windows /\ Covers /\ Citeable

-----------------------------------------------------------------------------
(* A window is not empty, and no longer than chunk_size. *)
LEMMA WindowBounds ==
    ASSUME TypeOK, NEW s \in Offset, NEW x \in Offset, s < length, WindowEnd(s, x)
    PROVE  s < x /\ x <= length /\ x - s <= Size
<1> USE ChunkingAssumption DEF Offset
<1> DEFINE e == Lesser(length, s + Size)
<1>1. e \in Nat /\ s < e /\ e <= length /\ e - s <= Size
    BY DEF TypeOK, Lesser
<1>2. CASE e < length
    <2>1. Split(s, e, x)
        BY <1>2 DEF WindowEnd
    <2> QED
        BY <1>1, <2>1 DEF Split, TypeOK
<1>3. CASE ~(e < length)
    <2>1. x = e
        BY <1>3 DEF WindowEnd
    <2> QED
        BY <1>1, <2>1 DEF TypeOK
<1> QED
    BY <1>2, <1>3

(* A window that is cut before the end of the page is cut within reach. *)
LEMMA WindowIsLong ==
    ASSUME TypeOK, NEW s \in Offset, NEW x \in Offset, s < length, WindowEnd(s, x)
    PROVE  x = length \/ x >= s + Size - Reach
<1> USE ChunkingAssumption DEF Offset
<1> DEFINE e == Lesser(length, s + Size)
<1>1. e = length \/ e = s + Size
    BY DEF TypeOK, Lesser
<1>2. e \in Nat /\ e <= length
    BY DEF TypeOK, Lesser
<1>3. CASE e < length
    <2>1. Split(s, e, x)
        BY <1>3 DEF WindowEnd
    <2>2. e - x <= Reach
        BY <1>2, <2>1 DEF Split
    <2> QED
        BY <1>1, <1>2, <1>3, <2>2 DEF TypeOK
<1>4. CASE ~(e < length)
    BY <1>2, <1>4 DEF WindowEnd, TypeOK
<1> QED
    BY <1>3, <1>4

(* The next window starts behind the start of this one and not behind its  *)
(* end, at most the overlap before it.                                     *)
LEMMA NextStartBounds ==
    ASSUME NEW s \in Nat, NEW x \in Nat, s < x
    PROVE  /\ NextStart(s, x) \in Nat
           /\ s < NextStart(s, x) /\ NextStart(s, x) <= x
           /\ x - NextStart(s, x) <= Overlap
<1>1. PICK back \in Nat : back <= Overlap /\ back = Lesser(Overlap, Size - 1)
    BY ChunkingAssumption DEF Lesser
<1>2. NextStart(s, x) = IF s + 1 > x - back THEN s + 1 ELSE x - back
    BY <1>1 DEF NextStart, Larger
<1>3. CASE s + 1 > x - back
    BY <1>1, <1>2, <1>3, ChunkingAssumption
<1>4. CASE ~(s + 1 > x - back)
    BY <1>1, <1>2, <1>4, ChunkingAssumption
<1> QED
    BY <1>3, <1>4

(* What appending does to a sequence. *)
LEMMA Appended ==
    ASSUME NEW T, NEW q \in Seq(T), NEW e \in T
    PROVE  /\ Append(q, e) \in Seq(T)
           /\ Len(q) \in Nat /\ Len(Append(q, e)) = Len(q) + 1
           /\ Append(q, e)[Len(q) + 1] = e
           /\ \A k \in 1..Len(q) : q[k] \in T /\ Append(q, e)[k] = q[k]
OBVIOUS

-----------------------------------------------------------------------------
(* The invariant holds before the first window. *)
LEMMA InitPageInv == Init => PageInv
<1> SUFFICES ASSUME Init PROVE PageInv
    OBVIOUS
<1> USE ChunkingAssumption DEF Init, Offset
<1>1. TypeOK
    <2>1. <<>> \in Seq([from : Offset, to : Offset])
        <3> DEFINE Spans == [from : Offset, to : Offset]
        <3> HIDE DEF Spans
        <3>1. <<>> \in Seq(Spans)
            OBVIOUS
        <3> QED
            BY <3>1 DEF Spans
    <2>2. start \in Offset /\ end \in Offset
        OBVIOUS
    <2> QED
        BY <2>1, <2>2 DEF TypeOK
<1>2. Windows
    BY DEF Windows
<1>3. Covers
    BY DEF Covers
<1>4. Citeable
    BY DEF Citeable
<1> QED
    BY <1>1, <1>2, <1>3, <1>4 DEF PageInv

(* What a step of the loop appends. *)
LEMMA KeepChunks ==
    ASSUME TypeOK, NEW x \in Offset, Keep(start, x)
    PROVE  \/ chunks' = chunks /\ \A i \in start..(x - 1) : IsWhite(i)
           \/ \E f \in Offset, t \in Offset :
                 Strip(start, x, f, t) /\ chunks' = Append(chunks, [from |-> f, to |-> t])
BY DEF Keep

(* What a sequence holds is of its type. *)
LEMMA SeqElement ==
    ASSUME NEW T, NEW q \in Seq(T), NEW k \in 1..Len(q)
    PROVE  q[k] \in T
OBVIOUS

(* What the loop has kept stays, and what it adds comes last. *)
LEMMA KeepGrows ==
    ASSUME TypeOK, NEW x \in Offset, Keep(start, x)
    PROVE  /\ chunks' \in Seq([from : Offset, to : Offset])
           /\ \A k \in 1..Len(chunks) : k \in 1..Len(chunks') /\ chunks'[k] = chunks[k]
           /\ \A k \in 1..Len(chunks') : k \in 1..Len(chunks) \/ k = Len(chunks) + 1
           /\ \A f \in Offset, t \in Offset : chunks' = Append(chunks, [from |-> f, to |-> t]) =>
                 /\ Len(chunks) + 1 \in 1..Len(chunks')
                 /\ chunks'[Len(chunks) + 1] = [from |-> f, to |-> t]
<1> DEFINE Spans == [from : Offset, to : Offset]
<1>1. chunks \in Seq(Spans) /\ Len(chunks) \in Nat
    BY DEF TypeOK
<1>2. \A f \in Offset, t \in Offset : [from |-> f, to |-> t] \in Spans
    OBVIOUS
<1> HIDE DEF Spans
<1>3. ASSUME NEW c \in Spans, chunks' = Append(chunks, c)
      PROVE  /\ chunks' \in Seq(Spans)
             /\ Len(chunks') = Len(chunks) + 1
             /\ chunks'[Len(chunks) + 1] = c
             /\ \A k \in 1..Len(chunks) : chunks'[k] = chunks[k]
    BY <1>1, <1>3, Appended
<1>4. CASE chunks' = chunks
    <2>1. \A c \in Spans : chunks' # Append(chunks, c)
        BY <1>1, <1>3, <1>4
    <2> QED
        BY <1>1, <1>2, <1>4, <2>1 DEF Spans
<1>5. CASE \E f \in Offset, t \in Offset : chunks' = Append(chunks, [from |-> f, to |-> t])
    BY <1>1, <1>2, <1>3, <1>5 DEF Spans
<1> QED
    BY <1>4, <1>5, KeepChunks

(* A turn of the loop keeps the invariant. *)
LEMMA CutPageInv ==
    ASSUME PageInv, Cut
    PROVE  PageInv'
<1> USE ChunkingAssumption
<1>0. TypeOK /\ Windows /\ Covers /\ Citeable
    BY DEF PageInv
<1>1. PICK x \in Offset :
          /\ WindowEnd(start, x)
          /\ Keep(start, x)
          /\ end' = x
          /\ \/ x >= length /\ done' = TRUE /\ start' = start
             \/ x < length /\ done' = FALSE /\ start' = NextStart(start, x)
    BY DEF Cut
<1>2. start \in Offset /\ start < length /\ length \in Nat /\ x \in Nat /\ start \in Nat /\ end \in Nat
    BY <1>0 DEF Cut, TypeOK, Offset
<1>3. start < x /\ x <= length /\ x - start <= Size
    BY <1>0, <1>1, <1>2, WindowBounds
<1>4. /\ NextStart(start, x) \in Nat
      /\ start < NextStart(start, x) /\ NextStart(start, x) <= x
      /\ x - NextStart(start, x) <= Overlap
    BY <1>2, <1>3, NextStartBounds
<1>5. length' = length /\ text' = text
    BY DEF Cut
<1>6. \/ chunks' = chunks /\ \A i \in start..(x - 1) : IsWhite(i)
      \/ \E f \in Offset, t \in Offset :
            Strip(start, x, f, t) /\ chunks' = Append(chunks, [from |-> f, to |-> t])
    BY <1>0, <1>1, KeepChunks
<1>k. /\ chunks' \in Seq([from : Offset, to : Offset])
      /\ \A k \in 1..Len(chunks) : k \in 1..Len(chunks') /\ chunks'[k] = chunks[k]
      /\ \A k \in 1..Len(chunks') : k \in 1..Len(chunks) \/ k = Len(chunks) + 1
      /\ \A f \in Offset, t \in Offset : chunks' = Append(chunks, [from |-> f, to |-> t]) =>
            /\ Len(chunks) + 1 \in 1..Len(chunks')
            /\ chunks'[Len(chunks) + 1] = [from |-> f, to |-> t]
    BY <1>0, <1>1, KeepGrows
<1>7. TypeOK'
    <2>1. chunks' \in Seq([from : Offset, to : Offset])
        BY <1>k
    <2>2. start' \in Offset /\ end' \in Offset
        BY <1>0, <1>1, <1>2, <1>3, <1>4 DEF TypeOK, Offset
    <2> QED
        BY <1>0, <1>1, <1>5, <2>1, <2>2 DEF TypeOK
<1>8. Windows'
    <2>1. ~done' => x < length
        BY <1>1, <1>2
    <2>2. CASE x >= length
        BY <1>0, <1>1, <1>2, <1>3, <1>5, <2>1, <2>2 DEF Windows
    <2>3. CASE ~(x >= length)
        BY <1>1, <1>2, <1>3, <1>4, <1>5, <2>1, <2>3 DEF Windows
    <2> QED
        BY <2>2, <2>3
<1>9. Covers'
    <2>1. done' => end' = length'
        BY <1>1, <1>2, <1>3, <1>5
    <2>2. ASSUME NEW p \in 0..(x - 1), ~IsWhite(p)
          PROVE  \E k \in 1..Len(chunks') : chunks'[k].from <= p /\ p < chunks'[k].to
        <3>1. CASE p < end
            <4>1. PICK k \in 1..Len(chunks) : chunks[k].from <= p /\ p < chunks[k].to
                BY <1>0, <1>2, <2>2, <3>1 DEF Covers
            <4>2. k \in 1..Len(chunks') /\ chunks'[k] = chunks[k]
                BY <1>k
            <4> QED
                BY <4>1, <4>2
        <3>2. CASE ~(p < end)
            <4>1. p \in start..(x - 1)
                BY <1>0, <1>2, <3>2 DEF Windows
            <4>2. PICK f \in Offset, t \in Offset :
                      Strip(start, x, f, t) /\ chunks' = Append(chunks, [from |-> f, to |-> t])
                BY <1>6, <2>2, <4>1
            <4>3. f <= p /\ p < t
                <5>1. ~(p \in start..(f - 1)) /\ ~(p \in t..(x - 1))
                    BY <2>2, <4>2 DEF Strip
                <5> QED
                    BY <1>2, <4>1, <5>1 DEF Offset
            <4>4. /\ Len(chunks) + 1 \in 1..Len(chunks')
                  /\ chunks'[Len(chunks) + 1] = [from |-> f, to |-> t]
                BY <1>k, <4>2
            <4> QED
                BY <4>3, <4>4
        <3> QED
            BY <3>1, <3>2
    <2> QED
        BY <1>1, <1>5, <2>1, <2>2 DEF Covers, IsWhite, Letters
<1>10. Citeable'
    <2> SUFFICES ASSUME NEW k \in 1..Len(chunks')
                 PROVE  /\ chunks'[k].from < chunks'[k].to /\ chunks'[k].to <= length
                        /\ chunks'[k].to - chunks'[k].from <= Size
                        /\ ~IsWhite(chunks'[k].from) /\ ~IsWhite(chunks'[k].to - 1)
        BY <1>1, <1>5 DEF Citeable, IsWhite
    <2>1. CASE k \in 1..Len(chunks) /\ chunks'[k] = chunks[k]
        <3>1. chunks[k].from \in Nat /\ chunks[k].to \in Nat
            <4>1. chunks \in Seq([from : Offset, to : Offset])
                BY <1>0 DEF TypeOK
            <4>2. chunks[k] \in [from : Offset, to : Offset]
                BY <2>1, <4>1, SeqElement
            <4> QED
                BY <4>2 DEF Offset
        <3>2. /\ chunks[k].from < chunks[k].to /\ chunks[k].to <= length
              /\ chunks[k].to - chunks[k].from <= Size
              /\ ~IsWhite(chunks[k].from) /\ ~IsWhite(chunks[k].to - 1)
            BY <1>0, <2>1 DEF Citeable
        <3> QED
            BY <1>2, <2>1, <3>1, <3>2 DEF Offset
    <2>2. CASE ~(k \in 1..Len(chunks) /\ chunks'[k] = chunks[k])
        <3>1. PICK f \in Offset, t \in Offset :
                  Strip(start, x, f, t) /\ chunks' = Append(chunks, [from |-> f, to |-> t])
            BY <1>0, <1>6, <2>2 DEF TypeOK
        <3>2. chunks'[k] = [from |-> f, to |-> t]
            BY <1>0, <2>2, <3>1 DEF TypeOK
        <3> QED
            BY <1>2, <1>3, <3>1, <3>2 DEF Strip, Offset
    <2> QED
        BY <2>1, <2>2
<1> QED
    BY <1>7, <1>8, <1>9, <1>10 DEF PageInv

(* So does every step. *)
LEMMA NextPageInv == PageInv /\ [Next]_vars => PageInv'
<1> SUFFICES ASSUME PageInv, [Next]_vars PROVE PageInv'
    OBVIOUS
<1>1. CASE Cut
    BY <1>1, CutPageInv
<1>2. CASE Blank
    <2>1. UNCHANGED <<length, text, start, end, chunks>> /\ done' = TRUE /\ ~Letters
        BY <1>2 DEF Blank
    <2>2. ~Letters'
        BY <2>1 DEF Letters, IsWhite
    <2> QED
        BY <2>1, <2>2 DEF PageInv, TypeOK, Windows, Covers, Citeable, IsWhite
<1>3. CASE UNCHANGED vars
    BY <1>3 DEF vars, PageInv, TypeOK, Windows, Covers, Citeable, IsWhite, Letters
<1> QED
    BY <1>1, <1>2, <1>3 DEF Next

(* The invariant of the loop of chunk_page holds for every page. *)
THEOREM Invariance == Spec => []PageInv
<1> QED
    BY InitPageInv, NextPageInv, PTL DEF Spec

-----------------------------------------------------------------------------
(* Every variable of the loop keeps its type: no offset leaves the page.   *)
THEOREM TypeCorrect == Spec => []TypeOK
<1>1. PageInv => TypeOK
    BY DEF PageInv
<1> QED
    BY <1>1, Invariance, PTL

(* chunk_page loses no letter of the page, whatever the sizes are. *)
THEOREM NothingLost == Spec => []Covers
<1>1. PageInv => Covers
    BY DEF PageInv
<1> QED
    BY <1>1, Invariance, PTL

(* The offsets that citations use are exact. *)
THEOREM OffsetsExact == Spec => []Citeable
<1>1. PageInv => Citeable
    BY DEF PageInv
<1> QED
    BY <1>1, Invariance, PTL

(* Where chunk_size leaves room for the overlap and the reach, every       *)
(* window ends behind the one before.                                      *)
THEOREM WindowsAdvance ==
    ASSUME Roomy
    PROVE  Spec => EndsAdvance
<1>1. ASSUME PageInv, Cut PROVE end' > end
    <2> USE ChunkingAssumption
    <2>1. PICK x \in Offset : WindowEnd(start, x) /\ end' = x
        BY <1>1 DEF Cut
    <2>2. TypeOK /\ Windows /\ start < length /\ ~done
        BY <1>1 DEF PageInv, Cut
    <2>3. start \in Nat /\ end \in Nat /\ length \in Nat /\ x \in Nat /\ start \in Offset
        BY <2>2 DEF TypeOK, Offset
    <2>4. x = length \/ x >= start + Size - Reach
        BY <2>1, <2>2, <2>3, WindowIsLong
    <2>5. end < length /\ end - start <= Overlap
        BY <2>2, <2>3 DEF Windows
    <2> QED
        BY <2>1, <2>3, <2>4, <2>5, Roomy DEF Roomy
<1>2. PageInv /\ [Next]_vars => [Cut => end' > end]_vars
    BY <1>1
<1> QED
    BY <1>2, Invariance, PTL DEF Spec, EndsAdvance

-----------------------------------------------------------------------------
(***************************************************************************)
(* The console: streams and intervals.                                     *)
(***************************************************************************)

(* usTimer is never set; a live interval is the one in cnTimer or lost;    *)
(* and the Chinese market's interval is there only while its switch is on. *)
Reached(live, handle) ==
    \A m \in C!Market : live[m] = lost[m] + IF handle = m THEN 1 ELSE 0

Handles ==
    /\ timer[US] = NoTimer
    /\ Reached(ticking, timer[CN])
    /\ timer[CN] = CN => enabled[CN]

ConsoleInv == C!TypeOK /\ C!StreamingIsShown /\ Handles

(* The console is loaded with the intervals of its switches. *)
LEMMA ConsoleInit == C!Init => ConsoleInv
<1> SUFFICES ASSUME C!Init PROVE ConsoleInv
    OBVIOUS
<1> USE SurroundingsAssumption DEF C!ScannerAssumption, SurroundingsAssumption, C!Market
<1>1. PICK on \in SUBSET AutoMarket :
          /\ enabled = [m \in C!Market |-> m \in on]
          /\ ticking = [m \in C!Market |-> IF m \in on THEN 1 ELSE 0]
          /\ timer = IF US \in on THEN [C!NoTimers EXCEPT ![C!TimerOf(US)] = US]
                     ELSE [C!NoTimers EXCEPT ![CN] = IF CN \in on THEN CN ELSE NoTimer]
          /\ lost = [m \in C!Market |-> IF m = CN /\ on = C!Market THEN 1 ELSE 0]
    BY DEF C!Init
<1>2. CN # US /\ CN # NoTimer /\ US # NoTimer /\ (on = C!Market <=> CN \in on /\ US \in on)
    OBVIOUS
<1>3. timer = [m \in C!Market |-> IF m # CN THEN NoTimer ELSE IF US \in on THEN US
                                 ELSE IF CN \in on THEN CN ELSE NoTimer]
    BY <1>1, <1>2 DEF C!NoTimers, C!TimerOf
<1>4. C!TypeOK
    <2>1. enabled \in [C!Market -> BOOLEAN]
        BY <1>1
    <2>2. ticking \in [C!Market -> 0..MaxTimers] /\ lost \in [C!Market -> 0..MaxTimers]
        BY <1>1
    <2>3. timer \in [C!Market -> C!Market \cup {NoTimer}]
        BY <1>3
    <2>4. /\ status \in [C!Market -> {"idle", "running", "error"}]
          /\ stream \in [C!Market -> {"none", "fetching", "reading", "stalled"}]
        BY DEF C!Init
    <2>5. isRunning \in BOOLEAN
        BY DEF C!Init
    <2>6. stalls \in 0..MaxStalls
        BY DEF C!Init
    <2> QED
        BY <2>1, <2>2, <2>3, <2>4, <2>5, <2>6 DEF C!TypeOK
<1>5. C!StreamingIsShown
    BY DEF C!Init, C!StreamingIsShown
<1>6. Handles
    <2>1. timer[US] = NoTimer /\ (timer[CN] = CN => enabled[CN])
        BY <1>1, <1>2, <1>3
    <2>2. ASSUME NEW m \in C!Market
          PROVE  ticking[m] = lost[m] + IF timer[CN] = m THEN 1 ELSE 0
        <3>1. timer[CN] = IF US \in on THEN US ELSE IF CN \in on THEN CN ELSE NoTimer
            BY <1>2, <1>3
        <3>2. ticking[m] = (IF m \in on THEN 1 ELSE 0)
            BY <1>1
        <3>3. lost[m] = (IF m = CN /\ CN \in on /\ US \in on THEN 1 ELSE 0)
            BY <1>1, <1>2
        <3>4. CASE m = CN
            BY <1>2, <3>1, <3>2, <3>3, <3>4
        <3>5. CASE m = US
            BY <1>2, <3>1, <3>2, <3>3, <3>5
        <3> QED
            BY <3>4, <3>5
    <2> QED
        BY <2>1, <2>2 DEF Handles, Reached
<1> QED
    BY <1>4, <1>5, <1>6 DEF ConsoleInv

(* What stopAutoScan leaves of the intervals and handles. *)
LEMMA Stopped ==
    ASSUME C!TypeOK, Handles, NEW m \in C!Market
    PROVE  /\ C!StopTicking(m) \in [C!Market -> 0..MaxTimers]
           /\ C!StopTimer(m) \in [C!Market -> C!Market \cup {NoTimer}]
           /\ C!StopTimer(m)[US] = NoTimer
           /\ m = CN => C!StopTimer(m)[CN] = NoTimer
           /\ m # CN => C!StopTimer(m)[CN] = timer[CN]
           /\ Reached(C!StopTicking(m), C!StopTimer(m)[CN])
<1> USE SurroundingsAssumption DEF C!ScannerAssumption, SurroundingsAssumption, C!Market
<1>0. /\ C!StopTimer(m) = [timer EXCEPT ![m] = NoTimer]
      /\ C!StopTimer(m) \in [C!Market -> C!Market \cup {NoTimer}]
      /\ C!StopTimer(m)[US] = NoTimer
      /\ m = CN => C!StopTimer(m)[CN] = NoTimer
      /\ m # CN => C!StopTimer(m)[CN] = timer[CN]
    BY DEF C!StopTimer, C!TypeOK, Handles
<1>1. CASE timer[m] = NoTimer
    <2>1. C!StopTicking(m) = ticking
        BY <1>1 DEF C!StopTicking
    <2>2. C!StopTimer(m)[CN] = timer[CN]
        BY <1>0, <1>1
    <2> QED
        BY <1>0, <2>1, <2>2 DEF Handles, C!TypeOK
<1>2. CASE timer[m] # NoTimer
    <2>1. PICK t \in C!Market : m = CN /\ timer[CN] = t /\ t # NoTimer
        BY <1>2 DEF Handles, C!TypeOK
    <2>2. C!StopTicking(m) = [ticking EXCEPT ![t] = IF @ = 0 THEN 0 ELSE @ - 1]
        BY <2>1 DEF C!StopTicking, C!Cut
    <2>3. \A z \in C!Market : /\ ticking[z] \in 0..MaxTimers /\ lost[z] \in 0..MaxTimers
                              /\ ticking[z] = lost[z] + IF t = z THEN 1 ELSE 0
        BY <2>1 DEF Handles, Reached, C!TypeOK
    <2>4. C!StopTicking(m) = [z \in C!Market |-> lost[z]]
        <3>1. \A z \in C!Market : (IF z = t THEN IF ticking[z] = 0 THEN 0 ELSE ticking[z] - 1
                                   ELSE ticking[z]) = lost[z]
            BY <2>3
        <3> QED
            BY <2>2, <3>1 DEF C!TypeOK
    <2>5. NoTimer \notin C!Market /\ C!StopTimer(m)[CN] = NoTimer
        BY <1>0, <2>1
    <2>6. C!StopTicking(m) \in [C!Market -> 0..MaxTimers]
        BY <2>3, <2>4
    <2>7. Reached(C!StopTicking(m), NoTimer)
        BY <2>3, <2>4, <2>5 DEF Reached
    <2> QED
        BY <1>0, <2>5, <2>6, <2>7
<1> QED
    BY <1>1, <1>2

(* A switch starts one interval, whose handle may overwrite another, or    *)
(* stops the one in the handle.                                            *)
LEMMA SwitchInv ==
    ASSUME ConsoleInv, NEW m \in C!Market, NEW on \in BOOLEAN, C!Switch(m, on)
    PROVE  ConsoleInv'
<1> USE SurroundingsAssumption DEF C!ScannerAssumption, SurroundingsAssumption, C!Market
<1> DEFINE live == C!StopTicking(m)
           handles == C!StopTimer(m)
<1>0. C!TypeOK /\ C!StreamingIsShown /\ Handles /\ CN # US /\ CN # NoTimer /\ US # NoTimer
    BY DEF ConsoleInv
<1>1. /\ live \in [C!Market -> 0..MaxTimers] /\ handles \in [C!Market -> C!Market \cup {NoTimer}]
      /\ handles[US] = NoTimer
      /\ m = CN => handles[CN] = NoTimer
      /\ m # CN => handles[CN] = timer[CN]
      /\ Reached(live, handles[CN])
    BY <1>0, Stopped
<1>2. enabled' = [enabled EXCEPT ![m] = on] /\ UNCHANGED <<status, stream, isRunning, stalls>>
    BY DEF C!Switch
<1>3. CASE on
    <2>1. /\ live[m] < MaxTimers
          /\ ticking' = [live EXCEPT ![m] = @ + 1] /\ timer' = [handles EXCEPT ![CN] = m]
          /\ lost' = IF handles[CN] = NoTimer THEN lost
                     ELSE [lost EXCEPT ![handles[CN]] = @ + 1]
        BY <1>3 DEF C!Switch, C!StartAutoScan, C!Keep, C!TimerOf
    <2> HIDE DEF live, handles
    <2>2. \A z \in C!Market : /\ live[z] \in 0..MaxTimers /\ lost[z] \in 0..MaxTimers
                              /\ live[z] = lost[z] + IF handles[CN] = z THEN 1 ELSE 0
        BY <1>0, <1>1 DEF Reached, C!TypeOK
    <2>3. \A z \in C!Market : lost'[z] = live[z]
        <3>1. CASE handles[CN] = NoTimer
            BY <2>1, <2>2, <3>1
        <3>2. CASE handles[CN] # NoTimer
            BY <1>0, <1>1, <2>1, <2>2, <3>2 DEF C!TypeOK
        <3> QED
            BY <3>1, <3>2
    <2>4. /\ \A z \in C!Market : ticking'[z] = live[z] + IF m = z THEN 1 ELSE 0
          /\ ticking' \in [C!Market -> 0..MaxTimers]
        BY <1>1, <2>1, <2>2
    <2>5. timer'[CN] = m /\ timer'[US] = NoTimer /\ timer' \in [C!Market -> C!Market \cup {NoTimer}]
        BY <1>0, <1>1, <2>1
    <2>6. lost' \in [C!Market -> 0..MaxTimers]
        <3>1. lost' \in [C!Market -> Int] /\ DOMAIN lost' = C!Market
            BY <1>0, <1>1, <2>1, <2>2 DEF C!TypeOK
        <3> QED
            BY <2>2, <2>3, <3>1
    <2>7. enabled' \in [C!Market -> BOOLEAN] /\ (m = CN => enabled'[CN])
        BY <1>0, <1>2, <1>3 DEF C!TypeOK
    <2>8. C!TypeOK'
        BY <1>0, <1>2, <2>4, <2>5, <2>6, <2>7 DEF C!TypeOK
    <2>9. Handles'
        BY <2>3, <2>4, <2>5, <2>7 DEF Handles, Reached
    <2>10. C!StreamingIsShown'
        BY <1>0, <1>2 DEF C!StreamingIsShown
    <2> QED
        BY <2>8, <2>9, <2>10 DEF ConsoleInv
<1>4. CASE ~on
    <2>1. ticking' = live /\ timer' = handles /\ lost' = lost
        BY <1>4 DEF C!Switch, C!StopAutoScan
    <2> HIDE DEF live, handles
    <2>2. enabled' \in [C!Market -> BOOLEAN] /\ (m # CN => enabled'[CN] = enabled[CN])
        BY <1>0, <1>2 DEF C!TypeOK
    <2>3. C!TypeOK'
        BY <1>0, <1>1, <1>2, <2>1, <2>2 DEF C!TypeOK
    <2>4. Handles'
        BY <1>0, <1>1, <2>1, <2>2 DEF Handles, Reached
    <2>5. C!StreamingIsShown'
        BY <1>0, <1>2 DEF C!StreamingIsShown
    <2> QED
        BY <2>3, <2>4, <2>5 DEF ConsoleInv
<1> QED
    BY <1>3, <1>4

(* An error, of whatever kind, ends the stream and what the handle holds.  *)
LEMMA SurfaceInv ==
    ASSUME ConsoleInv, NEW m \in C!Market, C!SurfaceError(m)
    PROVE  ConsoleInv'
<1> USE SurroundingsAssumption DEF C!ScannerAssumption, SurroundingsAssumption, C!Market
<1>0. C!TypeOK /\ C!StreamingIsShown /\ Handles /\ CN # US /\ CN # NoTimer
    BY DEF ConsoleInv
<1>1. /\ ticking' = C!StopTicking(m) /\ timer' = C!StopTimer(m) /\ lost' = lost
      /\ ticking' \in [C!Market -> 0..MaxTimers]
      /\ timer' \in [C!Market -> C!Market \cup {NoTimer}]
      /\ timer'[US] = NoTimer
      /\ m = CN => timer'[CN] = NoTimer
      /\ m # CN => timer'[CN] = timer[CN]
      /\ Reached(C!StopTicking(m), C!StopTimer(m)[CN])
    BY <1>0, Stopped DEF C!SurfaceError, C!StopAutoScan
<1>2. /\ status' = [status EXCEPT ![m] = "error"]
      /\ stream' = [stream EXCEPT ![m] = "none"]
      /\ isRunning' = FALSE /\ UNCHANGED <<enabled, stalls>>
    BY DEF C!SurfaceError
<1>3. C!TypeOK'
    <2>1. /\ status' \in [C!Market -> {"idle", "running", "error"}]
          /\ stream' \in [C!Market -> {"none", "fetching", "reading", "stalled"}]
        BY <1>0, <1>2 DEF C!TypeOK
    <2> QED
        BY <1>0, <1>1, <1>2, <2>1 DEF C!TypeOK
<1>4. C!StreamingIsShown'
    BY <1>0, <1>2 DEF C!StreamingIsShown, C!TypeOK
<1>5. Handles'
    BY <1>0, <1>1, <1>2 DEF Handles, Reached
<1> QED
    BY <1>3, <1>4, <1>5 DEF ConsoleInv

(* Scans and their streams leave the intervals alone. *)
LEMMA StreamInv ==
    ASSUME ConsoleInv, NEW m \in C!Market,
           C!Scan(m) \/ C!Respond(m) \/ C!Complete(m) \/ C!EndBare(m) \/ C!Stall(m) \/ C!Resume(m)
    PROVE  ConsoleInv'
<1> USE SurroundingsAssumption DEF C!ScannerAssumption, SurroundingsAssumption, C!Market
<1>0. C!TypeOK /\ C!StreamingIsShown /\ Handles
    BY DEF ConsoleInv
<1>1. UNCHANGED <<enabled, ticking, timer, lost>>
    BY DEF C!Scan, C!Respond, C!Complete, C!EndBare, C!Stall, C!Resume
<1>2. C!TypeOK'
    <2>1. /\ status' \in [C!Market -> {"idle", "running", "error"}]
          /\ stream' \in [C!Market -> {"none", "fetching", "reading", "stalled"}]
        BY <1>0 DEF C!TypeOK, C!Scan, C!Respond, C!Complete, C!EndBare, C!Stall, C!Resume
    <2>2. isRunning' \in BOOLEAN
        BY <1>0 DEF C!TypeOK, C!Scan, C!Respond, C!Complete, C!EndBare, C!Stall, C!Resume
    <2>3. stalls' \in 0..MaxStalls
        BY <1>0 DEF C!TypeOK, C!Scan, C!Respond, C!Complete, C!EndBare, C!Stall, C!Resume
    <2> QED
        BY <1>0, <1>1, <2>1, <2>2, <2>3 DEF C!TypeOK
<1>3. C!StreamingIsShown'
    BY <1>0 DEF C!TypeOK, C!StreamingIsShown,
                C!Scan, C!Respond, C!Complete, C!EndBare, C!Stall, C!Resume
<1>4. Handles'
    BY <1>0, <1>1 DEF Handles, Reached
<1> QED
    BY <1>2, <1>3, <1>4 DEF ConsoleInv

(* Every step of the console keeps its invariant. *)
LEMMA ConsoleNext == ConsoleInv /\ [C!Next]_C!vars => ConsoleInv'
<1> SUFFICES ASSUME ConsoleInv, [C!Next]_C!vars PROVE ConsoleInv'
    OBVIOUS
<1>1. CASE C!Next
    <2> PICK m \in C!Market :
            \/ C!Scan(m) \/ C!Tick(m) \/ C!Respond(m) \/ C!Fail(m) \/ C!Complete(m)
            \/ C!EndBare(m) \/ C!Stall(m) \/ C!Resume(m) \/ C!Watchdog(m)
            \/ m \in AutoMarket /\ \E on \in BOOLEAN : C!Switch(m, on)
        BY <1>1 DEF C!Next
    <2>1. CASE C!Scan(m) \/ C!Respond(m) \/ C!Complete(m) \/ C!EndBare(m) \/ C!Stall(m) \/ C!Resume(m)
        BY <2>1, StreamInv
    <2>2. CASE C!Tick(m)
        BY <2>2, StreamInv DEF C!Tick
    <2>3. CASE C!Fail(m) \/ C!Watchdog(m)
        BY <2>3, SurfaceInv DEF C!Fail, C!Watchdog
    <2>4. CASE m \in AutoMarket /\ \E on \in BOOLEAN : C!Switch(m, on)
        BY <2>4, SwitchInv
    <2> QED
        BY <2>1, <2>2, <2>3, <2>4
<1>2. CASE UNCHANGED C!vars
    BY <1>2 DEF C!vars, ConsoleInv, C!TypeOK, C!StreamingIsShown, Handles, Reached
<1> QED
    BY <1>1, <1>2

(* A market has one stream at most, and an interval that no handle can     *)
(* stop was left by a start of the American auto-scan; until it took one   *)
(* from the Chinese market, that one's switch is obeyed: whichever markets *)
(* are switched, in any order, for any number of intervals and silences.   *)
THEOREM ConsoleHasOneOfEach == C!Spec => []OneOfEach
<1>1. ConsoleInv => OneOfEach
    <2> SUFFICES ASSUME ConsoleInv PROVE C!StreamingIsShown /\ C!SwitchesRule
        BY DEF OneOfEach, C!OneOfEach
    <2>1. C!TypeOK /\ C!StreamingIsShown /\ Handles
        BY DEF ConsoleInv
    <2>2. CN \in C!Market /\ ticking[CN] \in Int /\ lost[CN] \in Int
        BY <2>1 DEF C!TypeOK, C!Market
    <2>3. C!SwitchesRule
        BY <2>1, <2>2 DEF Handles, Reached, C!SwitchesRule
    <2> QED
        BY <2>1, <2>3
<1> QED
    BY <1>1, ConsoleInit, ConsoleNext, PTL DEF C!Spec

-----------------------------------------------------------------------------
(***************************************************************************)
(* The scan: one of them writes, and its status is no lie.                 *)
(***************************************************************************)

(* A scan has the lock from its acceptance to its release. *)
Held ==
    \A s \in S!Scan : scan[s] \in {"accepted", "answered", "never"} \cup S!Working => lock = s

FailedIn(q) == \E k \in 1..Len(q) : q[k] = "failed"

Early == {"new", "accepted", "answered", "never", "schema", "tickers", "failing"}
Late == {"refresh", "done", "release", "reset", "over"}

(* What is stored was tried, now or before the second try; nothing is      *)
(* tried before a scan has tickers; and when a failure is on its way, or   *)
(* told, nothing will be stored any more.                                  *)
Vain(s, v) == v = "nothing" \/ (v = "remains" /\ s \in server \cap path)

Honest(s, p, t, v, q, n) ==
    /\ t = 0 => Vain(s, v)
    /\ p \in Early => t = 0 /\ v = "nothing"
    /\ p \in {"tickers", "server"} => s \in server
    /\ n = "failed" \/ FailedIn(q) => Vain(s, v)
    /\ n = "failed" \/ FailedIn(q) => p \in Late

Fruitless == \A s \in S!Scan : Honest(s, scan[s], tried[s], kept[s], queue[s], told[s])

ScanInv == S!TypeOK /\ Held /\ S!RunningIsNoLie /\ Fruitless

(* A queue holds a failure if one was put into it. *)
LEMMA QueueAppend ==
    ASSUME NEW q \in Seq(S!Kind), NEW e \in S!Kind
    PROVE  Append(q, e) \in Seq(S!Kind) /\ (FailedIn(Append(q, e)) => FailedIn(q) \/ e = "failed")
BY DEF FailedIn

(* What is taken from a queue was in it. *)
LEMMA QueueTail ==
    ASSUME NEW q \in Seq(S!Kind), q # <<>>
    PROVE  /\ Tail(q) \in Seq(S!Kind) /\ Head(q) \in S!Kind
           /\ FailedIn(Tail(q)) => FailedIn(q)
           /\ Head(q) = "failed" => FailedIn(q)
<1>1. Len(q) \in Nat \ {0} /\ Head(q) = q[1]
    OBVIOUS
<1>2. Tail(q) \in Seq(S!Kind) /\ Head(q) \in S!Kind
    BY <1>1
<1>3. Len(Tail(q)) = Len(q) - 1 /\ \A k \in 1..Len(Tail(q)) : Tail(q)[k] = q[k + 1]
    BY <1>1
<1>4. FailedIn(Tail(q)) => FailedIn(q)
    BY <1>1, <1>3 DEF FailedIn
<1>5. Head(q) = "failed" => FailedIn(q)
    BY <1>1 DEF FailedIn
<1> QED
    BY <1>2, <1>4, <1>5

(* An empty queue and a new scan promise nothing. *)
LEMMA ScanInit == S!Init => ScanInv
<1> SUFFICES ASSUME S!Init PROVE ScanInv
    OBVIOUS
<1> USE SurroundingsAssumption DEF S!MarketScanAssumption, SurroundingsAssumption, S!Init
<1>1. S!TypeOK
    <2>1. queue \in [S!Scan -> Seq(S!Kind)]
        <3>1. <<>> \in Seq(S!Kind)
            OBVIOUS
        <3> QED
            BY <3>1
    <2>2. tried \in [S!Scan -> 0..Tickers] /\ kept \in [S!Scan -> S!Kept]
        BY DEF S!Kept
    <2>3. server \subseteq S!Scan /\ path \subseteq S!Scan
        OBVIOUS
    <2>4. /\ scan \in [S!Scan -> {"new", "accepted", "answered", "never", "reset", "over"} \cup S!Working]
          /\ response \in [S!Scan -> {"none", "waiting", "open", "closed"}]
          /\ told \in [S!Scan -> S!Kind \cup {"nothing"}]
        OBVIOUS
    <2> QED
        BY <2>1, <2>2, <2>3, <2>4 DEF S!TypeOK
<1>2. Held
    BY DEF Held, S!Working
<1>3. S!RunningIsNoLie
    BY DEF S!RunningIsNoLie
<1>4. Fruitless
    <2>1. ~FailedIn(<<>>)
        BY DEF FailedIn
    <2> SUFFICES ASSUME NEW s \in S!Scan
                 PROVE  Honest(s, scan[s], tried[s], kept[s], queue[s], told[s])
        BY DEF Fruitless
    <2>2. /\ scan[s] = "new" /\ tried[s] = 0 /\ kept[s] = "nothing" /\ queue[s] = <<>>
          /\ told[s] = "nothing"
        OBVIOUS
    <2>3. ~FailedIn(queue[s])
        BY <2>1, <2>2
    <2> QED
        BY <2>2, <2>3 DEF Honest, Vain
<1> QED
    BY <1>1, <1>2, <1>3, <1>4 DEF ScanInv

-----------------------------------------------------------------------------
Pcs == {"new", "accepted", "answered", "never", "reset", "over"} \cup S!Working
Responses == {"none", "waiting", "open", "closed"}

(* What a step does to its own scan decides. *)
LEMMA Own ==
    ASSUME S!TypeOK, Fruitless, NEW s \in S!Scan,
           NEW p \in Pcs, NEW t \in 0..Tickers, NEW v \in S!Kept,
           NEW q \in Seq(S!Kind), NEW r \in Responses, NEW n \in S!Kind \cup {"nothing"},
           scan' = [scan EXCEPT ![s] = p], tried' = [tried EXCEPT ![s] = t],
           kept' = [kept EXCEPT ![s] = v], queue' = [queue EXCEPT ![s] = q],
           response' = [response EXCEPT ![s] = r], told' = [told EXCEPT ![s] = n],
           UNCHANGED S!asked,
           lock' \in S!Scan \cup {S!NoScan}, scanning' \in {"idle", "running"},
           Honest(s, p, t, v, q, n)
    PROVE  S!TypeOK' /\ Fruitless'
<1>1. S!TypeOK'
    <2>1. scan' \in [S!Scan -> Pcs] /\ response' \in [S!Scan -> Responses]
        BY DEF S!TypeOK, Pcs, Responses
    <2>2. tried' \in [S!Scan -> 0..Tickers] /\ kept' \in [S!Scan -> S!Kept]
        BY DEF S!TypeOK
    <2>3. queue' \in [S!Scan -> Seq(S!Kind)] /\ told' \in [S!Scan -> S!Kind \cup {"nothing"}]
        BY DEF S!TypeOK
    <2>4. server' = server /\ path' = path
        BY DEF S!asked
    <2> QED
        BY <2>1, <2>2, <2>3, <2>4 DEF S!TypeOK, Pcs, Responses
<1>2. ASSUME NEW z \in S!Scan
      PROVE  Honest(z, scan'[z], tried'[z], kept'[z], queue'[z], told'[z])
    <2>1. CASE z = s
        <3>1. scan'[z] = p /\ tried'[z] = t /\ kept'[z] = v /\ queue'[z] = q /\ told'[z] = n
            BY <2>1 DEF S!TypeOK
        <3> QED
            BY <2>1, <3>1
    <2>2. CASE z # s
        <3>1. /\ scan'[z] = scan[z] /\ tried'[z] = tried[z] /\ kept'[z] = kept[z]
              /\ queue'[z] = queue[z] /\ told'[z] = told[z]
            BY <2>2 DEF S!TypeOK
        <3> QED
            BY <3>1 DEF Fruitless
    <2> QED
        BY <2>1, <2>2
<1>3. server' = server /\ path' = path
    BY DEF S!asked
<1>4. ASSUME NEW z \in S!Scan
      PROVE  Honest(z, scan[z], tried[z], kept[z], queue[z], told[z])'
    BY <1>2, <1>3 DEF Honest, Vain
<1> QED
    BY <1>1, <1>4 DEF Fruitless

(* What is left alone is what it is. *)
LEMMA Alone ==
    ASSUME S!TypeOK, NEW s \in S!Scan
    PROVE  /\ scan = [scan EXCEPT ![s] = @] /\ scan[s] \in Pcs
           /\ tried = [tried EXCEPT ![s] = @] /\ tried[s] \in 0..Tickers
           /\ kept = [kept EXCEPT ![s] = @] /\ kept[s] \in S!Kept
           /\ queue = [queue EXCEPT ![s] = @] /\ queue[s] \in Seq(S!Kind)
           /\ response = [response EXCEPT ![s] = @] /\ response[s] \in Responses
           /\ told = [told EXCEPT ![s] = @] /\ told[s] \in S!Kind \cup {"nothing"}
           /\ lock \in S!Scan \cup {S!NoScan} /\ scanning \in {"idle", "running"}
BY DEF S!TypeOK, Pcs, Responses

(* The handler and the stream store nothing. *)
LEMMA HandlerFruitless ==
    ASSUME ScanInv, NEW s \in S!Scan,
           S!Accept(s) \/ S!Answer(s) \/ S!Begin(s) \/ S!Deliver(s) \/ S!Disconnect(s)
    PROVE  S!TypeOK' /\ Fruitless'
<1>0. S!TypeOK /\ Fruitless
    BY DEF ScanInv
<1>1. Honest(s, scan[s], tried[s], kept[s], queue[s], told[s])
    BY <1>0 DEF Fruitless
<1>a. /\ scan = [scan EXCEPT ![s] = @] /\ scan[s] \in Pcs
      /\ tried = [tried EXCEPT ![s] = @] /\ tried[s] \in 0..Tickers
      /\ kept = [kept EXCEPT ![s] = @] /\ kept[s] \in S!Kept
      /\ queue = [queue EXCEPT ![s] = @] /\ queue[s] \in Seq(S!Kind)
      /\ response = [response EXCEPT ![s] = @] /\ response[s] \in Responses
      /\ told = [told EXCEPT ![s] = @] /\ told[s] \in S!Kind \cup {"nothing"}
      /\ lock \in S!Scan \cup {S!NoScan} /\ scanning \in {"idle", "running"}
    BY <1>0, Alone
<1>2. CASE S!Deliver(s)
    <2> DEFINE q == Tail(queue[s])
               n == Head(queue[s])
    <2>1. /\ q \in Seq(S!Kind) /\ n \in S!Kind
          /\ FailedIn(q) => FailedIn(queue[s])
          /\ n = "failed" => FailedIn(queue[s])
        BY <1>2, <1>a, QueueTail DEF S!Deliver
    <2>2. /\ scan' = scan /\ tried' = tried /\ kept' = kept
          /\ queue' = [queue EXCEPT ![s] = q] /\ told' = [told EXCEPT ![s] = n]
          /\ response' = [response EXCEPT ![s] = "closed"]
          /\ UNCHANGED S!asked /\ lock' = lock /\ scanning' = scanning
        BY <1>2 DEF S!Deliver, S!work
    <2> HIDE DEF q, n
    <2>3. Honest(s, scan[s], tried[s], kept[s], q, n)
        BY <1>1, <2>1 DEF Honest
    <2>4. /\ scan' = [scan EXCEPT ![s] = scan[s]] /\ tried' = [tried EXCEPT ![s] = tried[s]]
          /\ kept' = [kept EXCEPT ![s] = kept[s]]
        BY <1>a, <2>2
    <2>5. /\ n \in S!Kind \cup {"nothing"} /\ "closed" \in Responses
          /\ lock' \in S!Scan \cup {S!NoScan} /\ scanning' \in {"idle", "running"}
        BY <1>a, <2>1, <2>2 DEF Responses
    <2>6. scan[s] \in Pcs /\ tried[s] \in 0..Tickers /\ kept[s] \in S!Kept /\ q \in Seq(S!Kind)
        BY <1>a, <2>1
    <2>7. /\ queue' = [queue EXCEPT ![s] = q] /\ told' = [told EXCEPT ![s] = n]
          /\ response' = [response EXCEPT ![s] = "closed"] /\ UNCHANGED S!asked
        BY <2>2
    <2> QED
        BY <1>0, <2>3, <2>4, <2>5, <2>6, <2>7, Own
<1>3. CASE S!Accept(s) \/ S!Answer(s) \/ S!Begin(s) \/ S!Disconnect(s)
    <2>1. PICK p \in Pcs, r \in Responses :
              /\ p \in Early \/ p = scan[s]
              /\ p \in Early => scan[s] \in Early
              /\ p \notin {"tickers", "server"} \/ p = scan[s]
              /\ p # scan[s] => scan[s] \in Early
              /\ scan' = [scan EXCEPT ![s] = p] /\ response' = [response EXCEPT ![s] = r]
              /\ UNCHANGED <<tried, kept, queue, told>> /\ UNCHANGED S!asked
              /\ lock' \in S!Scan \cup {S!NoScan} /\ scanning' \in {"idle", "running"}
        <3>1. CASE S!Accept(s)
            BY <3>1, <1>a DEF S!Accept, S!Goes, S!work, Pcs, Early, S!Working
        <3>2. CASE S!Answer(s)
            BY <3>2, <1>a DEF S!Answer, S!Goes, S!work, Pcs, Early, Responses
        <3>3. CASE S!Begin(s)
            BY <3>3, <1>a DEF S!Begin, S!Goes, S!work, Pcs, Early, Responses, S!Working
        <3>4. CASE S!Disconnect(s)
            <4>1. /\ UNCHANGED <<tried, kept, queue, told>> /\ UNCHANGED S!asked
                  /\ lock' = lock /\ scanning' = scanning
                  /\ response' = [response EXCEPT ![s] = "closed"]
                BY <3>4 DEF S!Disconnect, S!work
            <4>2. CASE scan[s] = "answered"
                BY <3>4, <1>a, <4>1, <4>2 DEF S!Disconnect, Pcs, Early, Responses
            <4>3. CASE scan[s] # "answered"
                BY <3>4, <1>a, <4>1, <4>3 DEF S!Disconnect, Pcs, Early, Responses
            <4> QED
                BY <4>2, <4>3
        <3> QED
            BY <1>3, <3>1, <3>2, <3>3, <3>4
    <2>2. Honest(s, p, tried[s], kept[s], queue[s], told[s])
        BY <1>1, <1>a, <2>1 DEF Honest, Early, Late
    <2>3. /\ tried' = [tried EXCEPT ![s] = tried[s]] /\ kept' = [kept EXCEPT ![s] = kept[s]]
          /\ queue' = [queue EXCEPT ![s] = queue[s]] /\ told' = [told EXCEPT ![s] = told[s]]
        BY <1>a, <2>1
    <2>4. /\ tried[s] \in 0..Tickers /\ kept[s] \in S!Kept /\ queue[s] \in Seq(S!Kind)
          /\ told[s] \in S!Kind \cup {"nothing"}
        BY <1>a
    <2>5. /\ scan' = [scan EXCEPT ![s] = p] /\ response' = [response EXCEPT ![s] = r]
          /\ UNCHANGED S!asked
          /\ lock' \in S!Scan \cup {S!NoScan} /\ scanning' \in {"idle", "running"}
        BY <2>1
    <2> QED
        BY <1>0, <2>2, <2>3, <2>4, <2>5, Own
<1> QED
    BY <1>2, <1>3

(* A step of the thread: it changes the place, the counters and the queue  *)
(* of its own scan.                                                        *)
Works(s, p, t, v, q) ==
    /\ scan' = [scan EXCEPT ![s] = p] /\ tried' = [tried EXCEPT ![s] = t]
    /\ kept' = [kept EXCEPT ![s] = v] /\ queue' = [queue EXCEPT ![s] = q]
    /\ UNCHANGED <<response, told>> /\ UNCHANGED S!asked
    /\ lock' \in S!Scan \cup {S!NoScan} /\ scanning' \in {"idle", "running"}

(* The thread stores before it reports a failure, or nothing. *)
LEMMA WorksFruitless ==
    ASSUME S!TypeOK, Fruitless, NEW s \in S!Scan,
           NEW p \in Pcs, NEW t \in 0..Tickers, NEW v \in S!Kept, NEW q \in Seq(S!Kind),
           Works(s, p, t, v, q), Honest(s, p, t, v, q, told[s])
    PROVE  S!TypeOK' /\ Fruitless'
<1>1. /\ response = [response EXCEPT ![s] = @] /\ response[s] \in Responses
      /\ told = [told EXCEPT ![s] = @] /\ told[s] \in S!Kind \cup {"nothing"}
    BY Alone
<1>2. /\ response' = [response EXCEPT ![s] = response[s]] /\ told' = [told EXCEPT ![s] = told[s]]
      /\ scan' = [scan EXCEPT ![s] = p] /\ tried' = [tried EXCEPT ![s] = t]
      /\ kept' = [kept EXCEPT ![s] = v] /\ queue' = [queue EXCEPT ![s] = q]
      /\ UNCHANGED S!asked
      /\ lock' \in S!Scan \cup {S!NoScan} /\ scanning' \in {"idle", "running"}
    BY <1>1 DEF Works
<1> QED
    BY <1>1, <1>2, Own

(* Each step of a thread, by what it does to the queue. *)
LEMMA ThreadFruitless ==
    ASSUME ScanInv, NEW s \in S!Scan, S!Thread(s)
    PROVE  S!TypeOK' /\ Fruitless'
<1> USE SurroundingsAssumption DEF SurroundingsAssumption, S!MarketScanAssumption
<1>0. S!TypeOK /\ Fruitless
    BY DEF ScanInv
<1>1. Honest(s, scan[s], tried[s], kept[s], queue[s], told[s])
    BY <1>0 DEF Fruitless
<1>a. /\ scan = [scan EXCEPT ![s] = @] /\ scan[s] \in Pcs
      /\ tried = [tried EXCEPT ![s] = @] /\ tried[s] \in 0..Tickers
      /\ kept = [kept EXCEPT ![s] = @] /\ kept[s] \in S!Kept
      /\ queue = [queue EXCEPT ![s] = @] /\ queue[s] \in Seq(S!Kind)
      /\ told[s] \in S!Kind \cup {"nothing"}
      /\ lock \in S!Scan \cup {S!NoScan} /\ scanning \in {"idle", "running"}
    BY <1>0, Alone
<1>b. \A e \in S!Kind : /\ Append(queue[s], e) \in Seq(S!Kind)
                        /\ FailedIn(Append(queue[s], e)) => FailedIn(queue[s]) \/ e = "failed"
    BY <1>a, QueueAppend
<1>c. "full" \in S!Kind /\ "done" \in S!Kind /\ "failed" \in S!Kind
    BY DEF S!Kind
<1>2. ASSUME NEW p \in Pcs, NEW t \in 0..Tickers, NEW v \in S!Kept, NEW q \in Seq(S!Kind),
             Works(s, p, t, v, q), Honest(s, p, t, v, q, told[s])
      PROVE  S!TypeOK' /\ Fruitless'
    BY <1>0, <1>2, WorksFruitless
<1>3. ASSUME NEW p \in Pcs, scan' = [scan EXCEPT ![s] = p],
             UNCHANGED <<S!work, queue>>, UNCHANGED <<S!asked, response, told>>,
             lock' \in S!Scan \cup {S!NoScan}, scanning' \in {"idle", "running"},
             p \in Early => scan[s] \in Early, scan[s] \in Late => p \in Late,
             p \in {"tickers", "server"} => s \in server
      PROVE  S!TypeOK' /\ Fruitless'
    <2>1. Works(s, p, tried[s], kept[s], queue[s])
        BY <1>3, <1>a DEF Works, S!work
    <2>2. Honest(s, p, tried[s], kept[s], queue[s], told[s])
        BY <1>1, <1>3, <1>a DEF Honest
    <2> QED
        BY <1>2, <1>a, <2>1, <2>2
<1>4. CASE S!Schema(s) \/ S!LoadTickers(s) \/ S!SkipLocal(s) \/ S!Refresh(s) \/ S!Release(s) \/ S!Reset(s)
    <2>1. CASE S!Schema(s)
        BY <1>3, <1>a, <2>1 DEF S!Schema, S!outside, S!Goes, Pcs, S!Working, Early, Late
    <2>2. CASE S!LoadTickers(s)
        BY <1>1, <1>3, <1>a, <2>2 DEF Honest, S!LoadTickers, S!outside, S!Goes, Pcs, S!Working, Early, Late
    <2>3. CASE S!SkipLocal(s)
        BY <1>3, <1>a, <2>3 DEF S!SkipLocal, S!outside, S!Goes, Pcs, S!Working, Early, Late
    <2>4. CASE S!Refresh(s)
        BY <1>3, <1>a, <2>4 DEF S!Refresh, S!outside, S!Goes, Pcs, S!Working, Early, Late
    <2>5. CASE S!Release(s)
        BY <1>3, <1>a, <2>5 DEF S!Release, S!Goes, Pcs, S!Working, Early, Late
    <2>6. CASE S!Reset(s)
        BY <1>3, <1>a, <2>6 DEF S!Reset, S!Goes, Pcs, S!Working, Early, Late
    <2> QED
        BY <1>4, <2>1, <2>2, <2>3, <2>4, <2>5, <2>6
<1>5. ASSUME NEW p \in Pcs, NEW e \in S!Kind, scan' = [scan EXCEPT ![s] = p], S!Emit(s, e),
             UNCHANGED S!work, UNCHANGED S!outside,
             p \in Late, e = "failed" => Vain(s, kept[s])
      PROVE  S!TypeOK' /\ Fruitless'
    <2> DEFINE q == Append(queue[s], e)
    <2>1. q \in Seq(S!Kind) /\ (FailedIn(q) => FailedIn(queue[s]) \/ e = "failed")
        BY <1>b
    <2>2. queue' = [queue EXCEPT ![s] = q]
        BY <1>5 DEF S!Emit
    <2> HIDE DEF q
    <2>3. Works(s, p, tried[s], kept[s], q)
        BY <1>5, <1>a, <2>2 DEF Works, S!work, S!outside
    <2>4. p \notin Early /\ p \notin {"tickers", "server"}
        BY <1>5 DEF Early, Late
    <2>5. Honest(s, p, tried[s], kept[s], q, told[s])
        BY <1>1, <1>5, <1>a, <2>1, <2>4 DEF Honest
    <2> QED
        BY <1>2, <1>a, <2>1, <2>3, <2>5
<1>6. CASE S!Finish(s)
    <2>1. scan[s] = "failing" => Vain(s, kept[s])
        BY <1>1 DEF Honest, Early, Vain
    <2> QED
        BY <1>5, <1>6, <1>c, <2>1 DEF S!Finish, S!Goes, Late, Pcs, S!Working
<1>7. CASE S!FinishLocal(s)
    BY <1>5, <1>7, <1>c DEF S!FinishLocal, S!Goes, Late, Pcs, S!Working
<1>8. CASE S!LocalRaises(s)
    <2>1. Vain(s, kept[s])
        BY <1>1, <1>8, <1>a DEF Honest, S!LocalRaises
    <2> QED
        BY <1>5, <1>8, <1>c, <2>1 DEF S!LocalRaises, S!Goes, Late, Pcs, S!Working
<1>9. CASE S!ServerRaises(s)
    <2>1. Vain(s, kept[s])
        BY <1>1, <1>9, <1>a DEF Honest, S!ServerRaises
    <2>2. CASE s \in path
        <3>1. scan[s] = "server" /\ scan' = [scan EXCEPT ![s] = "local"]
              /\ UNCHANGED <<S!work, queue>> /\ UNCHANGED <<S!asked, response, told>>
              /\ lock' = lock /\ scanning' = scanning
            BY <1>9, <2>2 DEF S!ServerRaises, S!Goes, S!outside
        <3> QED
            BY <1>3, <1>a, <3>1 DEF Pcs, S!Working, Early, Late
    <2>3. CASE s \notin path
        BY <1>5, <1>9, <1>c, <2>1, <2>3 DEF S!ServerRaises, S!Goes, Late, Pcs, S!Working
    <2> QED
        BY <2>2, <2>3
<1>10. CASE S!FinishServer(s)
    <2>1. CASE kept[s] # "saved" /\ s \in path
        <3>1. scan[s] = "server" /\ scan' = [scan EXCEPT ![s] = "local"]
            BY <1>10, <2>1 DEF S!FinishServer, S!Goes
        <3>2. Works(s, "local", 0, kept[s], queue[s])
            BY <1>10, <1>a, <2>1, <3>1 DEF S!FinishServer, Works, S!outside
        <3>3. Honest(s, "local", 0, kept[s], queue[s], told[s])
            BY <1>1, <1>a, <2>1, <3>1 DEF Honest, Vain, S!Kept, Early, Late
        <3>4. "local" \in Pcs /\ 0 \in 0..Tickers
            BY DEF Pcs, S!Working
        <3> QED
            BY <1>2, <1>a, <3>2, <3>3, <3>4
    <2>2. CASE ~(kept[s] # "saved" /\ s \in path)
        <3>1. UNCHANGED S!work
            BY <1>10, <2>2 DEF S!FinishServer, S!work
        <3> QED
            BY <1>5, <1>10, <1>c, <2>2, <3>1 DEF S!FinishServer, S!Goes, Late, Pcs, S!Working
    <2> QED
        BY <2>1, <2>2
<1>11. ASSUME NEW from \in {"server", "local"}, scan[s] = from, scan' = scan, tried[s] < Tickers,
              tried' = [tried EXCEPT ![s] = @ + 1],
              kept' = kept \/ S!Save(s),
              UNCHANGED queue \/ S!Emit(s, "full"), UNCHANGED S!outside
       PROVE  S!TypeOK' /\ Fruitless'
    <2>1. PICK v \in S!Kept : kept' = [kept EXCEPT ![s] = v]
        BY <1>11, <1>a DEF S!Save, S!Kept
    <2>2. PICK q \in Seq(S!Kind) : queue' = [queue EXCEPT ![s] = q] /\ (FailedIn(q) => FailedIn(queue[s]))
        <3>1. CASE UNCHANGED queue
            BY <1>a, <3>1
        <3>2. CASE S!Emit(s, "full")
            BY <1>b, <1>c, <3>2 DEF S!Emit
        <3> QED
            BY <1>11, <3>1, <3>2
    <2>3. Works(s, scan[s], tried[s] + 1, v, q)
        BY <1>a, <1>11, <2>1, <2>2 DEF Works, S!outside
    <2>4. ~FailedIn(queue[s]) /\ told[s] # "failed" /\ scan[s] \notin Early
        BY <1>1, <1>11 DEF Honest, Late, Early
    <2>5. Honest(s, scan[s], tried[s] + 1, v, q, told[s])
        BY <1>1, <1>a, <1>11, <2>1, <2>2, <2>4 DEF Honest, Early
    <2>6. tried[s] + 1 \in 0..Tickers
        BY <1>a, <1>11
    <2> QED
        BY <1>2, <1>a, <2>1, <2>2, <2>3, <2>5, <2>6
<1>12. CASE S!Download(s)
    <2>1. UNCHANGED queue \/ S!Emit(s, "full")
        BY <1>12 DEF S!Download, S!Report
    <2> QED
        BY <1>11, <1>12, <2>1 DEF S!Download
<1>13. CASE S!ReadFile(s)
    <2>1. UNCHANGED queue \/ S!Emit(s, "full")
        BY <1>13 DEF S!ReadFile, S!Report
    <2> QED
        BY <1>11, <1>13, <2>1 DEF S!ReadFile
<1> QED
    BY <1>4, <1>6, <1>7, <1>8, <1>9, <1>10, <1>12, <1>13 DEF S!Thread

-----------------------------------------------------------------------------
(* A scan that goes on keeps the lock. *)
LEMMA GoesOnHeld ==
    ASSUME ScanInv, NEW s \in S!Scan, NEW p \in Pcs, scan' = [scan EXCEPT ![s] = p],
           scan[s] \in {"accepted", "answered", "never"} \cup S!Working,
           p \in {"answered", "never"} \cup S!Working,
           lock' = lock, scanning' = scanning \/ scanning' = "running"
    PROVE  Held' /\ S!RunningIsNoLie'
<1>0. S!TypeOK /\ Held /\ S!RunningIsNoLie
    BY DEF ScanInv
<1>1. \A z \in S!Scan : scan'[z] = IF z = s THEN p ELSE scan[z]
    BY <1>0 DEF S!TypeOK
<1>2. Held'
    BY <1>0, <1>1 DEF Held
<1>3. S!RunningIsNoLie'
    BY <1>1 DEF S!RunningIsNoLie
<1> QED
    BY <1>2, <1>3

(* Who has the lock, and what the status says, after any step of a scan. *)
LEMMA StepHeld ==
    ASSUME ScanInv, NEW s \in S!Scan,
           \/ S!Accept(s) \/ S!Answer(s) \/ S!Begin(s) \/ S!Deliver(s) \/ S!Disconnect(s)
           \/ S!Thread(s)
    PROVE  Held' /\ S!RunningIsNoLie'
<1>0. S!TypeOK /\ Held /\ S!RunningIsNoLie /\ scan[s] \in Pcs
    BY Alone DEF ScanInv
<1>s. s # S!NoScan
    BY SurroundingsAssumption DEF SurroundingsAssumption, S!MarketScanAssumption, S!Scan, S!NoScan
<1>1. CASE scan' = scan /\ lock' = lock /\ scanning' = scanning
    BY <1>0, <1>1 DEF Held, S!RunningIsNoLie
<1>2. CASE S!Accept(s)
    <2>1. /\ \A z \in S!Scan : scan'[z] = IF z = s THEN "accepted" ELSE scan[z]
          /\ scan[s] = "new" /\ lock = S!NoScan /\ lock' = s /\ scanning' = scanning
        BY <1>0, <1>2 DEF S!TypeOK, S!Accept, S!Goes
    <2>2. Held'
        BY <1>0, <2>1 DEF Held, S!Scan, S!NoScan
    <2>3. S!RunningIsNoLie'
        BY <1>0, <2>1 DEF S!RunningIsNoLie, S!Working
    <2> QED
        BY <2>2, <2>3
<1>3. CASE S!Release(s)
    <2>1. /\ \A z \in S!Scan : scan'[z] = IF z = s THEN "reset" ELSE scan[z]
          /\ scan[s] = "release" /\ lock' = S!NoScan /\ scanning' = scanning
        BY <1>0, <1>3 DEF S!TypeOK, S!Release, S!Goes
    <2>2. lock = s
        BY <1>0, <2>1 DEF Held, S!Working
    <2>3. Held'
        BY <1>0, <2>1, <2>2 DEF Held, S!Working
    <2>4. S!RunningIsNoLie'
        BY <1>0, <2>1 DEF S!RunningIsNoLie, S!Working
    <2> QED
        BY <2>3, <2>4
<1>4. CASE S!Reset(s)
    <2>1. /\ \A z \in S!Scan : scan'[z] = IF z = s THEN "over" ELSE scan[z]
          /\ lock' = lock /\ scanning' = "idle"
        BY <1>0, <1>4 DEF S!TypeOK, S!Reset, S!Goes
    <2>2. Held'
        BY <1>0, <2>1 DEF Held, S!Working
    <2>3. S!RunningIsNoLie'
        BY <2>1 DEF S!RunningIsNoLie
    <2> QED
        BY <2>2, <2>3
<1> DEFINE On == \E p \in Pcs :
                    /\ scan' = [scan EXCEPT ![s] = p] /\ p \in {"answered", "never"} \cup S!Working
                    /\ scan[s] \in {"accepted", "answered", "never"} \cup S!Working
                    /\ lock' = lock /\ (scanning' = scanning \/ scanning' = "running")
           Same == scan' = scan /\ lock' = lock /\ scanning' = scanning
<1>5. CASE On
    BY <1>5, GoesOnHeld
<1>6. CASE S!Answer(s) \/ S!Begin(s)
    <2>1. On
        BY <1>6 DEF S!Answer, S!Begin, S!Goes, Pcs, S!Working
    <2> QED
        BY <1>5, <2>1
<1>7. CASE S!Deliver(s)
    BY <1>1, <1>7 DEF S!Deliver
<1>8. CASE S!Disconnect(s)
    <2>1. CASE scan[s] = "answered"
        <3>1. On
            BY <1>8, <2>1 DEF S!Disconnect, Pcs
        <3> QED
            BY <1>5, <3>1
    <2>2. CASE scan[s] # "answered"
        <3>1. Same
            BY <1>0, <1>8, <2>2 DEF S!Disconnect, S!TypeOK
        <3> QED
            BY <1>1, <3>1
    <2> QED
        BY <2>1, <2>2
<1>9. CASE S!Schema(s) \/ S!LoadTickers(s) \/ S!SkipLocal(s) \/ S!Refresh(s)
    <2>1. On
        BY <1>9 DEF S!Schema, S!LoadTickers, S!SkipLocal, S!Refresh, S!Goes, S!outside, Pcs, S!Working
    <2> QED
        BY <1>5, <2>1
<1>10. CASE S!FinishServer(s) \/ S!ServerRaises(s) \/ S!FinishLocal(s) \/ S!LocalRaises(s) \/ S!Finish(s)
    <2>1. On
        BY <1>10 DEF S!FinishServer, S!ServerRaises, S!FinishLocal, S!LocalRaises, S!Finish,
                     S!Goes, S!outside, Pcs, S!Working
    <2> QED
        BY <1>5, <2>1
<1>11. CASE S!Download(s) \/ S!ReadFile(s)
    BY <1>1, <1>11 DEF S!Download, S!ReadFile, S!outside
<1> QED
    BY <1>2, <1>3, <1>4, <1>6, <1>7, <1>8, <1>9, <1>10, <1>11 DEF S!Thread

(* Every step of a scan keeps the invariant. *)
LEMMA ScanNext == ScanInv /\ [S!Next]_S!vars => ScanInv'
<1> SUFFICES ASSUME ScanInv, [S!Next]_S!vars PROVE ScanInv'
    OBVIOUS
<1>1. CASE S!Next
    <2>1. PICK s \in S!Scan :
              \/ S!Accept(s) \/ S!Answer(s) \/ S!Begin(s) \/ S!Deliver(s) \/ S!Disconnect(s)
              \/ S!Thread(s)
        BY <1>1 DEF S!Next
    <2>2. S!TypeOK' /\ Fruitless'
        BY <2>1, HandlerFruitless, ThreadFruitless
    <2>3. Held' /\ S!RunningIsNoLie'
        BY <2>1, StepHeld
    <2> QED
        BY <2>2, <2>3 DEF ScanInv
<1>2. CASE UNCHANGED S!vars
    BY <1>2 DEF S!vars, ScanInv, S!TypeOK, Held, S!RunningIsNoLie, Fruitless, Honest, Vain
<1> QED
    BY <1>1, <1>2

(* One scan writes the prices of a market at a time; the status is running *)
(* only for a scan that was accepted and has not reset it; and a client is *)
(* told of a failure only if no ticker was saved: for any number of scans  *)
(* and tickers.                                                            *)
THEOREM ScansAreSound == S!Spec => []ScanIsSound
<1>1. ScanInv => ScanIsSound
    <2> SUFFICES ASSUME ScanInv
                 PROVE  S!SingleWriter /\ S!RunningIsNoLie /\ S!FailureMeansNothingSaved
        BY DEF ScanIsSound, S!ScanIsSound
    <2>1. S!SingleWriter
        BY DEF ScanInv, Held, S!SingleWriter
    <2>2. S!FailureMeansNothingSaved
        BY DEF ScanInv, Fruitless, Honest, Vain, S!FailureMeansNothingSaved
    <2> QED
        BY <2>1, <2>2 DEF ScanInv
<1> QED
    BY <1>1, ScanInit, ScanNext, PTL DEF S!Spec

-----------------------------------------------------------------------------
(***************************************************************************)
(* The price history: savers that overlap leave no hole in it.             *)
(***************************************************************************)

(* The newest day that is stored is one of them, and at most a download    *)
(* away from today.                                                        *)
NewestIsStored ==
    /\ P!Stored # {} => P!Newest \in P!Stored /\ \A e \in P!Stored : e <= P!Newest
    /\ \A e \in P!Stored : e <= today
    /\ today <= P!Newest + Window

(* A saver is at most a day late, and what it has read is not newer than   *)
(* what is stored.                                                         *)
SaverIsCurrent(s) ==
    /\ save[s] # "idle" => day[s] \in P!Day /\ day[s] <= today /\ today <= day[s] + 1
    /\ seen[s] <= P!Newest
    /\ save[s] = "prune" \/ outcome[s] = "stored" => day[s] <= P!Newest

PriceInv ==
    /\ P!TypeOK /\ NewestIsStored /\ P!NoHole
    /\ \A s \in Saver : SaverIsCurrent(s)

(* A set of days has one maximum. *)
LEMMA OneMaximum ==
    ASSUME NEW T, T \subseteq P!Day, NEW m \in T, \A e \in T : e <= m
    PROVE  (CHOOSE d \in T : \A e \in T : e <= d) = m
<1> DEFINE c == CHOOSE d \in T : \A e \in T : e <= d
<1>1. c \in T /\ \A e \in T : e <= c
    OBVIOUS
<1>2. c \in Nat /\ m \in Nat
    <2>1. \A e \in P!Day : e \in Nat
        BY DEF P!Day
    <2> HIDE DEF c
    <2> QED
        BY <1>1, <2>1
<1>3. c <= m /\ m <= c
    BY <1>1
<1> QED
    BY <1>2, <1>3

(* The days of a ticker, by number. *)
LEMMA Days ==
    ASSUME P!TypeOK, NewestIsStored
    PROVE  /\ P!Newest \in 0..MaxDay /\ today \in P!Day
           /\ P!Stored = {} => P!Newest = 0
           /\ \A e \in P!Stored : e \in P!Day /\ e \in Nat
           /\ MaxDay \in Nat \ {0} /\ Window \in Nat \ {0} /\ Retention \in Nat /\ Window <= Retention
<1> USE SurroundingsAssumption DEF SurroundingsAssumption, P!PriceAssumption
<1>1. P!Stored = {} => P!Newest = 0
    BY DEF P!Newest
<1>2. \A e \in P!Stored : e \in P!Day /\ e \in Nat
    BY DEF P!Stored, P!Day
<1>3. P!Newest \in 0..MaxDay
    <2>1. CASE P!Stored = {}
        BY <1>1, <2>1
    <2>2. CASE P!Stored # {}
        BY <1>2, <2>2 DEF NewestIsStored, P!Day
    <2> QED
        BY <2>1, <2>2
<1> QED
    BY <1>1, <1>2, <1>3 DEF P!TypeOK

(* The newest day, when it is known which one is. *)
LEMMA NewestNext ==
    ASSUME NEW m \in P!Stored', \A e \in P!Stored' : e <= m
    PROVE  P!Newest' = m /\ P!Stored' # {}
<1> DEFINE T == P!Stored'
<1>1. T \subseteq P!Day
    BY DEF P!Stored
<1>2. m \in T /\ \A e \in T : e <= m
    OBVIOUS
<1>3. P!Newest' = IF T = {} THEN 0 ELSE CHOOSE d \in T : \A e \in T : e <= d
    BY DEF P!Newest
<1> HIDE DEF T
<1>4. (CHOOSE d \in T : \A e \in T : e <= d) = m
    BY <1>1, <1>2, OneMaximum
<1> QED
    BY <1>2, <1>3, <1>4 DEF T

(* Nothing is stored at first. *)
LEMMA PriceInit == P!Init => PriceInv
<1> SUFFICES ASSUME P!Init PROVE PriceInv
    OBVIOUS
<1> USE SurroundingsAssumption DEF SurroundingsAssumption, P!PriceAssumption
<1>1. P!Stored = {} /\ P!Newest = 0
    <2>1. P!Stored = {}
        BY DEF P!Init, P!Stored
    <2> QED
        BY <2>1 DEF P!Newest
<1>2. P!TypeOK
    <2>1. today \in P!Day /\ bars \in [P!Day -> {"none", "early", "final"}]
        BY DEF P!Init, P!Day
    <2>2. trading \in BOOLEAN /\ early \in [Saver -> BOOLEAN]
        BY DEF P!Init
    <2>3. day \in [Saver -> 0..MaxDay] /\ seen \in [Saver -> 0..MaxDay]
        BY DEF P!Init
    <2>4. /\ save \in [Saver -> {"idle", "frame", "anchor", "prune"}]
          /\ outcome \in [Saver -> {"none", "stored", "failed"}]
        BY DEF P!Init
    <2> QED
        BY <2>1, <2>2, <2>3, <2>4 DEF P!TypeOK
<1>3. NewestIsStored
    BY <1>1 DEF P!Init, NewestIsStored
<1>4. P!NoHole
    BY <1>1 DEF P!NoHole
<1>5. \A s \in Saver : SaverIsCurrent(s)
    BY <1>1 DEF P!Init, SaverIsCurrent
<1> QED
    BY <1>2, <1>3, <1>4, <1>5 DEF PriceInv

-----------------------------------------------------------------------------
(* A step that stores and deletes nothing and changes no day. *)
LEMMA SameBars ==
    ASSUME PriceInv, UNCHANGED <<today, bars>>
    PROVE  P!Stored' = P!Stored /\ P!Newest' = P!Newest /\ NewestIsStored' /\ P!NoHole'
<1>1. P!Stored' = P!Stored
    BY DEF P!Stored
<1>2. P!Newest' = P!Newest
    BY <1>1 DEF P!Newest
<1>3. NewestIsStored'
    BY <1>1, <1>2 DEF PriceInv, NewestIsStored
<1>4. P!NoHole'
    BY <1>1, <1>2 DEF PriceInv, P!NoHole
<1> QED
    BY <1>1, <1>2, <1>3, <1>4

(* What a saver does to its own variables decides. *)
LEMMA SaverStep ==
    ASSUME PriceInv, NEW s \in Saver,
           NEW k \in {"idle", "frame", "anchor", "prune"}, NEW d \in 0..MaxDay,
           NEW b \in BOOLEAN, NEW n \in 0..MaxDay, NEW o \in {"none", "stored", "failed"},
           save' = [save EXCEPT ![s] = k], day' = [day EXCEPT ![s] = d],
           early' = [early EXCEPT ![s] = b], seen' = [seen EXCEPT ![s] = n],
           outcome' = [outcome EXCEPT ![s] = o], UNCHANGED <<today, trading>>,
           bars' \in [P!Day -> {"none", "early", "final"}],
           NewestIsStored', P!NoHole', P!Newest <= P!Newest',
           P!Newest' \in Nat,
           k # "idle" => d \in P!Day /\ d <= today /\ today <= d + 1,
           n <= P!Newest',
           k = "prune" \/ o = "stored" => d <= P!Newest'
    PROVE  PriceInv'
<1>0. P!TypeOK /\ NewestIsStored
    BY DEF PriceInv
<1>1. P!TypeOK'
    <2>1. /\ save' \in [Saver -> {"idle", "frame", "anchor", "prune"}]
          /\ outcome' \in [Saver -> {"none", "stored", "failed"}]
        BY <1>0 DEF P!TypeOK
    <2>2. day' \in [Saver -> 0..MaxDay] /\ seen' \in [Saver -> 0..MaxDay]
        BY <1>0 DEF P!TypeOK
    <2>3. early' \in [Saver -> BOOLEAN]
        BY <1>0, Zenon DEF P!TypeOK
    <2>4. today' = today /\ trading' = trading
        OBVIOUS
    <2> QED
        BY <1>0, <2>1, <2>2, <2>3, <2>4 DEF P!TypeOK
<1>2. ASSUME NEW z \in Saver
      PROVE  SaverIsCurrent(z)'
    <2>1. CASE z = s
        <3>1. save'[z] = k /\ day'[z] = d /\ seen'[z] = n /\ outcome'[z] = o /\ today' = today
            BY <1>0, <2>1 DEF P!TypeOK
        <3> QED
            BY <3>1 DEF SaverIsCurrent
    <2>2. CASE z # s
        <3>1. /\ save'[z] = save[z] /\ day'[z] = day[z] /\ seen'[z] = seen[z]
              /\ outcome'[z] = outcome[z] /\ today' = today
            BY <1>0, <2>2 DEF P!TypeOK
        <3>2. SaverIsCurrent(z)
            BY DEF PriceInv
        <3>3. day[z] \in Nat /\ seen[z] \in Nat /\ P!Newest \in Nat
            BY <1>0, Days DEF P!TypeOK
        <3> QED
            BY <3>1, <3>2, <3>3 DEF SaverIsCurrent
    <2> QED
        BY <2>1, <2>2
<1> QED
    BY <1>1, <1>2 DEF PriceInv

(* What a saver has of its own. *)
LEMMA SaverAlone ==
    ASSUME P!TypeOK, NEW s \in Saver
    PROVE  /\ day = [day EXCEPT ![s] = @] /\ day[s] \in 0..MaxDay
           /\ early = [early EXCEPT ![s] = @] /\ early[s] \in BOOLEAN
           /\ seen = [seen EXCEPT ![s] = @] /\ seen[s] \in 0..MaxDay
           /\ outcome = [outcome EXCEPT ![s] = @] /\ outcome[s] \in {"none", "stored", "failed"}
           /\ bars \in [P!Day -> {"none", "early", "final"}]
BY DEF P!TypeOK

(* An append adds what is missing up to the day of the frame: from the day *)
(* after the newest, or before an only day.                                *)
LEMMA Appends ==
    ASSUME PriceInv, NEW s \in Saver, P!AppendBars(s)
    PROVE  /\ NewestIsStored' /\ P!NoHole'
           /\ P!Newest' \in Nat /\ P!Newest <= P!Newest' /\ day[s] <= P!Newest'
           /\ bars' \in [P!Day -> {"none", "early", "final"}]
<1> DEFINE F == P!Fresh(s)
           N == P!Newest
           D == day[s]
           T == P!Stored
           U == P!Stored'
<1>0. P!TypeOK /\ NewestIsStored /\ P!NoHole /\ SaverIsCurrent(s)
    BY DEF PriceInv
<1>1. /\ N \in 0..MaxDay /\ today \in P!Day /\ (T = {} => N = 0)
      /\ \A e \in T : e \in P!Day /\ e \in Nat
      /\ MaxDay \in Nat \ {0} /\ Window \in Nat \ {0}
    BY <1>0, Days
<1>2. F # {} /\ F \cap T = {} /\ save[s] = "anchor" /\ today' = today
    BY DEF P!AppendBars, P!Goes
<1>3. D \in P!Day /\ D <= today /\ today <= D + 1 /\ seen[s] <= N /\ seen[s] \in Nat
    BY <1>0, <1>2 DEF SaverIsCurrent, P!TypeOK
<1>4. bars' = [d \in P!Day |-> IF d \in F THEN P!Bar(s, d) ELSE bars[d]]
    BY DEF P!AppendBars
<1>5. \A d \in P!Day : P!Bar(s, d) \in {"early", "final"}
    BY DEF P!Bar
<1>6. bars' \in [P!Day -> {"none", "early", "final"}]
    BY <1>0, <1>4, <1>5 DEF P!TypeOK
<1>7. F \subseteq P!Day
    BY DEF P!Fresh, P!Frame
<1>8. U = T \cup F
    BY <1>4, <1>5, <1>7 DEF P!Stored
<1>9. \A d \in P!Day : d \in F <=> d <= D /\ D < d + Window /\ d > seen[s]
    BY <1>3 DEF P!Fresh, P!Frame, P!Day
<1>10. /\ T # {} => N \in T
       /\ \A e \in T : e <= N /\ e <= today
       /\ today <= N + Window
    BY <1>0 DEF NewestIsStored
<1>11. \A d \in P!Day : d < N /\ (\E e \in T : e < d) => d \in T
    BY <1>0 DEF P!NoHole, P!Stored
<1>m. U \subseteq P!Day
    BY DEF P!Stored
<1>n. ASSUME NEW m \in U, \A e \in U : e <= m PROVE P!Newest' = m /\ U # {}
    BY <1>n, NewestNext
<1>o. NewestIsStored' <=> /\ U # {} => P!Newest' \in U /\ \A e \in U : e <= P!Newest'
                          /\ \A e \in U : e <= today'
                          /\ today' <= P!Newest' + Window
    BY DEF NewestIsStored
<1>p. P!NoHole' <=> \A d \in P!Day : (\E e \in U : e < d) /\ d < P!Newest' => d \in U
    BY DEF P!NoHole, P!Stored
<1>r. /\ \A e \in P!Day : e \in Nat
      /\ D \in Nat /\ N \in Nat /\ today \in Nat /\ today' \in Nat /\ Window \in Nat \ {0}
      /\ D >= 1 /\ (T # {} => N \in P!Day)
    BY <1>1, <1>2, <1>3, <1>10 DEF P!Day
<1> HIDE DEF F, N, D, T, U
<1>s. \A e \in U : e \in T \/ e \in F
    BY <1>8
<1>t. \A e \in F : e \in P!Day /\ e \in Nat /\ e <= D
    BY <1>7, <1>9, <1>r
<1>u. \A e \in T : e \in Nat /\ e <= N
    BY <1>1, <1>10
<1>12. D \in F
    <2>1. PICK d \in F : TRUE
        BY <1>2
    <2>2. d \in P!Day /\ d <= D /\ d > seen[s]
        BY <1>7, <1>9, <2>1
    <2> QED
        BY <1>1, <1>r, <1>s, <1>t, <1>u, <1>3, <1>9, <2>2
<1>13. CASE T = {}
    <2>1. N = 0 /\ U = F /\ \A e \in U : e <= D
        BY <1>1, <1>r, <1>s, <1>t, <1>u, <1>7, <1>8, <1>9, <1>13
    <2>2. P!Newest' = D
        BY <1>8, <1>12, <1>n, <2>1
    <2>3. NewestIsStored'
        BY <1>1, <1>r, <1>s, <1>t, <1>u, <1>2, <1>3, <1>12, <1>o, <2>1, <2>2, <1>7
    <2>4. P!NoHole'
        <3> SUFFICES ASSUME NEW d \in P!Day, NEW e \in F, e < d, d < D PROVE d \in F
            BY <1>p, <2>1, <2>2
        <3>1. e \in P!Day /\ e <= D /\ D < e + Window /\ e > seen[s]
            BY <1>7, <1>9
        <3> QED
            BY <1>1, <1>r, <1>s, <1>t, <1>u, <1>3, <1>9, <3>1
    <2> QED
        BY <1>1, <1>r, <1>s, <1>t, <1>u, <1>3, <1>6, <2>1, <2>2, <2>3, <2>4 DEF N, D
<1>14. CASE T # {} /\ N < D
    <2>1. \A d \in P!Day : d \in F => d > N
        <3> SUFFICES ASSUME NEW d \in F, d <= N PROVE FALSE
            BY <1>1, <1>r, <1>s, <1>t, <1>u, <1>7
        <3>1. d \in P!Day /\ d <= D /\ D < d + Window /\ d > seen[s]
            BY <1>7, <1>9
        <3>2. N \in P!Day
            BY <1>1, <1>r, <1>s, <1>t, <1>u, <1>10, <1>14
        <3>3. N \in F
            BY <1>1, <1>r, <1>s, <1>t, <1>u, <1>3, <1>9, <1>14, <3>1, <3>2
        <3> QED
            BY <1>2, <1>10, <1>14, <3>3
    <2>2. \A d \in P!Day : N < d /\ d <= D => d \in F
        BY <1>1, <1>r, <1>s, <1>t, <1>u, <1>3, <1>9, <1>10, <1>14
    <2>3. \A e \in U : e <= D
        BY <1>r, <1>s, <1>t, <1>u, <1>14
    <2>4. P!Newest' = D
        BY <1>8, <1>12, <1>n, <2>3
    <2>5. NewestIsStored'
        <3>1. \A e \in U : e <= today'
            BY <1>1, <1>r, <1>s, <1>t, <1>u, <1>2, <1>3, <1>m, <2>3
        <3>2. today' <= D + Window
            BY <1>1, <1>r, <1>s, <1>t, <1>u, <1>2, <1>3
        <3> QED
            BY <1>8, <1>12, <1>o, <2>3, <2>4, <3>1, <3>2
    <2>6. P!NoHole'
        <3> SUFFICES ASSUME NEW d \in P!Day, NEW e \in U, e < d, d < D PROVE d \in U
            BY <1>p, <2>4
        <3>1. CASE d > N
            BY <1>8, <1>r, <2>2, <3>1
        <3>2. CASE d = N
            BY <1>8, <1>10, <1>14, <3>2
        <3>3. CASE d < N
            <4>1. e \in T
                BY <1>r, <1>s, <1>t, <2>1, <3>3
            <4> QED
                BY <1>8, <1>11, <3>3, <4>1
        <3> QED
            BY <1>1, <1>r, <1>s, <1>t, <1>u, <3>1, <3>2, <3>3
    <2> QED
        BY <1>1, <1>r, <1>s, <1>t, <1>u, <1>3, <1>6, <1>14, <2>4, <2>5, <2>6 DEF N, D
<1>15. CASE T # {} /\ ~(N < D)
    <2>1. N = D + 1
        <3>1. N # D
            BY <1>2, <1>10, <1>12, <1>15
        <3>2. N <= D + 1
            BY <1>1, <1>r, <1>s, <1>t, <1>u, <1>3, <1>10, <1>15
        <3> QED
            BY <1>1, <1>r, <1>s, <1>t, <1>u, <1>3, <1>15, <3>1, <3>2
    <2>2. \A e \in T : e = N
        <3>1. D \notin T
            BY <1>2, <1>12
        <3>2. \A e \in T : ~(e < D)
            BY <1>1, <1>r, <1>s, <1>t, <1>u, <1>3, <1>11, <2>1, <3>1
        <3> QED
            BY <1>1, <1>r, <1>s, <1>t, <1>u, <1>3, <1>10, <2>1, <3>1, <3>2
    <2>3. \A e \in U : e <= N
        BY <1>r, <1>s, <1>t, <2>1, <2>2
    <2>4. P!Newest' = N
        BY <1>8, <1>10, <1>15, <1>n, <2>3
    <2>5. NewestIsStored'
        <3>1. \A e \in U : e <= today'
            BY <1>2, <1>3, <1>10, <1>r, <1>s, <1>t
        <3> QED
            BY <1>2, <1>8, <1>10, <1>15, <1>o, <2>3, <2>4, <3>1
    <2>6. P!NoHole'
        <3> SUFFICES ASSUME NEW d \in P!Day, NEW e \in U, e < d, d < N PROVE d \in F
            BY <1>8, <1>p, <2>4
        <3>1. e \in F
            BY <1>1, <1>r, <1>s, <1>t, <1>u, <1>7, <1>8, <2>2
        <3>2. e \in P!Day /\ e <= D /\ D < e + Window /\ e > seen[s]
            BY <1>7, <1>9, <3>1
        <3> QED
            BY <1>1, <1>r, <1>s, <1>t, <1>u, <1>3, <1>9, <2>1, <3>2
    <2> QED
        BY <1>1, <1>r, <1>s, <1>t, <1>u, <1>3, <1>6, <2>1, <2>4, <2>5, <2>6 DEF N, D
<1> QED
    BY <1>13, <1>14, <1>15

(* The deletion of old bars leaves the newest, and no hole. *)
LEMMA Prunes ==
    ASSUME PriceInv, NEW s \in Saver, P!Prune(s)
    PROVE  /\ NewestIsStored' /\ P!NoHole' /\ P!Newest' = P!Newest
           /\ bars' \in [P!Day -> {"none", "early", "final"}]
<1> DEFINE N == P!Newest
           T == P!Stored
           U == P!Stored'
<1>0. P!TypeOK /\ NewestIsStored /\ P!NoHole
    BY DEF PriceInv
<1>1. /\ N \in 0..MaxDay /\ today \in P!Day /\ (T = {} => N = 0)
      /\ \A e \in T : e \in P!Day /\ e \in Nat
      /\ MaxDay \in Nat \ {0} /\ Window \in Nat \ {0} /\ Retention \in Nat /\ Window <= Retention
    BY <1>0, Days
<1>2. bars' = [d \in P!Day |-> IF d + Retention < today THEN "none" ELSE bars[d]] /\ today' = today
    BY DEF P!Prune
<1>3. bars' \in [P!Day -> {"none", "early", "final"}]
    BY <1>0, <1>2 DEF P!TypeOK
<1>4. U = {d \in T : ~(d + Retention < today)}
    BY <1>2 DEF P!Stored
<1>10. /\ T # {} => N \in T
       /\ \A e \in T : e <= N /\ e <= today
       /\ today <= N + Window
    BY <1>0 DEF NewestIsStored
<1>11. \A d \in P!Day : d < N /\ (\E e \in T : e < d) => d \in T
    BY <1>0 DEF P!NoHole, P!Stored
<1>n. ASSUME NEW m \in U, \A e \in U : e <= m PROVE P!Newest' = m /\ U # {}
    BY <1>n, NewestNext
<1>o. NewestIsStored' <=> /\ U # {} => P!Newest' \in U /\ \A e \in U : e <= P!Newest'
                          /\ \A e \in U : e <= today'
                          /\ today' <= P!Newest' + Window
    BY DEF NewestIsStored
<1>p. P!NoHole' <=> \A d \in P!Day : (\E e \in U : e < d) /\ d < P!Newest' => d \in U
    BY DEF P!NoHole, P!Stored
<1>q. U = {} => P!Newest' = 0
    BY DEF P!Newest
<1> HIDE DEF N, T, U
<1>5. P!Newest' = N
    <2>1. CASE T = {}
        <3>1. U = {}
            BY <1>4, <2>1
        <3> QED
            BY <1>1, <1>q, <2>1, <3>1
    <2>2. CASE T # {}
        <3>1. N \in U
            BY <1>1, <1>4, <1>10, <2>2 DEF P!Day
        <3>2. \A e \in U : e <= N
            BY <1>4, <1>10
        <3> QED
            BY <1>n, <3>1, <3>2
    <2> QED
        BY <2>1, <2>2
<1>6. NewestIsStored'
    <2>1. U # {} => N \in U
        BY <1>1, <1>4, <1>10 DEF P!Day
    <2> QED
        BY <1>2, <1>4, <1>5, <1>10, <1>o, <2>1
<1>7. P!NoHole'
    <2> SUFFICES ASSUME NEW d \in P!Day, NEW e \in U, e < d, d < N PROVE d \in U
        BY <1>5, <1>p
    <2>1. e \in T /\ e \in Nat /\ ~(e + Retention < today)
        BY <1>1, <1>4
    <2>2. d \in T
        BY <1>11, <2>1
    <2> QED
        BY <1>1, <1>4, <2>1, <2>2 DEF P!Day
<1> QED
    BY <1>3, <1>5, <1>6, <1>7 DEF N

(* Every step of a saver keeps the invariant. *)
LEMMA SaverNext ==
    ASSUME PriceInv, NEW s \in Saver,
           \/ P!Download(s) \/ P!Anchor(s) \/ P!NothingNew(s) \/ P!AppendBars(s)
           \/ P!Conflict(s) \/ P!Prune(s) \/ P!Fails(s)
    PROVE  PriceInv'
<1>0. P!TypeOK /\ NewestIsStored /\ SaverIsCurrent(s)
    BY DEF PriceInv
<1>1. /\ P!Newest \in 0..MaxDay /\ P!Newest \in Nat /\ today \in P!Day
      /\ MaxDay \in Nat \ {0} /\ Window \in Nat \ {0}
    BY <1>0, Days
<1>2. /\ day = [day EXCEPT ![s] = @] /\ day[s] \in 0..MaxDay
      /\ early = [early EXCEPT ![s] = @] /\ early[s] \in BOOLEAN
      /\ seen = [seen EXCEPT ![s] = @] /\ seen[s] \in 0..MaxDay
      /\ outcome = [outcome EXCEPT ![s] = @] /\ outcome[s] \in {"none", "stored", "failed"}
      /\ bars \in [P!Day -> {"none", "early", "final"}]
    BY <1>0, SaverAlone
<1>3. ASSUME UNCHANGED <<today, bars>>
      PROVE  /\ P!Newest' = P!Newest /\ NewestIsStored' /\ P!NoHole'
             /\ P!Newest <= P!Newest' /\ P!Newest' \in Nat
             /\ bars' \in [P!Day -> {"none", "early", "final"}]
    <2>1. P!Newest' = P!Newest /\ NewestIsStored' /\ P!NoHole'
        BY <1>3, SameBars
    <2> QED
        BY <1>1, <1>2, <1>3, <2>1
<1>4. CASE P!Download(s)
    <2>1. /\ save' = [save EXCEPT ![s] = "frame"] /\ day' = [day EXCEPT ![s] = today]
          /\ early' = [early EXCEPT ![s] = trading] /\ outcome' = [outcome EXCEPT ![s] = "none"]
          /\ UNCHANGED <<today, trading, bars, seen>>
        BY <1>4 DEF P!Download, P!Goes
    <2>2. today \in 0..MaxDay /\ today <= today + 1 /\ trading \in BOOLEAN /\ today <= today
        BY <1>0, <1>1 DEF P!TypeOK, P!Day
    <2>3. seen[s] <= P!Newest'
        BY <1>0, <1>3, <2>1 DEF SaverIsCurrent
    <2>4. seen' = [seen EXCEPT ![s] = seen[s]]
        BY <1>2, <2>1
    <2> QED
        BY <1>1, <1>2, <1>3, <2>1, <2>2, <2>3, <2>4, SaverStep
<1>5. CASE P!Anchor(s)
    <2>1. /\ save[s] = "frame" /\ save' = [save EXCEPT ![s] = "anchor"]
          /\ seen' = [seen EXCEPT ![s] = P!Newest]
          /\ UNCHANGED <<today, trading, bars, day, early, outcome>>
        BY <1>5 DEF P!Anchor, P!Goes
    <2>2. /\ day' = [day EXCEPT ![s] = day[s]] /\ early' = [early EXCEPT ![s] = early[s]]
          /\ outcome' = [outcome EXCEPT ![s] = outcome[s]]
        BY <1>2, <2>1
    <2>3. day[s] \in P!Day /\ day[s] <= today /\ today <= day[s] + 1
        BY <1>0, <2>1 DEF SaverIsCurrent
    <2>4. P!Newest <= P!Newest'
        BY <1>3, <2>1
    <2>5. outcome[s] = "stored" => day[s] <= P!Newest'
        BY <1>0, <1>3, <2>1 DEF SaverIsCurrent
    <2> QED
        BY <1>1, <1>2, <1>3, <2>1, <2>2, <2>3, <2>4, <2>5, SaverStep
<1>6. ASSUME NEW k \in {"idle", "prune"}, NEW o \in {"none", "stored", "failed"},
             save' = [save EXCEPT ![s] = k], outcome' = [outcome EXCEPT ![s] = o],
             UNCHANGED <<today, trading, day, early, seen>>,
             bars' \in [P!Day -> {"none", "early", "final"}], P!Newest' \in Nat,
             NewestIsStored', P!NoHole', P!Newest <= P!Newest', save[s] # "idle",
             k = "prune" \/ o = "stored" => day[s] <= P!Newest'
      PROVE  PriceInv'
    <2>1. /\ day' = [day EXCEPT ![s] = day[s]] /\ early' = [early EXCEPT ![s] = early[s]]
          /\ seen' = [seen EXCEPT ![s] = seen[s]]
        BY <1>2, <1>6
    <2>2. day[s] \in P!Day /\ day[s] <= today /\ today <= day[s] + 1
        BY <1>0, <1>6 DEF SaverIsCurrent
    <2>3. seen[s] <= P!Newest'
        <3>1. seen[s] <= P!Newest /\ seen[s] \in Nat
            BY <1>0, <1>2 DEF SaverIsCurrent
        <3> QED
            BY <1>1, <1>6, <3>1
    <2>4. k \in {"idle", "frame", "anchor", "prune"}
        BY <1>6
    <2>5. /\ save' = [save EXCEPT ![s] = k] /\ outcome' = [outcome EXCEPT ![s] = o]
          /\ UNCHANGED <<today, trading>> /\ bars' \in [P!Day -> {"none", "early", "final"}]
          /\ P!Newest' \in Nat /\ NewestIsStored' /\ P!NoHole' /\ P!Newest <= P!Newest'
          /\ k = "prune" \/ o = "stored" => day[s] <= P!Newest'
        BY <1>6
    <2>6. day[s] \in 0..MaxDay /\ early[s] \in BOOLEAN /\ seen[s] \in 0..MaxDay
        BY <1>2
    <2> QED
        BY <2>1, <2>2, <2>3, <2>4, <2>5, <2>6, SaverStep
<1>7. CASE P!NothingNew(s)
    <2>1. /\ save[s] = "anchor" /\ save' = [save EXCEPT ![s] = "idle"]
          /\ outcome' = [outcome EXCEPT ![s] = "stored"] /\ P!Fresh(s) = {}
          /\ UNCHANGED <<today, trading, bars, day, early, seen>>
        BY <1>7 DEF P!NothingNew, P!Goes, P!Ends
    <2>2. day[s] <= P!Newest
        <3>1. day[s] \in P!Day /\ seen[s] <= P!Newest /\ seen[s] \in Nat
            BY <1>0, <1>2, <2>1 DEF SaverIsCurrent
        <3>2. day[s] <= seen[s]
            BY <1>1, <2>1, <3>1 DEF P!Fresh, P!Frame, P!Day
        <3> QED
            BY <1>1, <3>1, <3>2 DEF P!Day
    <2> QED
        BY <1>3, <1>6, <2>1, <2>2
<1>8. CASE P!AppendBars(s)
    <2>1. /\ save[s] = "anchor" /\ save' = [save EXCEPT ![s] = "prune"]
          /\ UNCHANGED <<today, trading, day, early, seen>> /\ outcome' = [outcome EXCEPT ![s] = outcome[s]]
        BY <1>2, <1>8 DEF P!AppendBars, P!Goes
    <2>2. /\ NewestIsStored' /\ P!NoHole'
          /\ P!Newest' \in Nat /\ P!Newest <= P!Newest' /\ day[s] <= P!Newest'
          /\ bars' \in [P!Day -> {"none", "early", "final"}]
        BY <1>8, Appends
    <2> QED
        BY <1>2, <1>6, <2>1, <2>2
<1>9. CASE P!Conflict(s)
    <2>1. /\ save[s] = "anchor" /\ save' = [save EXCEPT ![s] = "idle"]
          /\ outcome' = [outcome EXCEPT ![s] = "failed"]
          /\ UNCHANGED <<today, trading, bars, day, early, seen>>
        BY <1>9 DEF P!Conflict, P!Goes, P!Ends
    <2> QED
        BY <1>3, <1>6, <2>1
<1>10. CASE P!Prune(s)
    <2>1. /\ save[s] = "prune" /\ save' = [save EXCEPT ![s] = "idle"]
          /\ outcome' = [outcome EXCEPT ![s] = "stored"]
          /\ UNCHANGED <<today, trading, day, early, seen>>
        BY <1>10 DEF P!Prune, P!Goes, P!Ends
    <2>2. /\ NewestIsStored' /\ P!NoHole' /\ P!Newest' = P!Newest
          /\ bars' \in [P!Day -> {"none", "early", "final"}]
        BY <1>10, Prunes
    <2>3. day[s] <= P!Newest' /\ P!Newest <= P!Newest' /\ P!Newest' \in Nat
        BY <1>0, <1>1, <2>1, <2>2 DEF SaverIsCurrent
    <2> QED
        BY <1>6, <2>1, <2>2, <2>3
<1>11. CASE P!Fails(s)
    <2>1. /\ save[s] # "idle" /\ save' = [save EXCEPT ![s] = "idle"]
          /\ outcome' = [outcome EXCEPT ![s] = "failed"]
          /\ UNCHANGED <<today, trading, bars, day, early, seen>>
        BY <1>11 DEF P!Fails, P!Ends
    <2> QED
        BY <1>3, <1>6, <2>1
<1> QED
    BY <1>4, <1>5, <1>7, <1>8, <1>9, <1>10, <1>11

(* The next day opens while the newest bar is within reach. *)
LEMMA OpenInv ==
    ASSUME PriceInv, P!Open
    PROVE  PriceInv'
<1>0. P!TypeOK /\ NewestIsStored /\ P!NoHole
    BY DEF PriceInv
<1>1. /\ P!Newest \in Nat /\ today \in P!Day /\ MaxDay \in Nat \ {0} /\ Window \in Nat \ {0}
      /\ \A e \in P!Stored : e \in Nat
    BY <1>0, Days
<1>2. /\ today < MaxDay /\ today < P!Newest + Window /\ today' = today + 1 /\ trading' = TRUE
      /\ \A s \in Saver : save[s] # "idle" => day[s] = today
      /\ UNCHANGED <<bars, save, day, early, seen, outcome>>
    BY DEF P!Open
<1>3. P!Stored' = P!Stored
    BY <1>2 DEF P!Stored
<1>4. P!Newest' = P!Newest
    BY <1>3 DEF P!Newest
<1>5. P!TypeOK'
    <2>1. today' \in P!Day
        BY <1>1, <1>2 DEF P!Day
    <2> QED
        BY <1>0, <1>2, <2>1 DEF P!TypeOK
<1>6. NewestIsStored'
    <2>1. \A e \in P!Stored : e <= today'
        BY <1>0, <1>1, <1>2 DEF NewestIsStored, P!Day
    <2>2. today' <= P!Newest + Window
        BY <1>1, <1>2 DEF P!Day
    <2> QED
        BY <1>0, <1>3, <1>4, <2>1, <2>2 DEF NewestIsStored
<1>7. P!NoHole'
    BY <1>0, <1>2, <1>3, <1>4 DEF P!NoHole
<1>8. ASSUME NEW s \in Saver PROVE SaverIsCurrent(s)'
    <2>1. SaverIsCurrent(s)
        BY DEF PriceInv
    <2>2. save[s] # "idle" => day[s] <= today' /\ today' <= day[s] + 1
        BY <1>1, <1>2 DEF P!Day
    <2> QED
        BY <1>2, <1>4, <2>1, <2>2 DEF SaverIsCurrent
<1> QED
    BY <1>5, <1>6, <1>7, <1>8 DEF PriceInv

(* Every step of the price store keeps the invariant. *)
LEMMA PriceNext == PriceInv /\ [P!Next]_P!vars => PriceInv'
<1> SUFFICES ASSUME PriceInv, [P!Next]_P!vars PROVE PriceInv'
    OBVIOUS
<1>1. CASE P!Open
    BY <1>1, OpenInv
<1>2. ASSUME UNCHANGED <<today, bars, save, day, early, seen, outcome>>, trading' \in BOOLEAN
      PROVE  PriceInv'
    <2>1. P!Newest' = P!Newest /\ NewestIsStored' /\ P!NoHole'
        BY <1>2, SameBars
    <2>2. P!TypeOK'
        BY <1>2 DEF PriceInv, P!TypeOK
    <2>3. \A s \in Saver : SaverIsCurrent(s)'
        BY <1>2, <2>1 DEF PriceInv, SaverIsCurrent
    <2> QED
        BY <2>1, <2>2, <2>3 DEF PriceInv
<1>3. CASE P!Close
    BY <1>2, <1>3 DEF P!Close
<1>4. CASE UNCHANGED P!vars
    BY <1>2, <1>4 DEF P!vars, PriceInv, P!TypeOK
<1>5. ASSUME NEW s \in Saver,
             \/ P!Download(s) \/ P!Anchor(s) \/ P!NothingNew(s) \/ P!AppendBars(s)
             \/ P!Conflict(s) \/ P!Prune(s) \/ P!Fails(s)
      PROVE  PriceInv'
    BY <1>5, SaverNext
<1> QED
    BY <1>1, <1>3, <1>4, <1>5 DEF P!Next

(* Whatever savers overlap, fail and die, and for any window that the      *)
(* retention covers, the history of a ticker has no hole, and a save that  *)
(* succeeded is in it.                                                     *)
THEOREM HistoryHasNoHole == P!Spec => []HistoryIsSound
<1>1. PriceInv => HistoryIsSound
    <2> SUFFICES ASSUME PriceInv PROVE P!NoHole /\ P!SuccessIsCurrent
        BY DEF HistoryIsSound, P!HistoryIsSound
    <2>1. P!TypeOK /\ NewestIsStored
        BY DEF PriceInv
    <2>2. P!Newest \in Nat /\ \A s \in Saver : day[s] \in Nat
        BY <2>1, Days DEF P!TypeOK
    <2> QED
        BY <2>2 DEF PriceInv, SaverIsCurrent, P!SuccessIsCurrent
<1> QED
    BY <1>1, PriceInit, PriceNext, PTL DEF P!Spec

-----------------------------------------------------------------------------
(***************************************************************************)
(* Uploads: what was answered is stored, and rows are of processes.        *)
(***************************************************************************)

Filed == {"exists", "move", "parse", "save", "read", "page", "chunks", "answer"}

(* What a process knows of its upload u: k is its step, d the document, x  *)
(* the text it has, a the answers and c the chunks that are stored.        *)
Knows(k, u, d, x, a, c) ==
    /\ k # "free" => u # I!None /\ a[u] = "none"
    /\ k \in Filed \/ (k \in {"open", "write"} /\ u \in Small) => d \in I!Upload
    /\ k \in {"page", "chunks"} => x \in I!Text
    /\ k = "answer" => x = "error" \/ x \in c[d]
    /\ k = "free" /\ u # I!None /\ a[u] = "whole" => d \in I!Upload /\ "whole" \in c[d]

AllKnow ==
    \A p \in Process : Knows(intake[p], upload[p], doc[p], extract[p], answered, cut)

(* No two processes have one upload, and only uploads that began are       *)
(* answered.                                                               *)
OwnUploads ==
    /\ \A p \in Process, q \in Process : upload[p] = upload[q] /\ upload[p] # I!None => p = q
    /\ \A p \in Process : upload[p] <= uploads
    /\ \A u \in I!Upload : answered[u] # "none" => u <= uploads

(* A process that is going to register a document found none. *)
Registering(k, u) == k \in {"exists", "move", "parse", "save"} \/ (k \in {"open", "write"} /\ u \in Small)
Pending == {p \in Process : Registering(intake[p], upload[p])}
Room == Len(rows) + Cardinality(Pending) <= Cardinality(Process)

IntakeInv == I!TypeOK /\ AllKnow /\ OwnUploads /\ Room

(* The processes are finitely many. *)
LEMMA Processes ==
    /\ IsFiniteSet(Process) /\ Cardinality(Process) \in Nat
    /\ \A T \in SUBSET Process :
          /\ IsFiniteSet(T) /\ Cardinality(T) \in Nat
          /\ Cardinality(T) <= Cardinality(Process)
<1>1. IsFiniteSet(Process)
    BY SurroundingsAssumption DEF SurroundingsAssumption, I!IntakeAssumption, I!IsFiniteSet, IsFiniteSet
<1>2. ASSUME NEW T, T \subseteq Process
      PROVE  IsFiniteSet(T) /\ Cardinality(T) \in Nat /\ Cardinality(T) <= Cardinality(Process)
    <2>1. IsFiniteSet(T) /\ Cardinality(T) <= Cardinality(Process)
        BY <1>1, <1>2, FS_Subset
    <2> QED
        BY <2>1, FS_CardinalityType
<1>3. Cardinality(Process) \in Nat
    BY <1>1, FS_CardinalityType
<1> QED
    BY <1>1, <1>2, <1>3

(* Nobody works at first. *)
LEMMA IntakeInit == I!Init => IntakeInv
<1> SUFFICES ASSUME I!Init PROVE IntakeInv
    OBVIOUS
<1> USE SurroundingsAssumption
    DEF SurroundingsAssumption, I!IntakeAssumption, I!Init, I!None
<1>1. I!TypeOK
    <2>1. /\ intake \in [Process -> {"free", "lookup", "exists", "open", "write", "move", "parse", "save",
                                     "read", "page", "chunks", "answer"}]
          /\ upload \in [Process -> I!Upload \cup {I!None}]
          /\ doc \in [Process -> I!Upload \cup {I!None}]
          /\ extract \in [Process -> I!Text \cup {"none"}]
        OBVIOUS
    <2>2. /\ shared \in I!Upload \cup {I!None} /\ stored \in I!Upload \cup {I!None}
          /\ torn \in [I!Upload -> I!Upload \cup {I!None}]
          /\ writes \in [I!Upload -> I!Upload \cup {I!None}]
        OBVIOUS
    <2>3. rows \in Seq(I!Upload)
        <3>1. <<>> \in Seq(I!Upload)
            OBVIOUS
        <3> QED
            BY <3>1
    <2>4. /\ content \in [I!Upload -> I!Text \cup {"none"}]
          /\ page \in [I!Upload -> I!Text \cup {"none"}]
          /\ cut \in [I!Upload -> SUBSET I!Text]
          /\ answered \in [I!Upload -> I!Text \cup {"none"}]
        OBVIOUS
    <2>5. uploads \in 0..MaxUploads /\ deaths \in 0..MaxDeaths
        OBVIOUS
    <2> QED
        BY <2>1, <2>2, <2>3, <2>4, <2>5 DEF I!TypeOK
<1>2. AllKnow
    BY DEF AllKnow, Knows, Filed
<1>3. OwnUploads
    BY DEF OwnUploads
<1>4. Room
    <2>1. Pending \subseteq Process /\ Len(rows) = 0
        BY DEF Pending
    <2> QED
        BY <2>1, Processes DEF Room
<1> QED
    BY <1>1, <1>2, <1>3, <1>4 DEF IntakeInv

-----------------------------------------------------------------------------
Steps == {"free", "lookup", "exists", "open", "write", "move", "parse", "save",
          "read", "page", "chunks", "answer"}

(* What a process knows stays true when others answer and add chunks. *)
LEMMA KnowsMore ==
    ASSUME NEW k, NEW u, NEW d, NEW x, NEW a, NEW b, NEW c, NEW e,
           Knows(k, u, d, x, a, c), u # I!None => b[u] = a[u],
           d \in I!Upload => c[d] \subseteq e[d]
    PROVE  Knows(k, u, d, x, b, e)
<1>1. k = "answer" => k \in Filed
    BY DEF Filed
<1>2. k = "answer" => d \in I!Upload /\ (x = "error" \/ x \in c[d])
    BY <1>1 DEF Knows
<1>3. k = "answer" => x = "error" \/ x \in e[d]
    BY <1>2
<1>4. k # "free" => u # I!None /\ b[u] = "none"
    BY DEF Knows
<1>5. k = "free" /\ u # I!None /\ b[u] = "whole" => d \in I!Upload /\ "whole" \in e[d]
    BY DEF Knows
<1> QED
    BY <1>3, <1>4, <1>5 DEF Knows

(* What a process does to its own variables, and to the shared tables.     *)
LEMMA ProcessStep ==
    ASSUME I!TypeOK, AllKnow, NEW p \in Process,
           NEW k \in Steps, NEW u \in I!Upload \cup {I!None}, NEW d \in I!Upload \cup {I!None},
           NEW x \in I!Text \cup {"none"},
           intake' = [intake EXCEPT ![p] = k], upload' = [upload EXCEPT ![p] = u],
           doc' = [doc EXCEPT ![p] = d], extract' = [extract EXCEPT ![p] = x],
           \A e \in I!Upload : cut[e] \subseteq cut'[e],
           \A q \in Process \ {p} :
              upload[q] # I!None => answered'[upload[q]] = answered[upload[q]],
           Knows(k, u, d, x, answered', cut')
    PROVE  /\ AllKnow'
           /\ intake' \in [Process -> Steps] /\ extract' \in [Process -> I!Text \cup {"none"}]
           /\ upload' \in [Process -> I!Upload \cup {I!None}]
           /\ doc' \in [Process -> I!Upload \cup {I!None}]
<1>1. ASSUME NEW q \in Process
      PROVE  Knows(intake'[q], upload'[q], doc'[q], extract'[q], answered', cut')
    <2>1. CASE q = p
        <3>1. intake'[q] = k /\ upload'[q] = u /\ doc'[q] = d /\ extract'[q] = x
            BY <2>1 DEF I!TypeOK
        <3> QED
            BY <3>1
    <2>2. CASE q # p
        <3>1. /\ intake'[q] = intake[q] /\ upload'[q] = upload[q]
              /\ doc'[q] = doc[q] /\ extract'[q] = extract[q]
            BY <2>2 DEF I!TypeOK
        <3>2. Knows(intake[q], upload[q], doc[q], extract[q], answered, cut)
            BY DEF AllKnow
        <3>3. upload[q] # I!None => answered'[upload[q]] = answered[upload[q]]
            BY <2>2
        <3>4. doc[q] \in I!Upload => cut[doc[q]] \subseteq cut'[doc[q]]
            OBVIOUS
        <3>5. Knows(intake[q], upload[q], doc[q], extract[q], answered', cut')
            BY <3>2, <3>3, <3>4, KnowsMore
        <3> QED
            BY <3>1, <3>5
    <2> QED
        BY <2>1, <2>2
<1>2. /\ intake' \in [Process -> Steps] /\ extract' \in [Process -> I!Text \cup {"none"}]
      /\ upload' \in [Process -> I!Upload \cup {I!None}]
      /\ doc' \in [Process -> I!Upload \cup {I!None}]
    BY DEF I!TypeOK, Steps
<1> QED
    BY <1>1, <1>2 DEF AllKnow

(* What a process has of its own. *)
LEMMA ProcessAlone ==
    ASSUME I!TypeOK, NEW p \in Process
    PROVE  /\ intake[p] \in Steps
           /\ upload = [upload EXCEPT ![p] = @] /\ upload[p] \in I!Upload \cup {I!None}
           /\ doc = [doc EXCEPT ![p] = @] /\ doc[p] \in I!Upload \cup {I!None}
           /\ extract = [extract EXCEPT ![p] = @] /\ extract[p] \in I!Text \cup {"none"}
BY DEF I!TypeOK, Steps

(* Nobody who registers a document is added after there is one. *)
LEMMA RoomStays ==
    ASSUME I!TypeOK, Room, NEW p \in Process, NEW k \in Steps, NEW u \in I!Upload \cup {I!None},
           intake' = [intake EXCEPT ![p] = k], upload' = [upload EXCEPT ![p] = u],
           rows' = rows,
           rows = <<>> \/ (Registering(k, u) => Registering(intake[p], upload[p]))
    PROVE  Room'
<1>1. Pending' \subseteq Process
    BY DEF Pending
<1>2. Len(rows) \in Nat
    BY DEF I!TypeOK
<1>3. CASE rows = <<>>
    <2>1. Len(rows') = 0
        BY <1>3
    <2>2. Cardinality(Pending') \in Nat /\ Cardinality(Pending') <= Cardinality(Process)
        BY <1>1, Processes
    <2>3. Len(rows') + Cardinality(Pending') <= Cardinality(Process)
        BY <2>1, <2>2, Processes
    <2> QED
        BY <2>3 DEF Room
<1>4. CASE Registering(k, u) => Registering(intake[p], upload[p])
    <2>1. Pending' \subseteq Pending
        <3> SUFFICES ASSUME NEW q \in Process, Registering(intake'[q], upload'[q])
                     PROVE  Registering(intake[q], upload[q])
            BY DEF Pending
        <3>1. intake'[q] = (IF q = p THEN k ELSE intake[q]) /\ upload'[q] = (IF q = p THEN u ELSE upload[q])
            BY DEF I!TypeOK
        <3>2. CASE q = p
            <4>1. intake'[q] = k /\ upload'[q] = u
                BY <3>1, <3>2
            <4> QED
                BY <1>4, <3>2, <4>1
        <3>3. CASE q # p
            <4>1. intake'[q] = intake[q] /\ upload'[q] = upload[q]
                BY <3>1, <3>3
            <4> QED
                BY <4>1
        <3> QED
            BY <3>2, <3>3
    <2>2. Pending \subseteq Process
        BY DEF Pending
    <2>3. IsFiniteSet(Pending) /\ Cardinality(Pending) \in Nat
        BY <2>2, Processes
    <2>4. Cardinality(Pending') \in Nat /\ Cardinality(Pending') <= Cardinality(Pending)
        BY <2>1, <2>3, FS_Subset, FS_CardinalityType
    <2>5. Len(rows) + Cardinality(Pending) <= Cardinality(Process)
        BY DEF Room
    <2>6. Len(rows') + Cardinality(Pending') <= Cardinality(Process)
        BY <1>2, <2>3, <2>4, <2>5, Processes
    <2> QED
        BY <2>6 DEF Room
<1> QED
    BY <1>3, <1>4

(* A process that goes on with its upload, and changes neither the rows    *)
(* nor the answers.                                                        *)
LEMMA Onward ==
    ASSUME IntakeInv, NEW p \in Process,
           NEW k \in Steps, NEW d \in I!Upload \cup {I!None}, NEW x \in I!Text \cup {"none"},
           intake' = [intake EXCEPT ![p] = k],
           doc' = [doc EXCEPT ![p] = d], extract' = [extract EXCEPT ![p] = x],
           UNCHANGED <<upload, rows, answered, uploads>>,
           \A e \in I!Upload : cut[e] \subseteq cut'[e],
           intake[p] # "free",
           k \in Filed \/ (k \in {"open", "write"} /\ upload[p] \in Small) => d \in I!Upload,
           k \in {"page", "chunks"} => x \in I!Text,
           k = "answer" => x = "error" \/ x \in cut'[d],
           rows = <<>> \/ (Registering(k, upload[p]) => Registering(intake[p], upload[p]))
    PROVE  /\ AllKnow' /\ OwnUploads' /\ Room'
           /\ intake' \in [Process -> Steps] /\ extract' \in [Process -> I!Text \cup {"none"}]
           /\ upload' \in [Process -> I!Upload \cup {I!None}]
           /\ doc' \in [Process -> I!Upload \cup {I!None}]
<1>0. I!TypeOK /\ AllKnow /\ OwnUploads /\ Room
    BY DEF IntakeInv
<1>1. upload = [upload EXCEPT ![p] = @] /\ upload[p] \in I!Upload \cup {I!None}
    BY <1>0, ProcessAlone
<1>2. upload[p] # I!None /\ answered[upload[p]] = "none"
    <2>1. Knows(intake[p], upload[p], doc[p], extract[p], answered, cut)
        BY <1>0 DEF AllKnow
    <2> QED
        BY <2>1 DEF Knows
<1>3. Knows(k, upload[p], d, x, answered', cut')
    BY <1>2 DEF Knows
<1>4. upload' = [upload EXCEPT ![p] = upload[p]]
    BY <1>1
<1>5. \A q \in Process \ {p} :
          upload[q] # I!None => answered'[upload[q]] = answered[upload[q]]
    OBVIOUS
<1>6. /\ AllKnow'
      /\ intake' \in [Process -> Steps] /\ extract' \in [Process -> I!Text \cup {"none"}]
      /\ upload' \in [Process -> I!Upload \cup {I!None}]
      /\ doc' \in [Process -> I!Upload \cup {I!None}]
    BY <1>0, <1>1, <1>3, <1>4, <1>5, ProcessStep
<1>7. OwnUploads'
    BY <1>0 DEF OwnUploads
<1>8. Room'
    BY <1>0, <1>1, <1>4, RoomStays
<1> QED
    BY <1>6, <1>7, <1>8

(* The files keep their types. *)
FilesTyped ==
    /\ shared \in I!Upload \cup {I!None} /\ stored \in I!Upload \cup {I!None}
    /\ torn \in [I!Upload -> I!Upload \cup {I!None}]
    /\ writes \in [I!Upload -> I!Upload \cup {I!None}]

TablesTyped ==
    /\ rows \in Seq(I!Upload)
    /\ content \in [I!Upload -> I!Text \cup {"none"}]
    /\ page \in [I!Upload -> I!Text \cup {"none"}]
    /\ cut \in [I!Upload -> SUBSET I!Text]
    /\ answered \in [I!Upload -> I!Text \cup {"none"}]

(* The type invariant, in parts. *)
LEMMA TypedInParts ==
    I!TypeOK <=>
        /\ FilesTyped /\ TablesTyped
        /\ intake \in [Process -> Steps] /\ extract \in [Process -> I!Text \cup {"none"}]
        /\ upload \in [Process -> I!Upload \cup {I!None}]
        /\ doc \in [Process -> I!Upload \cup {I!None}]
        /\ uploads \in 0..MaxUploads /\ deaths \in 0..MaxDeaths
BY DEF I!TypeOK, FilesTyped, TablesTyped, Steps

(* So it is after a step. *)
LEMMA TypedNext ==
    ASSUME FilesTyped', TablesTyped',
           intake' \in [Process -> Steps], extract' \in [Process -> I!Text \cup {"none"}],
           upload' \in [Process -> I!Upload \cup {I!None}],
           doc' \in [Process -> I!Upload \cup {I!None}],
           uploads' \in 0..MaxUploads, deaths' \in 0..MaxDeaths
    PROVE  I!TypeOK'
BY DEF I!TypeOK, FilesTyped, TablesTyped, Steps

(* A process takes an upload that nobody had. *)
LEMMA BeginInv ==
    ASSUME IntakeInv, NEW p \in Process, I!Begin(p)
    PROVE  IntakeInv'
<1> USE SurroundingsAssumption DEF SurroundingsAssumption, I!IntakeAssumption
<1> DEFINE u == uploads + 1
           k == IF u \in Small THEN "lookup" ELSE "open"
<1>0. I!TypeOK /\ AllKnow /\ OwnUploads /\ Room
    BY DEF IntakeInv
<1>1. /\ intake[p] = "free" /\ intake' = [intake EXCEPT ![p] = k] /\ upload' = [upload EXCEPT ![p] = u]
      /\ uploads < MaxUploads /\ uploads' = u
      /\ UNCHANGED <<doc, extract, I!files, I!tables, answered, deaths>>
    BY DEF I!Begin, I!Goes
<1>2. u \in I!Upload /\ u # I!None /\ k \in Steps /\ uploads \in Nat /\ u \in 0..MaxUploads
    BY <1>0, <1>1 DEF I!TypeOK, I!Upload, I!None, Steps
<1>3. answered[u] = "none" /\ \A q \in Process : upload[q] # u
    BY <1>0, <1>2 DEF OwnUploads
<1>4. \/ k = "lookup" /\ u \in Small
      \/ k = "open" /\ u \notin Small
    OBVIOUS
<1>5. /\ doc = [doc EXCEPT ![p] = @] /\ doc[p] \in I!Upload \cup {I!None}
      /\ extract = [extract EXCEPT ![p] = @] /\ extract[p] \in I!Text \cup {"none"}
    BY <1>0, ProcessAlone
<1>6. OwnUploads'
    <2>1. \A q \in Process : upload'[q] = IF q = p THEN u ELSE upload[q]
        BY <1>0, <1>1 DEF I!TypeOK
    <2>2. \A q \in Process : upload[q] \in Nat /\ upload[q] <= uploads
        BY <1>0 DEF I!TypeOK, OwnUploads, I!Upload, I!None
    <2>3. \A v \in I!Upload : v \in Nat
        BY DEF I!Upload
    <2>4. answered' = answered
        BY <1>1
    <2>5. uploads' = uploads + 1 /\ uploads \in Nat
        BY <1>1, <1>2
    <2>6. \A q \in Process : upload'[q] <= uploads'
        BY <2>1, <2>2, <2>5
    <2>7. \A v \in I!Upload : answered'[v] # "none" => v <= uploads'
        BY <1>0, <2>3, <2>4, <2>5 DEF OwnUploads
    <2>8. \A q \in Process, r \in Process : upload'[q] = upload'[r] /\ upload'[q] # I!None => q = r
        BY <1>0, <1>3, <2>1 DEF OwnUploads
    <2> QED
        BY <2>6, <2>7, <2>8 DEF OwnUploads
<1> HIDE DEF u, k
<1>7. Knows(k, u, doc[p], extract[p], answered', cut')
    <2>1. answered' = answered /\ cut' = cut
        BY <1>1 DEF I!tables
    <2> QED
        BY <1>2, <1>3, <1>4, <2>1 DEF Knows, Filed
<1>8. /\ \A e \in I!Upload : cut[e] \subseteq cut'[e]
      /\ \A q \in Process \ {p} : upload[q] # I!None => answered'[upload[q]] = answered[upload[q]]
      /\ doc' = [doc EXCEPT ![p] = doc[p]] /\ extract' = [extract EXCEPT ![p] = extract[p]]
      /\ rows' = rows
    BY <1>1, <1>5 DEF I!tables
<1>9. /\ AllKnow'
      /\ intake' \in [Process -> Steps] /\ extract' \in [Process -> I!Text \cup {"none"}]
      /\ upload' \in [Process -> I!Upload \cup {I!None}]
      /\ doc' \in [Process -> I!Upload \cup {I!None}]
    <2>1. u \in I!Upload \cup {I!None}
        BY <1>2
    <2>2. intake' = [intake EXCEPT ![p] = k] /\ upload' = [upload EXCEPT ![p] = u]
        BY <1>1
    <2> QED
        BY <1>0, <1>2, <1>5, <1>7, <1>8, <2>1, <2>2, ProcessStep
<1>10. Room'
    <2>1. ~Registering(k, u)
        BY <1>4 DEF Registering
    <2> QED
        BY <1>0, <1>1, <1>2, <1>8, <2>1, RoomStays
<1>11. I!TypeOK'
    <2>1. FilesTyped' /\ TablesTyped' /\ deaths' \in 0..MaxDeaths
        BY <1>0, <1>1 DEF I!TypeOK, FilesTyped, TablesTyped, I!files, I!tables
    <2> QED
        BY <1>1, <1>2, <1>9, <2>1, TypedNext
<1> QED
    BY <1>6, <1>9, <1>10, <1>11 DEF IntakeInv

(* A step that goes on and keeps the types keeps the invariant. *)
LEMMA OnwardInv ==
    ASSUME IntakeInv, NEW p \in Process,
           NEW k \in Steps, NEW d \in I!Upload \cup {I!None}, NEW x \in I!Text \cup {"none"},
           intake' = [intake EXCEPT ![p] = k],
           doc' = [doc EXCEPT ![p] = d], extract' = [extract EXCEPT ![p] = x],
           UNCHANGED <<upload, rows, answered, uploads>>, deaths' \in 0..MaxDeaths,
           \A e \in I!Upload : cut[e] \subseteq cut'[e],
           intake[p] # "free",
           k \in Filed \/ (k \in {"open", "write"} /\ upload[p] \in Small) => d \in I!Upload,
           k \in {"page", "chunks"} => x \in I!Text,
           k = "answer" => x = "error" \/ x \in cut'[d],
           rows = <<>> \/ (Registering(k, upload[p]) => Registering(intake[p], upload[p])),
           FilesTyped', TablesTyped'
    PROVE  IntakeInv'
<1>1. /\ AllKnow' /\ OwnUploads' /\ Room'
      /\ intake' \in [Process -> Steps] /\ extract' \in [Process -> I!Text \cup {"none"}]
      /\ upload' \in [Process -> I!Upload \cup {I!None}]
      /\ doc' \in [Process -> I!Upload \cup {I!None}]
    BY Onward
<1>2. uploads' \in 0..MaxUploads
    BY DEF IntakeInv, I!TypeOK
<1>3. I!TypeOK'
    BY <1>1, <1>2, TypedNext
<1> QED
    BY <1>1, <1>3 DEF IntakeInv

(* The file of an upload changes hands. *)
LEMMA FilesNext ==
    ASSUME I!TypeOK, NEW p \in Process, upload[p] # I!None,
           I!Open(p) \/ I!Write(p) \/ I!MoveStream(p) \/ I!MoveShared(p) \/ I!Die(p)
    PROVE  FilesTyped'
<1> DEFINE V == I!Upload \cup {I!None}
<1>0. /\ upload[p] \in V /\ upload[p] \in I!Upload /\ shared \in V /\ stored \in V
      /\ torn \in [I!Upload -> V] /\ writes \in [I!Upload -> V] /\ I!None \in V
    BY DEF I!TypeOK
<1> HIDE DEF V
<1>g. \A f \in [I!Upload -> V], i, v \in V : [f EXCEPT ![i] = v] \in [I!Upload -> V]
    OBVIOUS
<1>1. CASE I!Open(p)
    <2> DEFINE file == IF upload[p] \in Small /\ shared # I!None THEN shared ELSE upload[p]
    <2>1. file \in V
        BY <1>0
    <2>2. /\ shared' \in {shared, file} /\ stored' = stored
          /\ writes' \in {writes, [writes EXCEPT ![upload[p]] = file]}
          /\ torn' \in {torn, [torn EXCEPT ![file] = upload[p]]}
        BY <1>1 DEF I!Open
    <2> HIDE DEF file
    <2>3. shared' \in V /\ stored' \in V
        BY <1>0, <2>1, <2>2
    <2>4. writes' \in [I!Upload -> V] /\ torn' \in [I!Upload -> V]
        BY <1>0, <1>g, <2>1, <2>2
    <2> QED
        BY <2>3, <2>4 DEF FilesTyped, V
<1>2. CASE I!Write(p)
    <2> DEFINE w == writes[upload[p]]
    <2>1. /\ shared' = shared /\ stored' = stored
          /\ writes' = [writes EXCEPT ![upload[p]] = I!None]
          /\ torn' = [torn EXCEPT ![w] = IF torn[w] = upload[p] THEN I!None ELSE torn[w]]
        BY <1>2 DEF I!Write
    <2>2. w \in V
        BY <1>0
    <2> HIDE DEF w
    <2>3. torn' \in [I!Upload -> V]
        <3>1. CASE w \in I!Upload
            <4>1. torn[w] \in V
                BY <1>0, <3>1
            <4> QED
                BY <1>0, <1>g, <2>1, <4>1
        <3>2. CASE w \notin I!Upload
            <4>1. torn' = torn
                BY <1>0, <2>1, <3>2
            <4> QED
                BY <1>0, <4>1
        <3> QED
            BY <3>1, <3>2
    <2>4. writes' \in [I!Upload -> V]
        BY <1>0, <1>g, <2>1
    <2> QED
        BY <1>0, <2>1, <2>3, <2>4 DEF FilesTyped, V
<1>3. CASE I!MoveStream(p)
    BY <1>0, <1>3 DEF I!MoveStream, FilesTyped, V
<1>4. CASE I!MoveShared(p)
    BY <1>0, <1>4 DEF I!MoveShared, FilesTyped, V
<1>5. CASE I!Die(p)
    BY <1>0, <1>g, <1>5 DEF I!Die, FilesTyped, V
<1> QED
    BY <1>1, <1>2, <1>3, <1>4, <1>5

(* A document is registered by one of those who found none. *)
LEMMA SaveInv ==
    ASSUME IntakeInv, NEW p \in Process, I!Save(p)
    PROVE  IntakeInv'
<1>0. I!TypeOK /\ AllKnow /\ OwnUploads /\ Room
    BY DEF IntakeInv
<1>1. /\ intake[p] = "save" /\ intake' = [intake EXCEPT ![p] = "read"]
      /\ rows' = Append(rows, doc[p])
      /\ content' = [content EXCEPT ![doc[p]] = IF extract[p] = "error" THEN "none" ELSE extract[p]]
      /\ UNCHANGED <<page, cut, upload, doc, extract, I!files, answered, uploads, deaths>>
    BY DEF I!Save, I!Goes, I!bounds
<1>2. /\ upload = [upload EXCEPT ![p] = @] /\ upload[p] \in I!Upload \cup {I!None}
      /\ doc = [doc EXCEPT ![p] = @] /\ doc[p] \in I!Upload \cup {I!None}
      /\ extract = [extract EXCEPT ![p] = @] /\ extract[p] \in I!Text \cup {"none"}
    BY <1>0, ProcessAlone
<1>3. doc[p] \in I!Upload /\ upload[p] # I!None /\ answered[upload[p]] = "none"
    BY <1>0, <1>1 DEF AllKnow, Knows, Filed
<1>4. Knows("read", upload[p], doc[p], extract[p], answered', cut')
    BY <1>1, <1>3 DEF Knows
<1>5. /\ AllKnow'
      /\ intake' \in [Process -> Steps] /\ extract' \in [Process -> I!Text \cup {"none"}]
      /\ upload' \in [Process -> I!Upload \cup {I!None}]
      /\ doc' \in [Process -> I!Upload \cup {I!None}]
    <2>1. "read" \in Steps
        BY DEF Steps
    <2>2. /\ upload' = [upload EXCEPT ![p] = upload[p]] /\ doc' = [doc EXCEPT ![p] = doc[p]]
          /\ extract' = [extract EXCEPT ![p] = extract[p]]
        BY <1>1, <1>2
    <2>3. /\ \A e \in I!Upload : cut[e] \subseteq cut'[e]
          /\ \A q \in Process \ {p} : upload[q] # I!None => answered'[upload[q]] = answered[upload[q]]
        BY <1>1
    <2>4. /\ intake' = [intake EXCEPT ![p] = "read"] /\ upload[p] \in I!Upload \cup {I!None}
          /\ doc[p] \in I!Upload \cup {I!None} /\ extract[p] \in I!Text \cup {"none"}
        BY <1>1, <1>2
    <2> QED
        BY <1>0, <1>4, <2>1, <2>2, <2>3, <2>4, ProcessStep
<1>6. OwnUploads'
    BY <1>0, <1>1 DEF OwnUploads
<1>7. I!TypeOK'
    <2>1. FilesTyped' /\ uploads' \in 0..MaxUploads /\ deaths' \in 0..MaxDeaths
        BY <1>0, <1>1 DEF I!TypeOK, FilesTyped, I!files
    <2>2. rows' \in Seq(I!Upload)
        BY <1>0, <1>1, <1>3 DEF I!TypeOK
    <2>3. content' \in [I!Upload -> I!Text \cup {"none"}]
        BY <1>0, <1>1, <1>2, <1>3 DEF I!TypeOK
    <2>4. TablesTyped'
        BY <1>0, <1>1, <2>2, <2>3 DEF I!TypeOK, TablesTyped
    <2> QED
        BY <1>5, <2>1, <2>4, TypedNext
<1>8. Room'
    <2>1. Len(rows') = Len(rows) + 1 /\ Len(rows) \in Nat
        BY <1>0, <1>1, <1>3 DEF I!TypeOK
    <2>2. p \in Pending
        BY <1>1 DEF Pending, Registering
    <2>3. Pending' \subseteq Pending \ {p}
        <3> SUFFICES ASSUME NEW q \in Process, Registering(intake'[q], upload'[q])
                     PROVE  q # p /\ Registering(intake[q], upload[q])
            BY DEF Pending
        <3>1. intake'[q] = (IF q = p THEN "read" ELSE intake[q]) /\ upload'[q] = upload[q]
            BY <1>0, <1>1 DEF I!TypeOK
        <3>2. CASE q = p
            <4>1. intake'[q] = "read"
                BY <3>1, <3>2
            <4> QED
                BY <4>1 DEF Registering
        <3>3. CASE q # p
            <4>1. intake'[q] = intake[q] /\ upload'[q] = upload[q]
                BY <3>1, <3>3
            <4> QED
                BY <3>3, <4>1
        <3> QED
            BY <3>2, <3>3
    <2>4. IsFiniteSet(Pending) /\ Cardinality(Pending) \in Nat
        <3>1. Pending \subseteq Process
            BY DEF Pending
        <3> QED
            BY <3>1, Processes
    <2>5. /\ IsFiniteSet(Pending \ {p}) /\ Cardinality(Pending \ {p}) = Cardinality(Pending) - 1
        BY <2>2, <2>4, FS_RemoveElement
    <2>6. Cardinality(Pending') \in Nat /\ Cardinality(Pending') <= Cardinality(Pending \ {p})
        BY <2>3, <2>5, FS_Subset, FS_CardinalityType
    <2>7. Len(rows) + Cardinality(Pending) <= Cardinality(Process)
        BY <1>0 DEF Room
    <2>8. Len(rows') + Cardinality(Pending') <= Cardinality(Process)
        BY <2>1, <2>4, <2>5, <2>6, <2>7, Processes
    <2> QED
        BY <2>8 DEF Room
<1> QED
    BY <1>5, <1>6, <1>7, <1>8 DEF IntakeInv

(* An answer says what was extracted, and is the first of its upload. *)
LEMMA AnswerInv ==
    ASSUME IntakeInv, NEW p \in Process, I!Answer(p)
    PROVE  IntakeInv'
<1> DEFINE u == upload[p]
           x == extract[p]
<1>0. I!TypeOK /\ AllKnow /\ OwnUploads /\ Room
    BY DEF IntakeInv
<1>1. /\ intake[p] = "answer" /\ intake' = [intake EXCEPT ![p] = "free"]
      /\ answered' = [answered EXCEPT ![u] = x]
      /\ UNCHANGED <<upload, doc, extract, I!files, I!tables, uploads, deaths>>
    BY DEF I!Answer, I!Goes, I!bounds
<1>2. /\ upload = [upload EXCEPT ![p] = u] /\ u \in I!Upload \cup {I!None}
      /\ doc = [doc EXCEPT ![p] = @] /\ doc[p] \in I!Upload \cup {I!None}
      /\ extract = [extract EXCEPT ![p] = x] /\ x \in I!Text \cup {"none"}
    BY <1>0, ProcessAlone
<1>3. Knows("answer", u, doc[p], x, answered, cut)
    <2>1. Knows(intake[p], u, doc[p], x, answered, cut)
        BY <1>0 DEF AllKnow
    <2> QED
        BY <1>1, <2>1
<1>4. u # I!None /\ u \in I!Upload /\ doc[p] \in I!Upload /\ (x = "error" \/ x \in cut[doc[p]])
    BY <1>2, <1>3 DEF Knows, Filed
<1>5. \A q \in Process \ {p} : upload[q] # I!None => upload[q] # u
    BY <1>0, <1>4 DEF OwnUploads
<1>u. \A q \in Process : upload[q] \in I!Upload \cup {I!None}
    BY <1>0 DEF I!TypeOK
<1>6. answered \in [I!Upload -> I!Text \cup {"none"}]
    BY <1>0 DEF I!TypeOK
<1> HIDE DEF u, x
<1>7. answered'[u] = x
    BY <1>1, <1>4, <1>6
<1>8. \A q \in Process \ {p} : upload[q] # I!None => answered'[upload[q]] = answered[upload[q]]
    BY <1>1, <1>5, <1>6, <1>u
<1>9. cut' = cut
    BY <1>1 DEF I!tables
<1>10. Knows("free", u, doc[p], x, answered', cut')
    BY <1>4, <1>7, <1>9 DEF Knows, Filed
<1>11. /\ AllKnow'
       /\ intake' \in [Process -> Steps] /\ extract' \in [Process -> I!Text \cup {"none"}]
       /\ upload' \in [Process -> I!Upload \cup {I!None}]
       /\ doc' \in [Process -> I!Upload \cup {I!None}]
    <2>1. "free" \in Steps /\ \A e \in I!Upload : cut[e] \subseteq cut'[e]
        BY <1>9 DEF Steps
    <2>2. /\ upload' = [upload EXCEPT ![p] = u] /\ doc' = [doc EXCEPT ![p] = doc[p]]
          /\ extract' = [extract EXCEPT ![p] = x]
        BY <1>1, <1>2
    <2>3. /\ intake' = [intake EXCEPT ![p] = "free"] /\ u \in I!Upload \cup {I!None}
          /\ doc[p] \in I!Upload \cup {I!None} /\ x \in I!Text \cup {"none"}
        BY <1>1, <1>2
    <2> QED
        BY <1>0, <1>8, <1>10, <2>1, <2>2, <2>3, ProcessStep
<1>12. OwnUploads'
    <2>1. \A v \in I!Upload : answered'[v] # "none" => v <= uploads'
        <3> SUFFICES ASSUME NEW v \in I!Upload, answered'[v] # "none" PROVE v <= uploads
            BY <1>1
        <3>1. CASE v = u
            BY <1>0, <3>1 DEF OwnUploads, u
        <3>2. CASE v # u
            <4>1. answered[v] # "none"
                BY <1>1, <1>6, <3>2
            <4> QED
                BY <1>0, <4>1 DEF OwnUploads
        <3> QED
            BY <3>1, <3>2
    <2> QED
        BY <1>0, <1>1, <2>1 DEF OwnUploads
<1>13. Room'
    <2>1. ~Registering("free", u) /\ "free" \in Steps
        BY DEF Registering, Steps
    <2>2. upload' = [upload EXCEPT ![p] = u] /\ rows' = rows
        BY <1>1, <1>2 DEF I!tables
    <2> QED
        BY <1>0, <1>1, <1>2, <2>1, <2>2, RoomStays
<1>14. I!TypeOK'
    <2>1. FilesTyped' /\ uploads' \in 0..MaxUploads /\ deaths' \in 0..MaxDeaths
        BY <1>0, <1>1 DEF I!TypeOK, FilesTyped, I!files
    <2>2. answered' \in [I!Upload -> I!Text \cup {"none"}]
        BY <1>1, <1>2, <1>6
    <2>3. TablesTyped'
        BY <1>0, <1>1, <2>2 DEF I!TypeOK, TablesTyped, I!tables
    <2> QED
        BY <1>11, <2>1, <2>3, TypedNext
<1> QED
    BY <1>11, <1>12, <1>13, <1>14 DEF IntakeInv

(* The other steps of a process. *)
LEMMA ProcessNext ==
    ASSUME IntakeInv, NEW p \in Process, I!Begin(p) \/ I!Proceed(p) \/ I!Die(p)
    PROVE  IntakeInv'
<1>0. I!TypeOK /\ Knows(intake[p], upload[p], doc[p], extract[p], answered, cut)
    BY DEF IntakeInv, AllKnow
<1>1. /\ intake[p] \in Steps
      /\ doc = [doc EXCEPT ![p] = @] /\ doc[p] \in I!Upload \cup {I!None}
      /\ extract = [extract EXCEPT ![p] = @] /\ extract[p] \in I!Text \cup {"none"}
      /\ upload[p] \in I!Upload \cup {I!None}
    BY <1>0, ProcessAlone
<1>2. intake[p] # "free" => upload[p] # I!None
    BY <1>0 DEF Knows
<1>3. /\ FilesTyped /\ TablesTyped /\ uploads \in 0..MaxUploads /\ deaths \in 0..MaxDeaths
    BY <1>0, TypedInParts
<1>t. /\ UNCHANGED I!files => FilesTyped'
      /\ UNCHANGED <<I!tables, answered>> => TablesTyped'
    BY <1>3 DEF FilesTyped, TablesTyped, I!files, I!tables
<1>4. ASSUME NEW k \in Steps, NEW d \in I!Upload \cup {I!None}, NEW x \in I!Text \cup {"none"},
             intake' = [intake EXCEPT ![p] = k],
             doc' = [doc EXCEPT ![p] = d], extract' = [extract EXCEPT ![p] = x],
             UNCHANGED <<upload, rows, answered, uploads>>, deaths' \in 0..MaxDeaths,
             \A e \in I!Upload : cut[e] \subseteq cut'[e],
             intake[p] # "free",
             k \in Filed \/ (k \in {"open", "write"} /\ upload[p] \in Small) => d \in I!Upload,
             k \in {"page", "chunks"} => x \in I!Text,
             k = "answer" => x = "error" \/ x \in cut'[d],
             rows = <<>> \/ (Registering(k, upload[p]) => Registering(intake[p], upload[p])),
             FilesTyped', TablesTyped'
      PROVE  IntakeInv'
    BY <1>4, OnwardInv
<1>5. ASSUME NEW k \in Steps, intake' = [intake EXCEPT ![p] = k],
             UNCHANGED <<upload, doc, extract, I!tables, answered, uploads>>, deaths' \in 0..MaxDeaths,
             intake[p] # "free",
             k \in Filed \/ (k \in {"open", "write"} /\ upload[p] \in Small) => doc[p] \in I!Upload,
             k \notin {"page", "chunks", "answer"},
             rows = <<>> \/ (Registering(k, upload[p]) => Registering(intake[p], upload[p])),
             FilesTyped'
      PROVE  IntakeInv'
    <2>1. doc' = [doc EXCEPT ![p] = doc[p]] /\ extract' = [extract EXCEPT ![p] = extract[p]]
        BY <1>1, <1>5
    <2>2. rows' = rows /\ (\A e \in I!Upload : cut[e] \subseteq cut'[e]) /\ TablesTyped'
        BY <1>5, <1>t DEF I!tables
    <2> QED
        BY <1>1, <1>4, <1>5, <2>1, <2>2
<1>6. CASE I!Begin(p)
    BY <1>6, BeginInv
<1>7. CASE I!Lookup(p)
    <2>1. /\ intake[p] = "lookup" /\ UNCHANGED <<upload, extract, answered, uploads, deaths>>
          /\ UNCHANGED I!files /\ UNCHANGED I!tables
        BY <1>7 DEF I!Lookup, I!Goes, I!bounds
    <2>2. /\ extract' = [extract EXCEPT ![p] = extract[p]] /\ rows' = rows /\ deaths' \in 0..MaxDeaths
          /\ \A e \in I!Upload : cut[e] \subseteq cut'[e]
          /\ FilesTyped' /\ TablesTyped' /\ intake[p] # "free"
        BY <1>1, <1>3, <1>t, <2>1 DEF I!tables
    <2>3. upload[p] \in I!Upload
        BY <1>1, <1>2, <2>1
    <2>4. CASE rows = <<>>
        <3> DEFINE k == IF upload[p] \in Small THEN "exists" ELSE "move"
        <3>1. k \in Steps /\ k \notin {"page", "chunks", "answer"}
            BY DEF Steps
        <3>2. intake' = [intake EXCEPT ![p] = k] /\ doc' = [doc EXCEPT ![p] = upload[p]]
            BY <1>7, <2>4 DEF I!Lookup, I!Goes
        <3> HIDE DEF k
        <3> QED
            BY <1>1, <1>4, <2>1, <2>2, <2>3, <2>4, <3>1, <3>2
    <2>5. CASE rows # <<>>
        <3> DEFINE d == rows[Len(rows)]
        <3>1. d \in I!Upload
            <4>1. rows \in Seq(I!Upload)
                BY <1>3 DEF TablesTyped
            <4>2. Len(rows) \in 1..Len(rows)
                BY <2>5, <4>1
            <4> QED
                BY <4>1, <4>2
        <3>2. intake' = [intake EXCEPT ![p] = "read"] /\ doc' = [doc EXCEPT ![p] = d]
            BY <1>7, <2>5 DEF I!Lookup, I!Goes
        <3>3. "read" \in Steps /\ ~Registering("read", upload[p])
            BY DEF Steps, Registering
        <3> HIDE DEF d
        <3>4. d \in I!Upload \cup {I!None}
            BY <3>1
        <3> QED
            BY <1>1, <1>4, <2>1, <2>2, <3>1, <3>2, <3>3, <3>4
    <2> QED
        BY <2>4, <2>5
<1>8. CASE I!Open(p)
    <2>1. FilesTyped'
        BY <1>0, <1>2, <1>8, FilesNext DEF I!Open, I!Goes
    <2>2. /\ intake[p] = "open" /\ intake' = [intake EXCEPT ![p] = "write"]
          /\ UNCHANGED <<upload, doc, extract, I!tables, answered, uploads, deaths>>
        BY <1>8 DEF I!Open, I!Goes, I!bounds
    <2>3. upload[p] \in Small => doc[p] \in I!Upload
        BY <1>0, <2>2 DEF Knows
    <2>4. "write" \in Steps /\ "write" \notin Filed /\ "write" \notin {"page", "chunks", "answer"}
        BY DEF Steps, Filed
    <2>5. Registering("write", upload[p]) => Registering(intake[p], upload[p])
        BY <2>2 DEF Registering
    <2> QED
        BY <1>3, <1>5, <2>1, <2>2, <2>3, <2>4, <2>5
<1>9. CASE I!Write(p)
    <2> DEFINE k == IF upload[p] \in Small THEN "move" ELSE "lookup"
    <2>1. FilesTyped'
        BY <1>0, <1>2, <1>9, FilesNext DEF I!Write, I!Goes
    <2>2. /\ intake[p] = "write" /\ intake' = [intake EXCEPT ![p] = k]
          /\ UNCHANGED <<upload, doc, extract, I!tables, answered, uploads, deaths>>
        BY <1>9 DEF I!Write, I!Goes, I!bounds
    <2>3. k \in Filed => doc[p] \in I!Upload
        BY <1>0, <2>2 DEF Knows, Filed
    <2>4. k \in Steps /\ k \notin {"page", "chunks", "answer", "exists", "open", "write"}
        BY DEF Steps
    <2>5. Registering(k, upload[p]) => Registering(intake[p], upload[p])
        BY <2>2 DEF Registering
    <2> HIDE DEF k
    <2> QED
        BY <1>3, <1>5, <2>1, <2>2, <2>3, <2>4, <2>5
<1>10. CASE I!MoveStream(p) \/ I!MoveShared(p)
    <2>1. FilesTyped'
        BY <1>0, <1>2, <1>10, FilesNext DEF I!MoveStream, I!MoveShared, I!Goes
    <2>2. /\ intake[p] = "move" /\ UNCHANGED <<upload, doc, extract, I!tables, answered, uploads, deaths>>
          /\ \/ intake' = [intake EXCEPT ![p] = "parse"]
             \/ intake' = [intake EXCEPT ![p] = "free"]
        BY <1>10 DEF I!MoveStream, I!MoveShared, I!Goes, I!bounds
    <2>3. doc[p] \in I!Upload /\ Registering(intake[p], upload[p])
        BY <1>0, <2>2 DEF Knows, Filed, Registering
    <2>4. /\ "parse" \in Steps /\ "free" \in Steps
          /\ "parse" \notin {"page", "chunks", "answer"} /\ "free" \notin {"page", "chunks", "answer"}
        BY DEF Steps
    <2> QED
        BY <1>3, <1>5, <2>1, <2>2, <2>3, <2>4
<1>11. CASE I!Parse(p) \/ I!Read(p)
    <2>1. PICK k \in {"save", "page"}, x \in I!Text :
              /\ intake' = [intake EXCEPT ![p] = k] /\ extract' = [extract EXCEPT ![p] = x]
              /\ k = "save" => intake[p] = "parse"
              /\ intake[p] \in {"parse", "read"}
              /\ UNCHANGED <<upload, doc, answered, uploads, deaths>>
              /\ UNCHANGED I!files /\ UNCHANGED I!tables
        <3>1. I!Parsed \subseteq I!Text
            BY DEF I!Parsed, I!Text
        <3>2. CASE I!Parse(p)
            BY <3>1, <3>2 DEF I!Parse, I!Goes, I!bounds
        <3>3. CASE I!Read(p)
            <4>1. doc[p] \in I!Upload
                BY <1>0, <3>3 DEF Knows, Filed, I!Read, I!Goes
            <4>2. content[doc[p]] # "none" => content[doc[p]] \in I!Text
                BY <1>3, <4>1 DEF TablesTyped
            <4> QED
                BY <3>1, <3>3, <4>2 DEF I!Read, I!Goes, I!bounds
        <3> QED
            BY <1>11, <3>2, <3>3
    <2>2. doc[p] \in I!Upload
        BY <1>0, <2>1 DEF Knows, Filed
    <2>3. doc' = [doc EXCEPT ![p] = doc[p]] /\ rows' = rows /\ (\A e \in I!Upload : cut[e] \subseteq cut'[e])
          /\ FilesTyped' /\ TablesTyped' /\ deaths' \in 0..MaxDeaths
        BY <1>1, <1>3, <1>t, <2>1 DEF I!tables
    <2>4. k \in Steps /\ k # "answer" /\ intake[p] # "free" /\ x \in I!Text \cup {"none"}
        BY <2>1 DEF Steps
    <2>5. Registering(k, upload[p]) => Registering(intake[p], upload[p])
        BY <2>1 DEF Registering
    <2> QED
        BY <1>1, <1>4, <2>1, <2>2, <2>3, <2>4, <2>5
<1>12. CASE I!Save(p)
    BY <1>12, SaveInv
<1>13. CASE I!SavePage(p)
    <2>1. /\ intake[p] = "page" /\ intake' = [intake EXCEPT ![p] = "chunks"]
          /\ page' = [page EXCEPT ![doc[p]] = extract[p]]
          /\ UNCHANGED <<rows, content, cut, upload, doc, extract, I!files, answered, uploads, deaths>>
        BY <1>13 DEF I!SavePage, I!Goes, I!bounds
    <2>2. doc[p] \in I!Upload /\ extract[p] \in I!Text
        BY <1>0, <2>1 DEF Knows, Filed
    <2>3. page' \in [I!Upload -> I!Text \cup {"none"}]
        BY <1>3, <2>1, <2>2 DEF TablesTyped
    <2>4. TablesTyped' /\ FilesTyped' /\ deaths' \in 0..MaxDeaths
        BY <1>3, <1>t, <2>1, <2>3 DEF TablesTyped
    <2>5. doc' = [doc EXCEPT ![p] = doc[p]] /\ extract' = [extract EXCEPT ![p] = extract[p]]
        BY <1>1, <2>1
    <2>6. "chunks" \in Steps /\ ~Registering("chunks", upload[p]) /\ \A e \in I!Upload : cut[e] \subseteq cut'[e]
        BY <2>1 DEF Steps, Registering
    <2> QED
        BY <1>1, <1>4, <2>1, <2>2, <2>4, <2>5, <2>6
<1>14. CASE I!SaveChunks(p)
    <2>1. /\ intake[p] = "chunks" /\ intake' = [intake EXCEPT ![p] = "answer"]
          /\ cut' = [cut EXCEPT ![doc[p]] = IF extract[p] = "error" THEN @ ELSE @ \cup {extract[p]}]
          /\ UNCHANGED <<rows, content, page, upload, doc, extract, I!files, answered, uploads, deaths>>
        BY <1>14 DEF I!SaveChunks, I!Goes, I!bounds
    <2>2. doc[p] \in I!Upload /\ extract[p] \in I!Text
        BY <1>0, <2>1 DEF Knows, Filed
    <2>3. cut \in [I!Upload -> SUBSET I!Text]
        BY <1>3 DEF TablesTyped
    <2>4. CASE extract[p] = "error"
        <3>1. cut' = cut
            BY <2>1, <2>3, <2>4
        <3>2. TablesTyped' /\ FilesTyped' /\ deaths' \in 0..MaxDeaths
            BY <1>3, <1>t, <2>1, <3>1 DEF TablesTyped
        <3>3. doc' = [doc EXCEPT ![p] = doc[p]] /\ extract' = [extract EXCEPT ![p] = extract[p]]
            BY <1>1, <2>1
        <3>4. "answer" \in Steps /\ ~Registering("answer", upload[p]) /\ \A e \in I!Upload : cut[e] \subseteq cut'[e]
            BY <3>1 DEF Steps, Registering
        <3> QED
            BY <1>1, <1>4, <2>1, <2>2, <2>4, <3>2, <3>3, <3>4
    <2>5. CASE extract[p] # "error"
        <3>1. cut' = [cut EXCEPT ![doc[p]] = cut[doc[p]] \cup {extract[p]}]
            BY <2>1, <2>5
        <3>2. cut[doc[p]] \cup {extract[p]} \in SUBSET I!Text
            BY <2>2, <2>3
        <3>3. cut' \in [I!Upload -> SUBSET I!Text]
            BY <2>3, <3>1, <3>2
        <3>4. extract[p] \in cut'[doc[p]] /\ \A e \in I!Upload : cut[e] \subseteq cut'[e]
            BY <2>2, <2>3, <3>1
        <3>5. TablesTyped' /\ FilesTyped' /\ deaths' \in 0..MaxDeaths
            BY <1>3, <1>t, <2>1, <3>3 DEF TablesTyped
        <3>6. doc' = [doc EXCEPT ![p] = doc[p]] /\ extract' = [extract EXCEPT ![p] = extract[p]]
            BY <1>1, <2>1
        <3>7. "answer" \in Steps /\ ~Registering("answer", upload[p])
            BY DEF Steps, Registering
        <3> QED
            BY <1>1, <1>4, <2>1, <2>2, <3>4, <3>5, <3>6, <3>7
    <2> QED
        BY <2>4, <2>5
<1>15. CASE I!Answer(p)
    BY <1>15, AnswerInv
<1>16. CASE I!Die(p)
    <2>1. /\ intake[p] # "free" /\ intake' = [intake EXCEPT ![p] = "free"] /\ deaths < MaxDeaths
          /\ deaths' = deaths + 1
          /\ UNCHANGED <<upload, doc, extract, I!tables, answered, uploads>>
        BY <1>16 DEF I!Die
    <2>2. FilesTyped'
        BY <1>0, <1>2, <1>16, <2>1, FilesNext
    <2>3. "free" \in Steps /\ "free" \notin Filed /\ ~Registering("free", upload[p])
          /\ "free" \notin {"page", "chunks", "answer", "exists", "open", "write"}
        BY DEF Steps, Filed, Registering
    <2>4. deaths' \in 0..MaxDeaths
        BY <1>3, <2>1, SurroundingsAssumption DEF SurroundingsAssumption, I!IntakeAssumption
    <2> QED
        BY <1>5, <2>1, <2>2, <2>3, <2>4
<1>17. CASE I!Exists(p)
    <2> DEFINE k == IF stored # I!None THEN "parse" ELSE "open"
    <2>1. /\ intake[p] = "exists" /\ intake' = [intake EXCEPT ![p] = k]
          /\ UNCHANGED <<upload, doc, extract, I!tables, answered, uploads, deaths>>
          /\ UNCHANGED I!files
        BY <1>17 DEF I!Exists, I!Goes, I!bounds
    <2>2. FilesTyped' /\ deaths' \in 0..MaxDeaths
        BY <1>3, <1>t, <2>1
    <2>3. k \in Steps /\ k \notin {"page", "chunks", "answer", "exists", "write"}
        BY DEF Steps
    <2>4. doc[p] \in I!Upload /\ Registering(intake[p], upload[p])
        BY <1>0, <2>1 DEF Knows, Registering, Filed
    <2> HIDE DEF k
    <2> QED
        BY <1>5, <2>1, <2>2, <2>3, <2>4
<1> QED
    BY <1>6, <1>7, <1>8, <1>9, <1>10, <1>11, <1>12, <1>13, <1>14, <1>15, <1>16, <1>17 DEF I!Proceed

(* Every step keeps the invariant. *)
LEMMA IntakeNext == IntakeInv /\ [I!Next]_I!vars => IntakeInv'
<1> SUFFICES ASSUME IntakeInv, [I!Next]_I!vars PROVE IntakeInv'
    OBVIOUS
<1>1. CASE I!Next
    BY <1>1, ProcessNext DEF I!Next
<1>2. CASE UNCHANGED I!vars
    <2>1. I!TypeOK' /\ OwnUploads' /\ AllKnow'
        BY <1>2 DEF I!vars, I!files, I!tables, IntakeInv, I!TypeOK, OwnUploads, AllKnow
    <2>2. Pending' = Pending /\ rows' = rows
        BY <1>2 DEF I!vars, I!tables, Pending
    <2>3. Room'
        BY <2>2 DEF IntakeInv, Room
    <2> QED
        BY <2>1, <2>3 DEF IntakeInv
<1> QED
    BY <1>1, <1>2

(* The chunks of an upload that was answered with its text are stored, for *)
(* any number of processes, uploads and deaths.                            *)
THEOREM AnswersAreExtracted == I!Spec => []AnsweredIsExtracted
<1>1. IntakeInv => AnsweredIsExtracted
    BY DEF AnsweredIsExtracted, I!AnsweredIsExtracted, IntakeInv, AllKnow, Knows
<1> QED
    BY <1>1, IntakeInit, IntakeNext, PTL DEF I!Spec

(* One content has at most one document for each process. *)
THEOREM OneRowForEachProcess == I!Spec => []RowsNeedOverlap
<1>1. IntakeInv => RowsNeedOverlap
    <2> SUFFICES ASSUME IntakeInv PROVE Len(rows) <= Cardinality(Process)
        BY DEF RowsNeedOverlap, I!RowsNeedOverlap, I!Cardinality, Cardinality,
               I!IsFiniteSet, IsFiniteSet
    <2>1. Pending \subseteq Process /\ Len(rows) \in Nat
        BY DEF Pending, IntakeInv, I!TypeOK
    <2>2. Cardinality(Pending) \in Nat /\ Len(rows) + Cardinality(Pending) <= Cardinality(Process)
        BY <2>1, Processes DEF IntakeInv, Room
    <2> QED
        BY <2>1, <2>2, Processes
<1> QED
    BY <1>1, IntakeInit, IntakeNext, PTL DEF I!Spec

-----------------------------------------------------------------------------
(***************************************************************************)
(* Slots: what is installed is whole, and runtimes load it once.           *)
(***************************************************************************)

Signatures == {"none", "torn", "manifest only"} \cup Package
Packages == {"none", "torn"} \cup Package

(* The states of a directory. *)
Directory ==
    [there : BOOLEAN, manifest : Manifest \cup {"none", "torn"},
     signature : Signatures, package : Packages]

(* A slot that is installed has a whole manifest. *)
Installed == dest \in Directory /\ dest.there /\ dest.manifest \in Manifest

(* Where a runtime finds a slot. *)
Paths == {"stage", "dest"}

Staging == {"make", "manifest", "signature", "package", "promote"}

(* What an installation that makes a new directory has laid so far. *)
Staged ==
    /\ install \in Staging => stage \in Directory /\ dest = L!Missing
    /\ install = "clear" => dest = L!Missing
    /\ install = "make" => stage = L!Missing
    /\ install \in {"manifest", "signature", "package"} => stage.there
    /\ install = "manifest" => stage.signature = "none" /\ stage.package = "none"
    /\ install = "signature" =>
          src.signature # "none" /\ stage.manifest = src.manifest /\ stage.package = "none"
    /\ install = "package" =>
          /\ src.package # "none"
          /\ stage.manifest = src.manifest /\ stage.signature = src.signature
    /\ install = "promote" => stage = src

(* What one that tops up a directory has found and replaced. *)
ToppedUp ==
    /\ install \in {"top signature", "top package", "done"} =>
          dest # L!Missing /\ dest.manifest = src.manifest
    /\ install = "top signature" => src.signature # "none"
    /\ install = "top package" =>
          src.signature # "none" /\ src.package # "none" /\ dest.signature = src.signature

SlotInv ==
    /\ src \in L!Release
    /\ dest = L!Missing \/ (Installed /\ ~stage.there)
    /\ Staged /\ ToppedUp /\ L!SuccessMeansInstalled

(* A runtime sees the stage directory or the final one, never both, and    *)
(* what it has loaded it has seen.                                         *)
Sees(l) ==
    /\ unread[l] \subseteq seenSlots[l] /\ loaded[l] \subseteq seenSlots[l]
    /\ "dest" \in seenSlots[l] => dest # L!Missing /\ "stage" \notin seenSlots[l]
    /\ phase[l] = "failed" => "stage" \in seenSlots[l]

LoaderInv ==
    /\ phase \in [Loader -> {"idle", "probing", "reading", "built", "failed"}]
    /\ seenSlots \in [Loader -> SUBSET Paths]
    /\ unread \in [Loader -> SUBSET Paths]
    /\ loaded \in [Loader -> SUBSET Paths]
    /\ \A l \in Loader : Sees(l)

-----------------------------------------------------------------------------
(* One file of a directory is replaced. *)
LEMMA Replaced ==
    ASSUME NEW d \in Directory
    PROVE  /\ \A x \in Manifest \cup {"none", "torn"} :
                 LET e == [d EXCEPT !["manifest"] = x] IN
                 /\ e \in Directory /\ e.there = d.there /\ e.manifest = x
                 /\ e.signature = d.signature /\ e.package = d.package
           /\ \A x \in Signatures :
                 LET e == [d EXCEPT !["signature"] = x] IN
                 /\ e \in Directory /\ e.there = d.there /\ e.manifest = d.manifest
                 /\ e.signature = x /\ e.package = d.package
           /\ \A x \in Packages :
                 LET e == [d EXCEPT !["package"] = x] IN
                 /\ e \in Directory /\ e.there = d.there /\ e.manifest = d.manifest
                 /\ e.signature = d.signature /\ e.package = x
BY DEF Directory

(* Directories with the same files are the same. *)
LEMMA SameFiles ==
    ASSUME NEW d \in Directory, NEW e \in Directory, d.there, e.there,
           d.manifest = e.manifest, d.signature = e.signature, d.package = e.package
    PROVE  d = e
BY DEF Directory

(* No file at all. *)
LEMMA Nothing ==
    /\ L!Missing \in Directory /\ ~L!Missing.there /\ L!Missing.manifest = "none"
    /\ L!Missing.signature = "none" /\ L!Missing.package = "none"
    /\ \A e : e = [L!Missing EXCEPT !.there = TRUE] =>
          e \in Directory /\ e.there /\ e.signature = "none" /\ e.package = "none"
BY DEF L!Missing, Directory, Signatures, Packages

(* What an installer takes as a source. *)
LEMMA Releases ==
    ASSUME NEW r \in L!Release
    PROVE  /\ r \in Directory /\ r.there
           /\ r.manifest \in Manifest /\ r.signature \in Signatures \ {"torn"} /\ r.package \in Packages
           /\ r.package # "none" => r.package = r.signature /\ r.signature \in Package
           /\ r.signature \in Package => r.package = r.signature
           /\ r["manifest"] = r.manifest /\ r["signature"] = r.signature /\ r["package"] = r.package
           /\ "none" \notin Manifest /\ "none" \notin Package
<1>1. /\ "none" \notin Manifest /\ "none" \notin Package /\ "torn" \notin Manifest
      /\ "torn" \notin Package
    BY SurroundingsAssumption DEF SurroundingsAssumption, L!SlotInstallAssumption
<1>2. /\ r \in Directory /\ r.there /\ r.manifest \in Manifest
      /\ r.signature \in {"none", "manifest only"} \cup Package
    BY DEF L!Release, Directory, Signatures, Packages
<1>3. r.package = IF r.signature \in Package THEN r.signature ELSE "none"
    BY DEF L!Release
<1>4. r.signature \in Signatures \ {"torn"} /\ r.package \in Packages
    BY <1>1, <1>2, <1>3 DEF Signatures, Packages
<1> QED
    BY <1>1, <1>2, <1>3, <1>4

(* Nothing is installed at first. *)
LEMMA SlotInit == L!Init => SlotInv /\ LoaderInv
<1> SUFFICES ASSUME L!Init PROVE SlotInv /\ LoaderInv
    OBVIOUS
<1>1. SlotInv
    BY DEF L!Init, SlotInv, Staged, Staging, ToppedUp, L!SuccessMeansInstalled
<1>2. LoaderInv
    BY DEF L!Init, LoaderInv, Sees, Paths
<1> QED
    BY <1>1, <1>2

(* What is known of the directories at each step. *)
LEMMA SlotFacts ==
    ASSUME SlotInv
    PROVE  /\ dest # L!Missing =>
                 /\ dest.there /\ dest.manifest \in Manifest /\ dest.manifest # "none"
           /\ ~L!Missing.there /\ L!Missing.manifest = "none"
<1>1. ~L!Missing.there /\ L!Missing.manifest = "none"
    BY Nothing
<1>2. ASSUME dest # L!Missing
      PROVE  dest.there /\ dest.manifest \in Manifest /\ dest.manifest # "none"
    <2>1. dest \in Directory /\ dest.there /\ dest.manifest \in Manifest
        BY <1>2 DEF SlotInv, Installed
    <2> QED
        BY <2>1, SurroundingsAssumption
           DEF SurroundingsAssumption, L!SlotInstallAssumption
<1> QED
    BY <1>1, <1>2

(* Steps that only decide, fail or end. *)
LEMMA QuietSlot ==
    ASSUME SlotInv,
           \/ L!Begin \/ L!Look \/ L!Clear \/ L!Make \/ L!StagingFails
           \/ L!OtherwiseFails \/ L!Return \/ L!Die
    PROVE  SlotInv' /\ dest' = dest
<1>0. /\ src \in L!Release /\ (dest = L!Missing \/ (Installed /\ ~stage.there))
      /\ Staged /\ ToppedUp /\ L!SuccessMeansInstalled
    BY DEF SlotInv
<1>d. /\ dest # L!Missing => dest.there /\ dest.manifest \in Manifest /\ dest.manifest # "none"
      /\ ~L!Missing.there /\ L!Missing.manifest = "none"
    BY SlotFacts
<1>r. /\ src.manifest \in Manifest /\ "none" \notin Manifest /\ "none" \notin Package
      /\ src.signature = "none" => ~L!Runnable(src)
    <2>1. src.manifest \in Manifest /\ "none" \notin Manifest /\ "none" \notin Package
        BY <1>0, Releases
    <2> QED
        BY <2>1 DEF L!Runnable
<1>1. CASE install' = "idle" /\ dest' = dest /\ src' \in L!Release
           /\ (dest = L!Missing \/ stage' = stage)
    BY <1>0, <1>1 DEF SlotInv, Installed, Staged, Staging, ToppedUp, L!SuccessMeansInstalled
<1>2. CASE L!StagingFails
    <2>1. dest = L!Missing
        BY <1>0, <1>2 DEF L!StagingFails, Staged, Staging
    <2> QED
        BY <1>0, <1>1, <1>2, <2>1 DEF L!StagingFails
<1>3. CASE L!OtherwiseFails \/ L!Return \/ L!Die
    BY <1>0, <1>1, <1>3 DEF L!OtherwiseFails, L!Return, L!Die
<1>4. CASE L!Begin
    BY <1>0, <1>4 DEF L!Begin, SlotInv, Installed, Staged, Staging, ToppedUp, L!SuccessMeansInstalled
<1>5. CASE L!Look
    <2>1. UNCHANGED <<stage, dest, src>>
        BY <1>5 DEF L!Look
    <2>2. CASE dest.manifest = "none"
        <3>1. dest = L!Missing
            BY <1>d, <2>2
        <3>2. dest.manifest # src.manifest
            BY <1>r, <2>2
        <3>3. install' = "clear"
            BY <1>5, <2>2, <3>2 DEF L!Look
        <3> QED
            BY <1>0, <2>1, <3>1, <3>3 DEF SlotInv, Installed, Staged, Staging, ToppedUp, L!SuccessMeansInstalled
    <2>3. CASE dest.manifest = src.manifest
        <3>1. dest # L!Missing /\ dest.manifest # "none"
            BY <1>d, <1>r, <2>3
        <3>2. CASE src.signature # "none"
            <4>1. install' = "top signature"
                BY <1>5, <2>3, <3>1, <3>2 DEF L!Look
            <4> QED
                BY <1>0, <2>1, <2>3, <3>1, <3>2, <4>1
                   DEF SlotInv, Installed, Staged, Staging, ToppedUp, L!SuccessMeansInstalled
        <3>3. CASE src.signature = "none"
            <4>1. install' = "done"
                BY <1>5, <2>3, <3>1, <3>3 DEF L!Look
            <4>2. L!SuccessMeansInstalled'
                BY <1>r, <2>1, <2>3, <3>3 DEF L!SuccessMeansInstalled, L!Runnable
            <4> QED
                BY <1>0, <2>1, <2>3, <3>1, <3>3, <4>1, <4>2 DEF SlotInv, Installed, Staged, Staging, ToppedUp
        <3> QED
            BY <3>2, <3>3
    <2>4. CASE dest.manifest # "none" /\ dest.manifest # src.manifest
        <3>1. install' = "idle"
            BY <1>5, <2>4 DEF L!Look
        <3> QED
            BY <1>0, <1>1, <2>1, <3>1
    <2> QED
        BY <2>2, <2>3, <2>4
<1>6. CASE L!Clear
    <2>1. dest = L!Missing /\ dest' = dest /\ src' = src
          /\ (install' = "clear" \/ (install' = "make" /\ stage' = L!Missing))
        BY <1>0, <1>6 DEF L!Clear, Staged
    <2> QED
        BY <1>0, <2>1, Nothing
           DEF SlotInv, Installed, Staged, Staging, ToppedUp, L!SuccessMeansInstalled
<1>7. CASE L!Make
    <2>1. /\ dest = L!Missing /\ dest' = dest /\ src' = src /\ install' = "manifest"
          /\ stage' = [L!Missing EXCEPT !.there = TRUE]
        BY <1>0, <1>7 DEF L!Make, Staged, Staging
    <2>2. stage' \in Directory /\ stage'.there /\ stage'.signature = "none" /\ stage'.package = "none"
        BY <2>1, Nothing
    <2>3. Staged'
        BY <2>1, <2>2 DEF Staged, Staging
    <2> QED
        BY <1>0, <2>1, <2>3 DEF SlotInv, Installed, ToppedUp, L!SuccessMeansInstalled
<1> QED
    BY <1>2, <1>3, <1>4, <1>5, <1>6, <1>7 DEF L!StagingFails, L!OtherwiseFails, L!Return, L!Die

(* A file is laid, or begun. *)
LEMMA CopyInv ==
    ASSUME SlotInv, L!Copy
    PROVE  SlotInv' /\ dest' = dest
<1>0. src \in L!Release /\ Staged
    BY DEF SlotInv
<1>1. /\ install \in {"manifest", "signature", "package"} /\ dest' = dest /\ src' = src
      /\ \/ stage' = [stage EXCEPT ![install] = "torn"] /\ install' = install
         \/ stage' = [stage EXCEPT ![install] = src[install]] /\ install' = L!After(install)
    BY DEF L!Copy
<1>2. /\ src \in Directory /\ src.there /\ src.manifest \in Manifest
      /\ src.signature \in Signatures /\ src.package \in Packages
      /\ src.package # "none" => src.signature # "none"
      /\ src["manifest"] = src.manifest /\ src["signature"] = src.signature /\ src["package"] = src.package
    BY <1>0, Releases
<1>3. dest = L!Missing /\ stage \in Directory /\ stage.there
    BY <1>0, <1>1 DEF Staged, Staging
<1>4. Staged' /\ install' \in {"manifest", "signature", "package", "promote"}
    <2>1. CASE install = "manifest"
        <3>1. PICK x \in {"torn", src.manifest} :
                  /\ stage' = [stage EXCEPT !["manifest"] = x]
                  /\ \/ install' = "manifest"
                     \/ x = src.manifest /\ install' = L!After("manifest")
            BY <1>1, <1>2, <2>1
        <3>2. /\ stage' \in Directory /\ stage'.there /\ stage'.manifest = x
              /\ stage'.signature = "none" /\ stage'.package = "none"
            <4>1. x \in Manifest \cup {"none", "torn"}
                BY <1>2
            <4>2. stage.signature = "none" /\ stage.package = "none"
                BY <1>0, <2>1 DEF Staged
            <4> QED
                BY <1>3, <3>1, <4>1, <4>2, Replaced
        <3>3. CASE install' = "manifest"
            BY <1>1, <1>3, <3>2, <3>3 DEF Staged, Staging
        <3>4. CASE x = src.manifest /\ install' = "signature" /\ src.signature # "none"
            BY <1>1, <1>3, <3>2, <3>4 DEF Staged, Staging
        <3>5. CASE x = src.manifest /\ install' = "promote" /\ src.signature = "none"
            <4>1. stage' = src
                BY <1>2, <3>2, <3>5, SameFiles
            <4> QED
                BY <1>1, <1>2, <1>3, <3>5, <4>1 DEF Staged, Staging
        <3> QED
            BY <3>1, <3>3, <3>4, <3>5 DEF L!After
    <2>2. CASE install = "signature"
        <3>1. PICK x \in {"torn", src.signature} :
                  /\ stage' = [stage EXCEPT !["signature"] = x]
                  /\ \/ install' = "signature"
                     \/ x = src.signature /\ install' = L!After("signature")
            BY <1>1, <1>2, <2>2
        <3>2. /\ stage' \in Directory /\ stage'.there /\ stage'.manifest = src.manifest
              /\ stage'.signature = x /\ stage'.package = "none" /\ src.signature # "none"
            <4>1. x \in Signatures
                BY <1>2 DEF Signatures
            <4>2. stage.manifest = src.manifest /\ stage.package = "none" /\ src.signature # "none"
                BY <1>0, <2>2 DEF Staged
            <4> QED
                BY <1>3, <3>1, <4>1, <4>2, Replaced
        <3>3. CASE install' = "signature"
            BY <1>1, <1>3, <3>2, <3>3 DEF Staged, Staging
        <3>4. CASE x = src.signature /\ install' = "package" /\ src.package # "none"
            BY <1>1, <1>3, <3>2, <3>4 DEF Staged, Staging
        <3>5. CASE x = src.signature /\ install' = "promote" /\ src.package = "none"
            <4>1. stage' = src
                BY <1>2, <3>2, <3>5, SameFiles
            <4> QED
                BY <1>1, <1>2, <1>3, <3>5, <4>1 DEF Staged, Staging
        <3> QED
            BY <3>1, <3>3, <3>4, <3>5 DEF L!After
    <2>3. CASE install = "package"
        <3>1. PICK x \in {"torn", src.package} :
                  /\ stage' = [stage EXCEPT !["package"] = x]
                  /\ \/ install' = "package"
                     \/ x = src.package /\ install' = L!After("package")
            BY <1>1, <1>2, <2>3
        <3>2. /\ stage' \in Directory /\ stage'.there /\ stage'.manifest = src.manifest
              /\ stage'.signature = src.signature /\ stage'.package = x /\ src.package # "none"
            <4>1. x \in Packages
                BY <1>2 DEF Packages
            <4>2. stage.manifest = src.manifest /\ stage.signature = src.signature /\ src.package # "none"
                BY <1>0, <2>3 DEF Staged
            <4> QED
                BY <1>3, <3>1, <4>1, <4>2, Replaced
        <3>3. CASE install' = "package"
            BY <1>1, <1>3, <3>2, <3>3 DEF Staged, Staging
        <3>4. CASE x = src.package /\ install' = "promote"
            <4>1. stage' = src
                BY <1>2, <3>2, <3>4, SameFiles
            <4> QED
                BY <1>1, <1>2, <1>3, <3>4, <4>1 DEF Staged, Staging
        <3> QED
            BY <3>1, <3>3, <3>4 DEF L!After
    <2> QED
        BY <1>1, <2>1, <2>2, <2>3
<1>5. ToppedUp' /\ L!SuccessMeansInstalled'
    BY <1>4 DEF ToppedUp, L!SuccessMeansInstalled
<1> QED
    BY <1>0, <1>1, <1>3, <1>4, <1>5 DEF SlotInv

(* What is renamed into place is the source. *)
LEMMA PromoteInv ==
    ASSUME SlotInv, L!Promote
    PROVE  SlotInv' /\ dest' # L!Missing /\ dest' \in L!Release
<1>0. src \in L!Release /\ Staged
    BY DEF SlotInv
<1>1. install' = "done" /\ dest' = src /\ src' = src /\ stage' = L!Missing
    BY <1>0 DEF L!Promote, Staged
<1>2. src \in Directory /\ src.there /\ src.manifest \in Manifest
    BY <1>0, Releases
<1>3. dest' # L!Missing
    BY <1>1, <1>2, Nothing
<1>4. Installed' /\ ~stage'.there
    BY <1>1, <1>2, Nothing DEF Installed
<1>5. L!SuccessMeansInstalled'
    BY <1>1 DEF L!SuccessMeansInstalled, L!Runnable
<1>6. Staged' /\ ToppedUp'
    BY <1>1, <1>3 DEF Staged, Staging, ToppedUp
<1> QED
    BY <1>0, <1>1, <1>3, <1>4, <1>5, <1>6 DEF SlotInv

(* An installed slot is topped up in place: its manifest stays, and what   *)
(* is reported is as the source has it.                                    *)
LEMMA TopUpInv ==
    ASSUME SlotInv, L!TopUpSignature \/ L!TopUpPackage
    PROVE  SlotInv' /\ dest # L!Missing /\ dest' # L!Missing
<1>0. /\ src \in L!Release /\ Staged /\ ToppedUp
      /\ dest = L!Missing \/ (Installed /\ ~stage.there)
    BY DEF SlotInv
<1>1. /\ install \in {"top signature", "top package"} /\ src' = src /\ stage' = stage
      /\ dest # L!Missing /\ dest.manifest = src.manifest /\ src.signature # "none"
    BY <1>0 DEF L!TopUpSignature, L!TopUpPackage, ToppedUp
<1>2. dest \in Directory /\ dest.there /\ dest.manifest \in Manifest /\ ~stage.there
    BY <1>0, <1>1 DEF Installed
<1>3. /\ src.manifest \in Manifest /\ src.signature \in Signatures /\ src.package \in Packages
      /\ src.signature \in Package => src.package = src.signature
      /\ "none" \notin Package
    BY <1>0, Releases
<1>4. ASSUME dest' \in Directory, dest'.there, dest'.manifest = src.manifest,
             install' \in {"idle", "top signature", "top package", "done"},
             install' = "top package" => src.package # "none" /\ dest'.signature = src.signature,
             install' = "done" =>
                dest'.signature = src.signature /\ (src.package = "none" \/ dest'.package = src.package)
      PROVE  SlotInv' /\ dest' # L!Missing
    <2>1. dest' # L!Missing
        BY <1>4, Nothing
    <2>2. Installed' /\ ~stage'.there
        BY <1>1, <1>2, <1>3, <1>4 DEF Installed
    <2>3. L!SuccessMeansInstalled'
        <3> SUFFICES ASSUME install' = "done"
                     PROVE  L!Runnable(src) => L!Runnable(dest')
            BY <1>1, <1>4 DEF L!SuccessMeansInstalled, L!Runnable
        <3>1. L!Runnable(src) =>
                  /\ src.manifest \in Manifest /\ src.signature \in Package
                  /\ src.package = src.signature
            BY DEF L!Runnable
        <3>2. L!Runnable(src) => src.package # "none"
            BY <1>3, <3>1
        <3>3. L!Runnable(src) => dest'.package = src.package /\ dest'.signature = src.signature
            BY <1>4, <3>2
        <3> QED
            BY <1>4, <3>1, <3>3 DEF L!Runnable
    <2>4. ToppedUp'
        BY <1>1, <1>4, <2>1 DEF ToppedUp
    <2>5. Staged'
        BY <1>4 DEF Staged, Staging
    <2> QED
        BY <1>0, <1>1, <2>1, <2>2, <2>3, <2>4, <2>5 DEF SlotInv
<1>6. CASE L!TopUpSignature
    <2>1. PICK x \in {"torn", src.signature} :
              /\ dest' = [dest EXCEPT !["signature"] = x]
              /\ \/ install' = "top signature"
                 \/ x = src.signature /\ install' = "done" /\ src.package = "none"
                 \/ x = src.signature /\ install' = "top package" /\ src.package # "none"
        BY <1>6 DEF L!TopUpSignature
    <2>2. dest' \in Directory /\ dest'.there /\ dest'.manifest = src.manifest /\ dest'.signature = x
        <3>1. x \in Signatures
            BY <1>3 DEF Signatures
        <3> QED
            BY <1>1, <1>2, <2>1, <3>1, Replaced
    <2> QED
        BY <1>1, <1>4, <2>1, <2>2
<1>7. CASE L!TopUpPackage
    <2>0. dest.signature = src.signature /\ src.package # "none" /\ install = "top package"
        BY <1>0, <1>7 DEF L!TopUpPackage, ToppedUp
    <2>2. CASE \E x \in {"torn", src.package} :
                  /\ dest' = [dest EXCEPT !["package"] = x]
                  /\ install' = "top package" \/ (install' = "done" /\ x = src.package)
        <3>1. PICK x \in {"torn", src.package} :
                  /\ dest' = [dest EXCEPT !["package"] = x]
                  /\ install' = "top package" \/ (install' = "done" /\ x = src.package)
            BY <2>2
        <3>2. x \in Packages
            BY <1>3 DEF Packages
        <3>3. /\ dest' \in Directory /\ dest'.there /\ dest'.manifest = src.manifest
              /\ dest'.signature = src.signature /\ dest'.package = x
            BY <1>1, <1>2, <2>0, <3>1, <3>2, Replaced
        <3> QED
            BY <1>1, <1>4, <2>0, <3>1, <3>3
    <2>5. CASE dest' = dest /\ install' = IF dest.package = src.package THEN "done" ELSE "idle"
        BY <1>1, <1>2, <1>4, <2>0, <2>5
    <2> QED
        BY <1>7, <2>0, <2>2, <2>5 DEF L!TopUpPackage
<1> QED
    BY <1>1, <1>6, <1>7

-----------------------------------------------------------------------------
(* Every step of an installer keeps its invariant, takes nothing away, and *)
(* leaves what runtimes know.                                              *)
LEMMA InstallerNext ==
    ASSUME SlotInv, LoaderInv,
           \/ L!Begin \/ L!Look \/ L!Clear \/ L!Make \/ L!Copy \/ L!Promote \/ L!StagingFails
           \/ L!TopUpSignature \/ L!TopUpPackage \/ L!OtherwiseFails \/ L!Return \/ L!Die
    PROVE  /\ SlotInv' /\ LoaderInv'
           /\ dest # L!Missing => dest' # L!Missing
           /\ dest = L!Missing /\ dest' # L!Missing => dest' \in L!Release
<1>1. /\ SlotInv'
      /\ dest # L!Missing => dest' # L!Missing
      /\ dest = L!Missing /\ dest' # L!Missing => dest' \in L!Release
    BY QuietSlot, CopyInv, PromoteInv, TopUpInv
<1>2. UNCHANGED L!loaders
    BY DEF L!Begin, L!Look, L!Clear, L!Make, L!Copy, L!Promote, L!StagingFails,
           L!TopUpSignature, L!TopUpPackage, L!OtherwiseFails, L!Return, L!Die
<1>3. LoaderInv'
    BY <1>1, <1>2 DEF LoaderInv, Sees, L!loaders
<1> QED
    BY <1>1, <1>3

(* Every step of a runtime: it fails at a stage directory or not at all.   *)
LEMMA LoaderNext ==
    ASSUME SlotInv, LoaderInv, NEW l \in Loader,
           L!Scan(l) \/ L!Probe(l) \/ L!Read(l) \/ L!Register(l)
    PROVE  SlotInv' /\ LoaderInv' /\ dest' = dest
<1>0. /\ UNCHANGED <<stage, dest, L!installer>>
    BY DEF L!Scan, L!Probe, L!Read, L!Register
<1>1. SlotInv'
    BY <1>0 DEF L!installer, SlotInv, Installed, Staged, Staging, ToppedUp, L!SuccessMeansInstalled, L!Runnable
<1>2. /\ dest # L!Missing => dest.there /\ dest.manifest \in Manifest
      /\ dest # L!Missing => ~stage.there
      /\ ~L!Missing.there
    BY SlotFacts DEF SlotInv
<1>3. /\ phase \in [Loader -> {"idle", "probing", "reading", "built", "failed"}]
      /\ seenSlots \in [Loader -> SUBSET Paths] /\ unread \in [Loader -> SUBSET Paths]
      /\ loaded \in [Loader -> SUBSET Paths] /\ Sees(l)
    BY DEF LoaderInv
<1>4. ASSUME NEW f \in {"idle", "probing", "reading", "built", "failed"},
             NEW e \in SUBSET Paths, NEW n \in SUBSET Paths, NEW o \in SUBSET Paths,
             phase' = [phase EXCEPT ![l] = f], seenSlots' = [seenSlots EXCEPT ![l] = e],
             unread' = [unread EXCEPT ![l] = n], loaded' = [loaded EXCEPT ![l] = o],
             n \subseteq e, o \subseteq e,
             "dest" \in e => dest # L!Missing /\ "stage" \notin e,
             f = "failed" => "stage" \in e
      PROVE  LoaderInv'
    <2>1. /\ phase' \in [Loader -> {"idle", "probing", "reading", "built", "failed"}]
          /\ seenSlots' \in [Loader -> SUBSET Paths] /\ unread' \in [Loader -> SUBSET Paths]
          /\ loaded' \in [Loader -> SUBSET Paths]
        BY <1>3, <1>4
    <2>2. ASSUME NEW z \in Loader PROVE Sees(z)'
        <3>1. CASE z = l
            <4>1. phase'[z] = f /\ seenSlots'[z] = e /\ unread'[z] = n /\ loaded'[z] = o /\ dest' = dest
                BY <1>0, <1>3, <1>4, <3>1
            <4> QED
                BY <1>4, <4>1 DEF Sees
        <3>2. CASE z # l
            <4>1. /\ phase'[z] = phase[z] /\ seenSlots'[z] = seenSlots[z]
                  /\ unread'[z] = unread[z] /\ loaded'[z] = loaded[z] /\ dest' = dest
                BY <1>0, <1>3, <1>4, <3>2
            <4> QED
                BY <4>1 DEF Sees, LoaderInv
        <3> QED
            BY <3>1, <3>2
    <2> QED
        BY <2>1, <2>2 DEF LoaderInv
<1>5. /\ phase = [phase EXCEPT ![l] = @] /\ seenSlots = [seenSlots EXCEPT ![l] = @]
      /\ unread = [unread EXCEPT ![l] = @] /\ loaded = [loaded EXCEPT ![l] = @]
      /\ phase[l] \in {"idle", "probing", "reading", "built", "failed"}
      /\ seenSlots[l] \in SUBSET Paths /\ unread[l] \in SUBSET Paths /\ loaded[l] \in SUBSET Paths
    BY <1>3
<1>6. /\ unread[l] \subseteq seenSlots[l] /\ loaded[l] \subseteq seenSlots[l]
      /\ "dest" \in seenSlots[l] => dest # L!Missing /\ "stage" \notin seenSlots[l]
      /\ phase[l] = "failed" => "stage" \in seenSlots[l]
    BY <1>3 DEF Sees
<1>7. CASE L!Scan(l)
    <2> DEFINE found == {p \in {"stage", "dest"} : L!At(p).there}
               nothing == {}
    <2>1. /\ phase' = [phase EXCEPT ![l] = "probing"] /\ seenSlots' = [seenSlots EXCEPT ![l] = found]
          /\ unread' = [unread EXCEPT ![l] = found] /\ loaded' = [loaded EXCEPT ![l] = nothing]
        BY <1>7 DEF L!Scan
    <2>2. "dest" \in found => dest # L!Missing /\ "stage" \notin found
        BY <1>2 DEF L!At
    <2>3. found \in SUBSET Paths /\ nothing \in SUBSET Paths /\ nothing \subseteq found /\ found \subseteq found
        BY DEF Paths
    <2> HIDE DEF found, nothing
    <2>4. "probing" # "failed" /\ "probing" \in {"idle", "probing", "reading", "built", "failed"}
        OBVIOUS
    <2>5. LoaderInv'
        BY <1>4, <2>1, <2>2, <2>3, <2>4
    <2> QED
        BY <1>0, <1>1, <2>5
<1>8. CASE L!Probe(l)
    <2> DEFINE n == {p \in unread[l] : L!At(p).manifest # "none"}
    <2>1. /\ phase' = [phase EXCEPT ![l] = "reading"] /\ unread' = [unread EXCEPT ![l] = n]
          /\ seenSlots' = [seenSlots EXCEPT ![l] = seenSlots[l]] /\ loaded' = [loaded EXCEPT ![l] = loaded[l]]
        BY <1>5, <1>8 DEF L!Probe
    <2>2. n \in SUBSET Paths /\ n \subseteq seenSlots[l]
        BY <1>5, <1>6
    <2> HIDE DEF n
    <2>3. "reading" # "failed" /\ "reading" \in {"idle", "probing", "reading", "built", "failed"}
        OBVIOUS
    <2>4. seenSlots[l] \in SUBSET Paths /\ loaded[l] \in SUBSET Paths
        BY <1>5
    <2>5. LoaderInv'
        BY <1>4, <1>6, <2>1, <2>2, <2>3, <2>4
    <2> QED
        BY <1>0, <1>1, <2>5
<1>9. CASE L!Read(l)
    <2>1. PICK p \in unread[l] :
              /\ unread' = [unread EXCEPT ![l] = unread[l] \ {p}]
              /\ IF L!At(p).manifest \in Manifest
                 THEN loaded' = [loaded EXCEPT ![l] = loaded[l] \cup {p}] /\ UNCHANGED phase
                 ELSE phase' = [phase EXCEPT ![l] = "failed"] /\ UNCHANGED loaded
        BY <1>9 DEF L!Read
    <2>2. seenSlots' = [seenSlots EXCEPT ![l] = seenSlots[l]]
        BY <1>5, <1>9 DEF L!Read
    <2>3. /\ unread[l] \ {p} \in SUBSET Paths /\ unread[l] \ {p} \subseteq seenSlots[l] /\ p \in Paths
          /\ p \in seenSlots[l]
        BY <1>5, <1>6
    <2>4. CASE L!At(p).manifest \in Manifest
        <3>1. /\ loaded' = [loaded EXCEPT ![l] = loaded[l] \cup {p}]
              /\ phase' = [phase EXCEPT ![l] = phase[l]]
            BY <1>5, <2>1, <2>4
        <3>2. loaded[l] \cup {p} \in SUBSET Paths /\ loaded[l] \cup {p} \subseteq seenSlots[l]
            BY <1>5, <1>6, <2>3
        <3>3. /\ unread' = [unread EXCEPT ![l] = unread[l] \ {p}]
              /\ phase[l] \in {"idle", "probing", "reading", "built", "failed"}
              /\ seenSlots[l] \in SUBSET Paths
            BY <1>5, <2>1
        <3>4. LoaderInv'
            BY <1>4, <1>6, <2>2, <2>3, <3>1, <3>2, <3>3
        <3> QED
            BY <1>0, <1>1, <3>4
    <2>5. CASE L!At(p).manifest \notin Manifest
        <3>1. /\ phase' = [phase EXCEPT ![l] = "failed"]
              /\ loaded' = [loaded EXCEPT ![l] = loaded[l]]
            BY <1>5, <2>1, <2>5
        <3>2. "stage" \in seenSlots[l]
            BY <1>2, <1>6, <2>3, <2>5 DEF L!At, Paths
        <3>3. /\ unread' = [unread EXCEPT ![l] = unread[l] \ {p}]
              /\ "failed" \in {"idle", "probing", "reading", "built", "failed"}
              /\ seenSlots[l] \in SUBSET Paths /\ loaded[l] \in SUBSET Paths
            BY <1>5, <2>1
        <3>4. LoaderInv'
            BY <1>4, <1>6, <2>2, <2>3, <3>1, <3>2, <3>3
        <3> QED
            BY <1>0, <1>1, <3>4
    <2> QED
        BY <2>4, <2>5
<1>10. CASE L!Register(l)
    <2> DEFINE f == IF L!Cardinality(loaded[l]) > 1 THEN "failed" ELSE "built"
    <2>1. /\ phase' = [phase EXCEPT ![l] = f] /\ seenSlots' = [seenSlots EXCEPT ![l] = seenSlots[l]]
          /\ unread' = [unread EXCEPT ![l] = unread[l]] /\ loaded' = [loaded EXCEPT ![l] = loaded[l]]
        BY <1>5, <1>10 DEF L!Register
    <2>2. f = "failed" => "stage" \in seenSlots[l]
        <3> SUFFICES ASSUME "stage" \notin seenSlots[l] PROVE f = "built"
            OBVIOUS
        <3>1. loaded[l] = {} \/ loaded[l] = {"dest"}
            BY <1>5, <1>6 DEF Paths
        <3>2. Cardinality({}) = 0 /\ Cardinality({"dest"}) = 1
            BY FS_EmptySet, FS_Singleton
        <3>3. L!Cardinality(loaded[l]) = Cardinality(loaded[l])
            BY DEF L!Cardinality, Cardinality, L!IsFiniteSet, IsFiniteSet
        <3>4. L!Cardinality(loaded[l]) = 0 \/ L!Cardinality(loaded[l]) = 1
            BY <3>1, <3>2, <3>3
        <3>5. ~(L!Cardinality(loaded[l]) > 1)
            BY <3>4
        <3> QED
            BY <3>5
    <2>3. f \in {"idle", "probing", "reading", "built", "failed"}
        OBVIOUS
    <2> HIDE DEF f
    <2>4. /\ seenSlots[l] \in SUBSET Paths /\ unread[l] \in SUBSET Paths
          /\ loaded[l] \in SUBSET Paths
        BY <1>5
    <2>5. LoaderInv'
        BY <1>4, <1>6, <2>1, <2>2, <2>3, <2>4
    <2> QED
        BY <1>0, <1>1, <2>5
<1> QED
    BY <1>0, <1>1, <1>7, <1>8, <1>9, <1>10

(* Every step keeps both, and what it puts into place is a whole release.  *)
LEMMA SlotNext ==
    ASSUME SlotInv, LoaderInv, [L!Next]_L!vars
    PROVE  /\ SlotInv' /\ LoaderInv'
           /\ dest = L!Missing /\ dest' # L!Missing => dest' \in L!Release
<1>1. CASE \/ L!Begin \/ L!Look \/ L!Clear \/ L!Make \/ L!Copy \/ L!Promote \/ L!StagingFails
           \/ L!TopUpSignature \/ L!TopUpPackage \/ L!OtherwiseFails \/ L!Return \/ L!Die
    BY <1>1, InstallerNext
<1>2. CASE \E l \in Loader : L!Scan(l) \/ L!Probe(l) \/ L!Read(l) \/ L!Register(l)
    BY <1>2, LoaderNext
<1>3. CASE UNCHANGED L!vars
    BY <1>3 DEF L!vars, L!installer, L!loaders, SlotInv, Installed, Staged, Staging, ToppedUp,
                L!SuccessMeansInstalled, LoaderInv, Sees
<1> QED
    BY <1>1, <1>2, <1>3 DEF L!Next

(* The invariant of an installation beside its runtimes. *)
LEMMA SlotsInvariance == L!Spec => [](SlotInv /\ LoaderInv)
<1>1. (SlotInv /\ LoaderInv) /\ [L!Next]_L!vars => (SlotInv /\ LoaderInv)'
    BY SlotNext
<1> QED
    BY <1>1, SlotInit, PTL DEF L!Spec

(* An installation that reports success left the slot as its source is.    *)
THEOREM SuccessIsInstalled == L!Spec => []SuccessMeansInstalled
<1>1. SlotInv => SuccessMeansInstalled
    BY DEF SlotInv, SuccessMeansInstalled
<1> QED
    BY <1>1, SlotsInvariance, PTL

(* A runtime fails to build its registry only if it saw a stage directory, *)
(* and never sees the slot twice.                                          *)
THEOREM RuntimesFailOnlyAtAStage == L!Spec => []FailsOnlyAtAStage
<1>1. LoaderInv => FailsOnlyAtAStage
    <2> SUFFICES ASSUME LoaderInv, NEW l \in Loader
                 PROVE  /\ phase[l] = "failed" => "stage" \in seenSlots[l]
                        /\ L!Cardinality(loaded[l]) <= 1
        BY DEF FailsOnlyAtAStage, L!FailsOnlyAtAStage
    <2>1. Sees(l) /\ loaded[l] \in SUBSET Paths
        BY DEF LoaderInv
    <2>2. loaded[l] = {} \/ loaded[l] = {"stage"} \/ loaded[l] = {"dest"}
        BY <2>1 DEF Sees, Paths
    <2>3. Cardinality({}) = 0 /\ Cardinality({"stage"}) = 1 /\ Cardinality({"dest"}) = 1
        BY FS_EmptySet, FS_Singleton
    <2>4. L!Cardinality(loaded[l]) = Cardinality(loaded[l])
        BY DEF L!Cardinality, Cardinality, L!IsFiniteSet, IsFiniteSet
    <2> QED
        BY <2>1, <2>2, <2>3, <2>4 DEF Sees
<1> QED
    BY <1>1, SlotsInvariance, PTL

(* What is renamed into place is a whole release, whatever died or failed  *)
(* before and whatever it left behind.                                     *)
THEOREM PromotionsAreWhole == L!Spec => PromotedWhole
<1>1. ASSUME SlotInv /\ LoaderInv, [L!Next]_L!vars
      PROVE  [~dest.there /\ dest'.there => dest' \in L!Release]_L!vars
    <2>1. SUFFICES ASSUME ~dest.there, dest'.there PROVE dest' \in L!Release
        OBVIOUS
    <2>2. dest = L!Missing
        BY <1>1, <2>1, SlotFacts
    <2>3. dest' # L!Missing
        BY <2>1 DEF L!Missing
    <2> QED
        BY <1>1, <2>2, <2>3, SlotNext
<1> QED
    BY <1>1, SlotsInvariance, PTL DEF L!Spec, PromotedWhole, L!PromotedWhole

-----------------------------------------------------------------------------
(***************************************************************************)
(* Together.                                                               *)
(***************************************************************************)

(* A behaviour of the six is one of each: what is proved of a part above   *)
(* is so of them all.                                                      *)
THEOREM EachPartIsItself ==
    AllSpec => Spec /\ S!Spec /\ C!Spec /\ P!Spec /\ I!Spec /\ L!Spec
<1>1. AllInit => Init /\ S!Init /\ C!Init /\ P!Init /\ I!Init /\ L!Init
    BY DEF AllInit
<1>2. [AllNext]_allVars => [Next]_vars
    BY DEF AllNext, Elsewhere, allVars, pageVars
<1>3. [AllNext]_allVars => [S!Next]_S!vars
    BY DEF AllNext, Elsewhere, allVars, scanVars, S!vars
<1>4. [AllNext]_allVars => [C!Next]_C!vars
    BY DEF AllNext, Elsewhere, allVars, consoleVars, C!vars
<1>5. [AllNext]_allVars => [P!Next]_P!vars
    BY DEF AllNext, Elsewhere, allVars, priceVars, P!vars
<1>6. [AllNext]_allVars => [I!Next]_I!vars
    BY DEF AllNext, Elsewhere, allVars, uploadVars, I!vars, I!files, I!tables
<1>7. [AllNext]_allVars => [L!Next]_L!vars
    BY DEF AllNext, Elsewhere, allVars, slotVars, L!vars, L!installer, L!loaders
<1> QED
    BY <1>1, <1>2, <1>3, <1>4, <1>5, <1>6, <1>7, PTL
       DEF AllSpec, Spec, S!Spec, C!Spec, P!Spec, I!Spec, L!Spec
=============================================================================
