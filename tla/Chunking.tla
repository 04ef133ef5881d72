------------------------------ MODULE Chunking ------------------------------
(***************************************************************************)
(* ChunkingService.chunk_page (page_extraction_service.py): a page is cut  *)
(* into windows that overlap and end at a break if one is near; a window   *)
(* without its outer white space is a chunk, with the offsets that         *)
(* citations use.  One step is one turn of the loop.                       *)
(***************************************************************************)
EXTENDS Integers, Sequences

CONSTANTS
    Size,       \* chunk_size
    Overlap,    \* overlap
    Reach,      \* how far before its end a window may be cut (240)
    MaxLength   \* bound: characters of the page

ASSUME ChunkingAssumption ==
    /\ Size \in Nat \ {0} /\ Overlap \in Nat /\ Reach \in Nat
    /\ MaxLength \in Nat

(* Newlines and spaces are breaks; strip also removes other white space. *)
Kind == {"letter", "break", "tab"}
White == {"break", "tab"}

VARIABLES
    length, text,
    start,   \* where the next window starts
    end,     \* where the last one ended
    chunks,
    done

vars == <<length, text, start, end, chunks, done>>

Offset == 0..MaxLength

TypeOK ==
    /\ length \in Offset
    /\ text \in [0..(length - 1) -> Kind]
    /\ start \in Offset /\ end \in Offset
    /\ chunks \in Seq([from : Offset, to : Offset])
    /\ done \in BOOLEAN

Init ==
    /\ length \in Offset
    /\ text \in [0..(length - 1) -> Kind]
    /\ start = 0 /\ end = 0
    /\ chunks = <<>>
    /\ done = FALSE

-----------------------------------------------------------------------------
Lesser(a, b) == IF a < b THEN a ELSE b
Larger(a, b) == IF a > b THEN a ELSE b

IsBreak(i) == text[i] = "break"
IsWhite(i) == text[i] \in White

(* _last_break_before: the window from s to e ends behind its last break   *)
(* if that is near, and not its first character.                           *)
Split(s, e, x) ==
    \/ \E i \in (s + 1)..(e - 1) :
          /\ IsBreak(i) /\ x = i + 1
          /\ e - x <= Reach
          /\ \A j \in (i + 1)..(e - 1) : ~IsBreak(j)
    \/ x = e /\ \A i \in (s + 1)..(e - 1) : IsBreak(i) => e - (i + 1) > Reach

(* The end of the window from s. *)
WindowEnd(s, x) ==
    LET e == Lesser(length, s + Size)
    IN  IF e < length THEN Split(s, e, x) ELSE x = e

(* strip: what is left of the window. *)
Strip(s, x, f, t) ==
    /\ f \in s..(x - 1) /\ t \in (f + 1)..x
    /\ ~IsWhite(f) /\ ~IsWhite(t - 1)
    /\ \A i \in s..(f - 1) : IsWhite(i)
    /\ \A i \in t..(x - 1) : IsWhite(i)

Keep(s, x) ==
    IF \A i \in s..(x - 1) : IsWhite(i)
    THEN chunks' = chunks
    ELSE \E f \in Offset, t \in Offset :
            Strip(s, x, f, t) /\ chunks' = Append(chunks, [from |-> f, to |-> t])

(* Mutants: the break is skipped; the window may stand still. *)
NextSkips(s, x) == x + 1
NextStays(s, x) == x - Lesser(Overlap, Size - 1)

(* The constructor limits the overlap. *)
NextStart(s, x) == Larger(s + 1, x - Lesser(Overlap, Size - 1))

Letters == \E i \in 0..(length - 1) : ~IsWhite(i)

Cut ==
    /\ ~done /\ Letters /\ start < length
    /\ \E x \in Offset :
          /\ WindowEnd(start, x)
          /\ Keep(start, x)
          /\ end' = x
          /\ \/ x >= length /\ done' = TRUE /\ start' = start
             \/ x < length /\ done' = FALSE /\ start' = NextStart(start, x)
    /\ UNCHANGED <<length, text>>

(* A page of white space has no window. *)
Blank ==
    /\ ~done /\ ~Letters
    /\ done' = TRUE
    /\ UNCHANGED <<length, text, start, end, chunks>>

Next == Cut \/ Blank

Spec == Init /\ [][Next]_vars

(* The loop runs. *)
FairSpec == Spec /\ WF_vars(Next)

-----------------------------------------------------------------------------
(* Properties. *)

(* Nothing of the page is lost between windows: each letter up to the end  *)
(* of the last window is in a chunk, and at the end of the loop this is    *)
(* the whole page.                                                         *)
Covers ==
    /\ \A p \in 0..(end - 1) :
          ~IsWhite(p) => \E k \in 1..Len(chunks) : chunks[k].from <= p /\ p < chunks[k].to
    /\ done /\ Letters => end = length

(* The offsets of a chunk are those of its text, which starts and ends     *)
(* with a letter and is no longer than chunk_size.                         *)
Citeable ==
    \A k \in 1..Len(chunks) :
        LET c == chunks[k] IN
        /\ c.from < c.to /\ c.to <= length /\ c.to - c.from <= Size
        /\ ~IsWhite(c.from) /\ ~IsWhite(c.to - 1)

(* chunk_size leaves room for the overlap and the reach, as the default    *)
(* 1200 does for 120 and 240.                                              *)
Roomy == Size > Overlap + Reach

(* No window ends where an earlier one did, so that no chunk only repeats  *)
(* the end of another.                                                     *)
EndsAdvance == [][Cut => end' > end]_vars

(* The loop ends for every page and every size. *)
Terminates == <>done
=============================================================================
