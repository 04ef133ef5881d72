----------------------------- MODULE PriceStore -----------------------------
(***************************************************************************)
(* The daily bars of one ticker: downloads of the last Window bars         *)
(* (tdx.py, tdx_helpers.bars_to_df) that savers store with save_prices     *)
(* (sqlite_storage.py).  The lock of a market holds in one process only:   *)
(* another process saves the same ticker at the same time.                 *)
(*                                                                         *)
(* Days are trading days.  A connection reads MAX(date), commits the       *)
(* append (DataFrame.to_sql), and then commits the deletion of old bars.   *)
(***************************************************************************)
EXTENDS Naturals

CONSTANTS
    Saver,
    Window,     \* bars of a download (120)
    Retention,  \* days that are kept (730)
    MaxDay      \* bound: days

Day == 1..MaxDay

VARIABLES
    today,
    trading,  \* the bar of today still changes
    bars,     \* stock_prices: what is stored for a day
    pc,       \* how far each saver is
    day,      \* last day of the frame it has
    early,    \* that bar was downloaded while it changed
    seen,     \* MAX(date) that it has read
    outcome   \* of its last save

vars == <<today, trading, bars, pc, day, early, seen, outcome>>

PriceAssumption ==
    /\ Window \in Nat \ {0} /\ Retention \in Nat /\ MaxDay \in Nat \ {0}
    /\ Window <= Retention

TypeOK ==
    /\ today \in Day /\ trading \in BOOLEAN
    /\ bars \in [Day -> {"none", "early", "final"}]
    /\ pc \in [Saver -> {"idle", "frame", "anchor", "prune"}]
    /\ day \in [Saver -> 0..MaxDay] /\ early \in [Saver -> BOOLEAN]
    /\ seen \in [Saver -> 0..MaxDay]
    /\ outcome \in [Saver -> {"none", "stored", "failed"}]

Init ==
    /\ today = 1 /\ trading = TRUE
    /\ bars = [d \in Day |-> "none"]
    /\ pc = [s \in Saver |-> "idle"]
    /\ day = [s \in Saver |-> 0] /\ early = [s \in Saver |-> FALSE]
    /\ seen = [s \in Saver |-> 0]
    /\ outcome = [s \in Saver |-> "none"]

-----------------------------------------------------------------------------
Stored == {d \in Day : bars[d] # "none"}

(* MAX(date), and 0 for a new ticker. *)
Newest == IF Stored = {} THEN 0 ELSE CHOOSE d \in Stored : \A e \in Stored : e <= d

(* The frame of a saver: the last bars up to its day. *)
Frame(s) == {d \in Day : d <= day[s] /\ day[s] < d + Window}
Bar(s, d) == IF d = day[s] /\ early[s] THEN "early" ELSE "final"

Goes(s, from, to) == pc[s] = from /\ pc' = [pc EXCEPT ![s] = to]

(* download_kline: bars_to_df takes the last bars, today's included. *)
Download(s) ==
    /\ Goes(s, "idle", "frame")
    /\ day' = [day EXCEPT ![s] = today]
    /\ early' = [early EXCEPT ![s] = trading]
    /\ outcome' = [outcome EXCEPT ![s] = "none"]
    /\ UNCHANGED <<today, trading, bars, seen>>

Anchor(s) ==
    /\ Goes(s, "frame", "anchor")
    /\ seen' = [seen EXCEPT ![s] = Newest]
    /\ UNCHANGED <<today, trading, bars, day, early, outcome>>

(* Mutant: the anchor is taken for the last day that was closed. *)
FreshLate(s) == {d \in Frame(s) : seen[s] = 0 \/ d > seen[s] + 1}

(* The bars that are to be appended. *)
Fresh(s) == {d \in Frame(s) : seen[s] = 0 \/ d > seen[s]}

Ends(s, how) == outcome' = [outcome EXCEPT ![s] = how]

(* There is nothing newer: save_prices returns before it prunes. *)
NothingNew(s) ==
    /\ Fresh(s) = {}
    /\ Goes(s, "anchor", "idle")
    /\ Ends(s, "stored")
    /\ UNCHANGED <<today, trading, bars, day, early, seen>>

AppendBars(s) ==
    /\ Fresh(s) # {} /\ Fresh(s) \cap Stored = {}
    /\ Goes(s, "anchor", "prune")
    /\ bars' = [d \in Day |-> IF d \in Fresh(s) THEN Bar(s, d) ELSE bars[d]]
    /\ UNCHANGED <<today, trading, day, early, seen, outcome>>

(* The primary key refuses the whole append: StorageWriteError. *)
Conflict(s) ==
    /\ Fresh(s) \cap Stored # {}
    /\ Goes(s, "anchor", "idle")
    /\ Ends(s, "failed")
    /\ UNCHANGED <<today, trading, bars, day, early, seen>>

Prune(s) ==
    /\ Goes(s, "prune", "idle")
    /\ bars' = [d \in Day |-> IF d + Retention < today THEN "none" ELSE bars[d]]
    /\ Ends(s, "stored")
    /\ UNCHANGED <<today, trading, day, early, seen>>

(* The database is locked or broken, or the process dies. *)
Fails(s) ==
    /\ pc[s] # "idle"
    /\ pc' = [pc EXCEPT ![s] = "idle"]
    /\ Ends(s, "failed")
    /\ UNCHANGED <<today, trading, bars, day, early, seen>>

Close ==
    /\ trading
    /\ trading' = FALSE
    /\ UNCHANGED <<today, bars, pc, day, early, seen, outcome>>

(* The next day opens.  Scans are no further apart than a download         *)
(* reaches, and a save is over before the day after the next one.          *)
Open ==
    /\ ~trading /\ today < MaxDay
    /\ today < Newest + Window
    /\ \A s \in Saver : pc[s] # "idle" => day[s] = today
    /\ today' = today + 1 /\ trading' = TRUE
    /\ UNCHANGED <<bars, pc, day, early, seen, outcome>>

Next ==
    \/ Open \/ Close
    \/ \E s \in Saver :
          \/ Download(s) \/ Anchor(s) \/ NothingNew(s) \/ AppendBars(s)
          \/ Conflict(s) \/ Prune(s) \/ Fails(s)

Spec == Init /\ [][Next]_vars

-----------------------------------------------------------------------------
(* Properties. *)

(* Savers that overlap, fail or die between their transactions leave no    *)
(* hole in the history of a ticker.                                        *)
NoHole == \A d \in Day : (\E e \in Stored : e < d) /\ d < Newest => bars[d] # "none"

(* A save that succeeded has the last bar of its frame, or a later one,    *)
(* stored, whoever stored it.                                              *)
SuccessIsCurrent == \A s \in Saver : outcome[s] = "stored" => Newest >= day[s]

(* The history has no hole, and what succeeded is in it. *)
HistoryIsSound == NoHole /\ SuccessIsCurrent

(* What a save that succeeded has downloaded is what is stored. *)
DownloadedIsStored ==
    \A s \in Saver : outcome[s] = "stored" =>
        \A d \in Frame(s) : bars[d] = "final" \/ bars[d] = Bar(s, d) \/ d + Retention < today
=============================================================================
