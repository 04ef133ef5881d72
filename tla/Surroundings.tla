---------------------------- MODULE Surroundings ----------------------------
(***************************************************************************)
(* What runs work with: the data they cite and the slots that extend them. *)
(* The six parts share no state, so that each behaviour here is one of one *)
(* part, and the others stay where they begin.                             *)
(***************************************************************************)
EXTENDS Chunking

CONSTANTS
    MaxScans, Tickers,
    CN, US, NoTimer, AutoMarket, MaxTimers, MaxStalls,
    Saver, Window, Retention, MaxDay,
    Process, MaxUploads, Small, MaxDeaths,
    Manifest, Package, Loader, MaxFaults

VARIABLES
    part,
    lock, scanning, scan, server, path, tried, kept, queue, response, told,
    status, stream, isRunning, enabled, ticking, timer, lost, stalls,
    today, trading, bars, save, day, early, seen, outcome,
    intake, upload, doc, extract, shared, stored, torn, writes,
    rows, content, page, cut, answered, uploads, deaths,
    stage, dest, install, src, open, faults, phase, seenSlots, unread, loaded

pageVars == vars
scanVars == <<lock, scanning, scan, server, path, tried, kept, queue, response, told>>
consoleVars == <<status, stream, isRunning, enabled, ticking, timer, lost, stalls>>
priceVars == <<today, trading, bars, save, day, early, seen, outcome>>
uploadVars ==
    <<intake, upload, doc, extract, shared, stored, torn, writes,
      rows, content, page, cut, answered, uploads, deaths>>
slotVars == <<stage, dest, install, src, open, faults, phase, seenSlots, unread, loaded>>
allVars == <<part, pageVars, scanVars, consoleVars, priceVars, uploadVars, slotVars>>

S == INSTANCE MarketScan WITH status <- scanning, pc <- scan, stream <- response
C == INSTANCE ScannerStore
P == INSTANCE PriceStore WITH pc <- save
I == INSTANCE DocumentIntake WITH pc <- intake, text <- extract, chunks <- cut
L == INSTANCE SlotInstall WITH pc <- install, seen <- seenSlots

ASSUME SurroundingsAssumption ==
    /\ S!MarketScanAssumption /\ C!ScannerAssumption
    /\ P!PriceAssumption /\ I!IntakeAssumption /\ L!SlotInstallAssumption

Part == {"page", "scan", "console", "prices", "uploads", "slots"}

(* A part that stays where it begins, begins in one way.  Only the first   *)
(* scan downloads; the others are there to contend with it.                *)
AllInit ==
    /\ part \in Part
    /\ Init /\ (part # "page" => length = 0)
    /\ S!Init /\ server \subseteq {1} /\ (part # "scan" => server = {} /\ path = {})
    /\ C!Init /\ (part # "console" => \A m \in {CN, US} : ~enabled[m])
    /\ P!Init
    /\ I!Init
    /\ L!Init /\ (part # "slots" => src = CHOOSE x \in L!Release : TRUE)

(* A step of part p leaves the others alone. *)
Elsewhere(p) ==
    /\ UNCHANGED part
    /\ p # "page" => UNCHANGED pageVars
    /\ p # "scan" => UNCHANGED scanVars
    /\ p # "console" => UNCHANGED consoleVars
    /\ p # "prices" => UNCHANGED priceVars
    /\ p # "uploads" => UNCHANGED uploadVars
    /\ p # "slots" => UNCHANGED slotVars

AllNext ==
    \/ part = "page" /\ Next /\ Elsewhere("page")
    \/ part = "scan" /\ S!Next /\ Elsewhere("scan")
    \/ part = "console" /\ C!Next /\ Elsewhere("console")
    \/ part = "prices" /\ P!Next /\ Elsewhere("prices")
    \/ part = "uploads" /\ I!Next /\ Elsewhere("uploads")
    \/ part = "slots" /\ L!Next /\ Elsewhere("slots")

(* The fairness of the parts: the loop over a page, the threads of a scan, *)
(* the processes that take uploads, and installers that have begun.        *)
AllSpec ==
    /\ AllInit /\ [][AllNext]_allVars
    /\ WF_pageVars(part = "page" /\ Next)
    /\ \A s \in 1..MaxScans : WF_scanVars(part = "scan" /\ S!Thread(s))
    /\ \A p \in Process : WF_uploadVars(part = "uploads" /\ I!Proceed(p))
    /\ WF_slotVars(part = "slots" /\ L!Install)

-----------------------------------------------------------------------------
(* The properties of the parts; Covers is Chunking's. *)

(* Every page is cut to its end, whatever the size of its windows. *)
PageEnds == part = "page" => Terminates

(* One scan writes a market, its status is no lie, and a failure that it   *)
(* reports has stored nothing.                                             *)
ScanIsSound == S!ScanIsSound

(* A scan that began gives the market back. *)
BegunMeansReleased == S!BegunMeansReleased

(* The console has one stream for a market at most, and no interval that   *)
(* cannot be stopped but those whose handle the American auto-scan took.   *)
OneOfEach == C!OneOfEach

(* Overlapping savers leave no hole in the history of a ticker, and what   *)
(* succeeded is in it.                                                     *)
HistoryIsSound == P!HistoryIsSound

(* The chunks of an upload that was answered are stored. *)
AnsweredIsExtracted == I!AnsweredIsExtracted

(* A second row for one content needs two uploads at once. *)
RowsNeedOverlap == I!RowsNeedOverlap

(* While nobody dies a torn file is written in the end. *)
TornHeals == I!TornHeals

(* What is renamed into place is a whole release. *)
PromotedWhole == L!PromotedWhole

(* An installation that reports success left the slot as its source. *)
SuccessMeansInstalled == L!SuccessMeansInstalled

(* A runtime fails to build its registry only if it saw a stage directory. *)
FailsOnlyAtAStage == L!FailsOnlyAtAStage

(* What an installer left in the stage directory goes away with the next.  *)
Heals == L!Heals
=============================================================================
