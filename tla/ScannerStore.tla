---------------------------- MODULE ScannerStore ----------------------------
(***************************************************************************)
(* The scanner page of the web console: the store that starts scans of the *)
(* two markets by hand and by timer (web/src/stores/scanner.ts), over one  *)
(* useSSE instance that both markets share (composables/useSSE.ts).        *)
(*                                                                         *)
(* What a callback does up to its next await is one action.                *)
(***************************************************************************)
EXTENDS Naturals

CONSTANTS
    CN, US,
    NoTimer,
    AutoMarket,  \* markets whose auto-scan switch is used
    MaxTimers,   \* bound: live intervals of a market
    MaxStalls    \* bound: streams that fall silent

Market == {CN, US}

VARIABLES
    status,     \* cnStatus and usStatus
    stream,     \* how far the call of start for each market is
    isRunning,  \* useSSE's flag, one for both markets
    enabled,    \* the auto-scan switches
    ticking,    \* live intervals that scan each market
    timer,      \* cnTimer and usTimer: the market that the interval scans
    lost,       \* live intervals whose handle was overwritten
    stalls

vars == <<status, stream, isRunning, enabled, ticking, timer, lost, stalls>>

ScannerAssumption ==
    /\ CN # US /\ NoTimer \notin Market
    /\ AutoMarket \subseteq Market
    /\ MaxTimers \in Nat \ {0} /\ MaxStalls \in Nat

TypeOK ==
    /\ status \in [Market -> {"idle", "running", "error"}]
    /\ stream \in [Market -> {"none", "fetching", "reading", "stalled"}]
    /\ isRunning \in BOOLEAN
    /\ enabled \in [Market -> BOOLEAN]
    /\ ticking \in [Market -> 0..MaxTimers]
    /\ timer \in [Market -> Market \cup {NoTimer}]
    /\ lost \in [Market -> 0..MaxTimers]
    /\ stalls \in 0..MaxStalls

NoTimers == [m \in Market |-> NoTimer]

-----------------------------------------------------------------------------
(* Auto-scan timers. *)

(* clearInterval. *)
Cut(live, m) == [live EXCEPT ![m] = IF @ = 0 THEN 0 ELSE @ - 1]

(* stopAutoScan: the live intervals and handles that are left. *)
StopTicking(m) == IF timer[m] = NoTimer THEN ticking ELSE Cut(ticking, timer[m])
StopTimer(m) == [timer EXCEPT ![m] = NoTimer]

(* startAutoScan keeps the interval of either market in cnTimer. *)
TimerOf(m) == CN

(* The handles after one more interval of m, and what m's own start        *)
(* overwrites: stopAutoScan('us') does not look into cnTimer.              *)
Keep(handles, m) ==
    /\ timer' = [handles EXCEPT ![TimerOf(m)] = m]
    /\ lost' = LET old == StopTimer(m)[TimerOf(m)]
               IN  IF old = NoTimer THEN lost ELSE [lost EXCEPT ![old] = @ + 1]

StartAutoScan(m) ==
    /\ StopTicking(m)[m] < MaxTimers
    /\ ticking' = [StopTicking(m) EXCEPT ![m] = @ + 1]
    /\ Keep(StopTimer(m), m)

StopAutoScan(m) == ticking' = StopTicking(m) /\ timer' = StopTimer(m) /\ UNCHANGED lost

(* Mutant: setInterval_ leaves the old interval alone. *)
SwitchOnTop(m, on) ==
    /\ enabled' = [enabled EXCEPT ![m] = on]
    /\ IF on THEN /\ ticking[m] < MaxTimers
                  /\ ticking' = [ticking EXCEPT ![m] = @ + 1]
                  /\ Keep(timer, m)
             ELSE StopAutoScan(m)
    /\ UNCHANGED <<status, stream, isRunning, stalls>>

(* toggleAutoScan, and setInterval_ of a switch that is on. *)
Switch(m, on) ==
    /\ enabled' = [enabled EXCEPT ![m] = on]
    /\ IF on THEN StartAutoScan(m) ELSE StopAutoScan(m)
    /\ UNCHANGED <<status, stream, isRunning, stalls>>

(* The page is loaded: switches are restored, cn's timer is started before *)
(* us's.                                                                   *)
Init ==
    /\ status = [m \in Market |-> "idle"]
    /\ stream = [m \in Market |-> "none"]
    /\ isRunning = FALSE
    /\ \E on \in SUBSET AutoMarket :
          /\ enabled = [m \in Market |-> m \in on]
          /\ ticking = [m \in Market |-> IF m \in on THEN 1 ELSE 0]
          /\ timer = IF US \in on THEN [NoTimers EXCEPT ![TimerOf(US)] = US]
                     ELSE [NoTimers EXCEPT ![CN] = IF CN \in on THEN CN ELSE NoTimer]
          /\ lost = [m \in Market |-> IF m = CN /\ on = Market THEN 1 ELSE 0]
    /\ stalls = 0

-----------------------------------------------------------------------------
(* A scan, up to the end of its stream. *)

(* scanCn and scanUs: the button is disabled, and the timer skips its      *)
(* turn, while the market is running.                                      *)
Scan(m) ==
    /\ status[m] # "running"
    /\ status' = [status EXCEPT ![m] = "running"]
    /\ stream' = [stream EXCEPT ![m] = "fetching"]
    /\ isRunning' = TRUE
    /\ UNCHANGED <<enabled, ticking, timer, lost, stalls>>

Tick(m) == ticking[m] > 0 /\ Scan(m)

Respond(m) ==
    /\ stream[m] = "fetching"
    /\ stream' = [stream EXCEPT ![m] = "reading"]
    /\ UNCHANGED <<status, isRunning, enabled, ticking, timer, lost, stalls>>

(* surfaceTerminalError and the store's onError. *)
SurfaceError(m) ==
    /\ status' = [status EXCEPT ![m] = "error"]
    /\ stream' = [stream EXCEPT ![m] = "none"]
    /\ isRunning' = FALSE
    /\ StopAutoScan(m)
    /\ UNCHANGED <<enabled, stalls>>

(* The request is refused, the connection breaks, or progress -1 arrives.  *)
Fail(m) ==
    /\ stream[m] # "none"
    /\ SurfaceError(m)

(* Progress 100 arrives. *)
Complete(m) ==
    /\ stream[m] = "reading"
    /\ stream' = [stream EXCEPT ![m] = "none"]
    /\ status' = [status EXCEPT ![m] = "idle"]
    /\ isRunning' = FALSE
    /\ UNCHANGED <<enabled, ticking, timer, lost, stalls>>

(* The response ends without 100 or -1: onComplete is not called. *)
EndBare(m) ==
    /\ stream[m] = "reading"
    /\ stream' = [stream EXCEPT ![m] = "none"]
    /\ isRunning' = FALSE
    /\ UNCHANGED <<status, enabled, ticking, timer, lost, stalls>>

(* No chunk arrives any more, not even a ping, ... *)
Stall(m) ==
    /\ stream[m] = "reading" /\ stalls < MaxStalls
    /\ stream' = [stream EXCEPT ![m] = "stalled"]
    /\ stalls' = stalls + 1
    /\ UNCHANGED <<status, isRunning, enabled, ticking, timer, lost>>

(* ... or one does after all. *)
Resume(m) ==
    /\ stream[m] = "stalled"
    /\ stream' = [stream EXCEPT ![m] = "reading"]
    /\ UNCHANGED <<status, isRunning, enabled, ticking, timer, lost, stalls>>

(* The watchdog of the stream, which looks at the shared flag first. *)
Watchdog(m) == stream[m] = "stalled" /\ isRunning /\ SurfaceError(m)

Next ==
    \E m \in Market :
        \/ Scan(m) \/ Tick(m) \/ Respond(m) \/ Fail(m) \/ Complete(m) \/ EndBare(m)
        \/ Stall(m) \/ Resume(m) \/ Watchdog(m)
        \/ m \in AutoMarket /\ \E on \in BOOLEAN : Switch(m, on)

Spec == Init /\ [][Next]_vars

(* The browser fires the interval of a watchdog. *)
FairSpec == Spec /\ \A m \in Market : WF_vars(Watchdog(m))

-----------------------------------------------------------------------------
(* Properties. *)

(* A market has one stream at most: while one is open the market is shown  *)
(* as running, so that neither button nor timer starts another.            *)
StreamingIsShown == \A m \in Market : stream[m] # "none" => status[m] = "running"

(* Whatever was toggled, stopped by an error or given another interval, in *)
(* either market: a live interval can be stopped by the handle in cnTimer, *)
(* unless the start of the American auto-scan put its own there; and while *)
(* that took nothing from the Chinese market, this one has an interval     *)
(* only if its switch is on, and one at most.  Of the American market, for *)
(* which the switch stops nothing, no such thing can be said.              *)
SwitchesRule ==
    /\ \A m \in Market : ticking[m] = lost[m] + IF timer[CN] = m THEN 1 ELSE 0
    /\ lost[CN] = 0 => ticking[CN] <= IF enabled[CN] THEN 1 ELSE 0

OneOfEach == StreamingIsShown /\ SwitchesRule

(* When a scan fails, no timer is left that would start the next one.      *)
ErrorStopsAutoScan ==
    [][\A m \in Market : status'[m] = "error" /\ status[m] # "error" => ticking'[m] = 0]_vars

(* A silent stream is given up or resumes. *)
EveryStallSurfaces == \A m \in Market : stream[m] = "stalled" ~> stream[m] # "stalled"

(* A market is shown as running only while there is a stream to end it.    *)
RunningHasStream == \A m \in Market : status[m] = "running" => stream[m] # "none"
=============================================================================
