---------------------------- MODULE RunDispatch ----------------------------
(***************************************************************************)
(* What the queue of runs promises those who put runs into it, without a   *)
(* table, leases, heartbeats and processes: a run that is open is handed   *)
(* to one worker at a time and so often at most; it is closed by somebody  *)
(* who worked on it, or given up when it has been handed out that often.   *)
(***************************************************************************)
EXTENDS Naturals

CONSTANTS Run, Worker, Nobody, MaxAttempts

VARIABLES
    open,    \* the runs that are to be worked on
    doing,   \* what each worker works on
    handed   \* how often each run was handed out

Idle(r) == \A w \in Worker : doing[w] # r

Init ==
    /\ open = {}
    /\ doing = [w \in Worker |-> Nobody]
    /\ handed = [r \in Run |-> 0]

(* A run that was closed may be opened again, and keeps its count. *)
Offer(r) ==
    /\ Idle(r)
    /\ open' = open \cup {r}
    /\ UNCHANGED <<doing, handed>>

Hand(w, r) ==
    /\ r \in open /\ Idle(r) /\ doing[w] = Nobody
    /\ handed[r] < MaxAttempts
    /\ doing' = [doing EXCEPT ![w] = r]
    /\ handed' = [handed EXCEPT ![r] = handed[r] + 1]
    /\ UNCHANGED open

(* The worker has done what it could, or died. *)
Stop(w) ==
    /\ doing[w] # Nobody
    /\ doing' = [doing EXCEPT ![w] = Nobody]
    /\ UNCHANGED <<open, handed>>

Close(r) ==
    /\ r \in open /\ Idle(r) /\ handed[r] > 0
    /\ open' = open \ {r}
    /\ UNCHANGED <<doing, handed>>

GiveUp(spent) ==
    /\ spent \subseteq open
    /\ \A r \in spent : Idle(r) /\ handed[r] = MaxAttempts
    /\ open' = open \ spent
    /\ UNCHANGED <<doing, handed>>

Next ==
    \/ \E r \in Run : Offer(r) \/ Close(r) \/ \E w \in Worker : Hand(w, r)
    \/ \E w \in Worker : Stop(w)
    \/ \E spent \in SUBSET Run : GiveUp(spent)

Spec == Init /\ [][Next]_<<open, doing, handed>>
=============================================================================
