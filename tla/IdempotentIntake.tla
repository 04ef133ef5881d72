-------------------------- MODULE IdempotentIntake --------------------------
(***************************************************************************)
(* What POST /v1/sessions/{id}/turns promises the clients of one session,  *)
(* with neither processes nor transactions: a request is accepted once, a  *)
(* key has one run, and an answer names the run that was accepted.         *)
(***************************************************************************)
EXTENDS Naturals, Sequences

CONSTANTS Request, NoKey, KeyOf

VARIABLES
    runs,     \* the keys of the runs, in the order in which they were created
    outcome   \* what became of each request, and its run

RunsOf(key) == {r \in 1..Len(runs) : runs[r] = key /\ key # NoKey}

Init ==
    /\ runs = <<>>
    /\ outcome = [q \in Request |-> [state |-> "new", run |-> 0]]

Join(q) ==
    /\ outcome[q].state = "new"
    /\ \E r \in RunsOf(KeyOf[q]) :
          outcome' = [outcome EXCEPT ![q] = [state |-> "served", run |-> r]]
    /\ UNCHANGED runs

Create(q) ==
    /\ outcome[q].state = "new"
    /\ RunsOf(KeyOf[q]) = {}
    /\ runs' = Append(runs, KeyOf[q])
    /\ outcome' = [outcome EXCEPT ![q] = [state |-> "served", run |-> Len(runs) + 1]]

Answer(q) ==
    /\ outcome[q].state = "served"
    /\ outcome' = [outcome EXCEPT ![q].state = "answered"]
    /\ UNCHANGED runs

Refuse(q) ==
    /\ outcome[q].state = "new"
    /\ outcome' = [outcome EXCEPT ![q].state = "refused"]
    /\ UNCHANGED runs

(* The client gets no answer, whether the run was created or not. *)
Lose(lost) ==
    /\ \A q \in lost : outcome[q].state \in {"new", "served"}
    /\ outcome' = [q \in Request |-> IF q \in lost THEN [outcome[q] EXCEPT !.state = "lost"]
                                                   ELSE outcome[q]]
    /\ UNCHANGED runs

Next ==
    \/ \E q \in Request : Join(q) \/ Create(q) \/ Answer(q) \/ Refuse(q)
    \/ \E lost \in SUBSET Request : Lose(lost)

Spec == Init /\ [][Next]_<<runs, outcome>>
=============================================================================
