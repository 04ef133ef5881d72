------------------------------- MODULE RunLog -------------------------------
(***************************************************************************)
(* A run as the readers of its event log see it: the status and the events *)
(* change together (transition_recorder.py), and only the statuses and the *)
(* events that close a stream are told apart.  RunKernel is the detailed   *)
(* writer; AgentDaemon is checked to implement this one.                   *)
(***************************************************************************)
EXTENDS Naturals, Sequences

VARIABLES status, events

log == <<status, events>>

Terminal == {"COMPLETED", "FAILED", "CANCELLED"}
Status == {"ACTIVE", "AWAITING_APPROVAL"} \cup Terminal
Kind == {"step", "approval_requested", "artifact_created", "error", "run_cancelled"}

Init ==
    /\ status = "ACTIVE"
    /\ events \in {<<>>, <<"step">>, <<"step", "step">>}

Commit(new, from, to) ==
    /\ status = from /\ status' = to
    /\ events' = events \o new

(* Rounds, tool calls and their results, and the way into the queue. *)
Work == \E new \in {<<"step">>, <<"step", "step">>} : Commit(new, "ACTIVE", "ACTIVE")

Pause == Commit(<<"approval_requested">>, "ACTIVE", "AWAITING_APPROVAL")

(* An approval is recorded together with the way into the queue; a request *)
(* to cancel records no event.                                             *)
Proceed ==
    \/ Commit(<<"step", "step">>, "AWAITING_APPROVAL", "ACTIVE")
    \/ Commit(<<>>, "AWAITING_APPROVAL", "ACTIVE")

(* A denial ends the run, also one that is being cancelled, and its event  *)
(* is not one that closes streams.                                         *)
Deny == \E from \in {"ACTIVE", "AWAITING_APPROVAL"} : Commit(<<"step">>, from, "FAILED")

Ends ==
    \/ Commit(<<"artifact_created">>, "ACTIVE", "COMPLETED")
    \/ Commit(<<"run_cancelled">>, "ACTIVE", "CANCELLED")
    \/ Commit(<<"error">>, "ACTIVE", "FAILED")

Next == Work \/ Pause \/ Proceed \/ Deny \/ Ends

Spec == Init /\ [][Next]_log
=============================================================================
