---------------------------- MODULE RunLifecycle ----------------------------
(***************************************************************************)
(* What a caller of the run API may rely on: the states a run goes through *)
(* and the steps between them.  One store transaction may move several     *)
(* runs, each along one edge.                                              *)
(***************************************************************************)
CONSTANT RunIds

VARIABLE phase

Edges ==
  {<<"absent", "QUEUED">>}
    \cup ({"QUEUED", "RESUMING"} \X {"RUNNING", "CANCELED", "EXPIRED"})
    \cup ({"RUNNING"} \X {"SUCCEEDED", "FAILED", "CANCELED", "EXPIRED", "WAITING_HUMAN"})
    \cup ({"WAITING_HUMAN"} \X {"RESUMING", "CANCELED"})
    \cup ({"FAILED", "CANCELED", "EXPIRED"} \X {"QUEUED", "absent"})
    \cup {<<"SUCCEEDED", "absent">>}

Init == phase = [r \in RunIds |-> "absent"]

Next == \A r \in RunIds : phase'[r] = phase[r] \/ <<phase[r], phase'[r]>> \in Edges

Spec == Init /\ [][Next]_phase
=============================================================================
