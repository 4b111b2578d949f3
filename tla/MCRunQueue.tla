----------------------------- MODULE MCRunQueue -----------------------------
(* Instances of RunQueue for TLC. *)
EXTENDS RunQueue, TLC

\* No definition tells these identifiers apart.
Symmetry ==
  Permutations(JobIds) \cup Permutations(WorkerIds) \cup Permutations(HoldIds)
=============================================================================
