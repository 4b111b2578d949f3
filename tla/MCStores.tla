------------------------------ MODULE MCStores ------------------------------
(* The queue in its two stores, in one instance for TLC.  A server opens one of them when  *)
(* it starts (openStateStore) and keeps it: the other stays as it was.                     *)
EXTENDS RunQueue, PostgresQueue, TLC

VARIABLE backend  \* --state-backend

StoresInit == backend \in {"local", "postgres"} /\ Init /\ PoolInit

StoresNext ==
  \/ backend = "local" /\ Next /\ UNCHANGED <<backend, poolVars>>
  \/ backend = "postgres" /\ PoolNext /\ UNCHANGED <<backend, vars>>

StoresSpec == StoresInit /\ [][StoresNext]_<<backend, vars, poolVars>>

\* The fairness of FairSpec and of PoolSpec, each of the store that is open.
StoresFairSpec ==
  /\ StoresSpec
  /\ WF_vars(backend = "local" /\ Tick)
  /\ WF_vars(backend = "local" /\ ServedPoll)
  /\ WF_vars(backend = "local" /\ ExpireDueHeldHumanTasks)
  /\ \A s \in Sessions : /\ SF_poolVars(backend = "postgres" /\ Resume(s))
                         /\ WF_poolVars(backend = "postgres" /\ AbortDeadlocked(s))

\* No definition of either store tells these identifiers apart.
StoresSymmetry ==
  Permutations(Sessions) \cup Permutations(PgRunIds)
    \cup Permutations(JobIds) \cup Permutations(WorkerIds)
=============================================================================
