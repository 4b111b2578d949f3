--------------------------- MODULE RuntimeProofs ---------------------------
(***************************************************************************)
(* Proofs about what runs: AppRuntime, for every number of jobs, objects   *)
(* and attempts; SecretCandidates, for every number of requests and every  *)
(* grace period longer than a request; WorkerFleet, for every number of    *)
(* workers, credentials and crossing requests; and WorkerProcess, for      *)
(* every number of processes, attempts, lost calls and every length of a   *)
(* lease.                                                                  *)
(***************************************************************************)
EXTENDS AppRuntime, SecretCandidates, WorkerFleet, WorkerProcess, TLAPS

-----------------------------------------------------------------------------
(* AppRuntime: the inductive invariant *)

AppJob == [state : {"queued", "running", "done"}, attempt : 0..MaxAppAttempts,
           expires : 0..(MaxAppClock + AppLease), started : 0..MaxAppClock,
           canceled : BOOLEAN]

\* What the lifecycle has told the attempts that run, and what the attempts
\* have read and recorded.
AppInv ==
  /\ AppRuntimeTypeOK
  /\ objects = [o \in Objects |-> objects[o]]
  /\ \A o \in Objects : objects[o] = [revision |-> objects[o].revision,
                                       writer   |-> objects[o].writer]
  /\ app.updated <= appClock
  /\ \A j \in AppJobs : appJob[j].started <= appClock
  /\ RetiredAppLetsGo
  /\ \A r \in operations : r[2] <= appJob[r[1]].attempt
  /\ \A o \in Objects, j \in AppJobs : readers[o][j] <= appJob[j].attempt

\* Recovery keeps the attempt of a job and starts none.
LEMMA RecoveredJobs ==
  ASSUME AppRuntimeTypeOK, NEW j \in AppJobs
  PROVE  /\ Recovered[j] \in AppJob /\ Recovered[j].attempt = appJob[j].attempt
         /\ Recovered[j].started <= appJob[j].started
         /\ Recovered[j].state = "running" => Recovered[j] = appJob[j]
<1>1. appJob[j] \in AppJob
  BY DEF AppRuntimeTypeOK, AppJob
<1>2. Recovered[j] =
        IF appJob[j].state # "running" \/ AppLeaseValid(j) THEN appJob[j]
        ELSE IF appJob[j].canceled THEN [appJob[j] EXCEPT !.state = "done", !.expires = 0]
        ELSE [appJob[j] EXCEPT !.state = "queued", !.expires = 0, !.started = 0]
  BY DEF Recovered
<1>3. 0 \in 0..(MaxAppClock + AppLease) /\ 0 \in 0..MaxAppClock
  BY AppRuntimeAssumption
<1>4. appJob[j].started \in Nat /\ appJob[j].started <= appJob[j].started
  BY <1>1, AppRuntimeAssumption DEF AppJob
<1>. DEFINE back == [appJob[j] EXCEPT !.state = "queued", !.expires = 0, !.started = 0]
            stop == [appJob[j] EXCEPT !.state = "done", !.expires = 0]
<1>5. back \in AppJob /\ back.attempt = appJob[j].attempt /\ back.started = 0
      /\ back.state = "queued"
  BY <1>1, <1>3 DEF AppJob
<1>6. stop \in AppJob /\ stop.attempt = appJob[j].attempt /\ stop.started = appJob[j].started
      /\ stop.state = "done"
  BY <1>1, <1>3 DEF AppJob
<1>7. Recovered[j] \in {appJob[j], back, stop}
  BY <1>2
<1>. HIDE DEF back, stop
<1>. QED
  BY <1>1, <1>4, <1>5, <1>6, <1>7

\* AppInv in the words of single jobs.
LEMMA AppFacts ==
  ASSUME AppInv
  PROVE  /\ appJob \in [AppJobs -> AppJob]
         /\ \A j \in AppJobs : appJob[j] \in AppJob
         /\ app.state \in {"active", "tombstoned", "revoked"}
         /\ app.revision \in 0..MaxChanges /\ app.updated \in 0..MaxAppClock
         /\ appClock \in 0..MaxAppClock
         /\ operations \subseteq Requests
BY DEF AppInv, AppRuntimeTypeOK, AppJob

\* A change of the jobs alone.
LEMMA AppJobsChange ==
  ASSUME AppInv, appJob' \in [AppJobs -> AppJob],
         UNCHANGED <<app, objects, operations, appClock, readers>>,
         \A j \in AppJobs :
           /\ appJob'[j].started <= appClock /\ appJob[j].attempt <= appJob'[j].attempt
           /\ appJob'[j].state = "running" =>
                \/ app.state = "active"
                \/ /\ appJob[j].state = "running" /\ appJob'[j].started = appJob[j].started
                   /\ appJob'[j].canceled = appJob[j].canceled
  PROVE  AppInv'
<1>1. AppRuntimeTypeOK'
  BY DEF AppInv, AppRuntimeTypeOK, AppJob
<1>2. RetiredAppLetsGo'
  BY DEF AppInv, RetiredAppLetsGo, AllowsRunningAttempt
<1>3. \A r \in operations' : r[2] <= appJob'[r[1]].attempt
  <2>. SUFFICES ASSUME NEW r \in operations PROVE r[2] <= appJob'[r[1]].attempt
    OBVIOUS
  <2>1. r[1] \in AppJobs /\ r[2] \in Nat /\ r[2] <= appJob[r[1]].attempt
    BY AppRuntimeAssumption, AppFacts DEF AppInv, Requests
  <2>2. appJob[r[1]].attempt \in Nat /\ appJob'[r[1]].attempt \in Nat
    BY <2>1, AppFacts, AppRuntimeAssumption DEF AppJob
  <2>. QED
    BY <2>1, <2>2
<1>4. \A o \in Objects, j \in AppJobs : readers'[o][j] <= appJob'[j].attempt
  <2>. SUFFICES ASSUME NEW o \in Objects, NEW j \in AppJobs PROVE readers[o][j] <= appJob'[j].attempt
    OBVIOUS
  <2>1. /\ readers[o][j] \in Nat /\ readers[o][j] <= appJob[j].attempt
        /\ appJob[j].attempt <= appJob'[j].attempt
    BY AppRuntimeAssumption DEF AppInv, AppRuntimeTypeOK
  <2>2. appJob[j].attempt \in Nat /\ appJob'[j].attempt \in Nat
    BY AppFacts, AppRuntimeAssumption DEF AppJob
  <2>. QED
    BY <2>1, <2>2
<1>. QED
  BY <1>1, <1>2, <1>3, <1>4 DEF AppInv

(* A claim of an active app gives a lease with a new attempt. *)
LEMMA ClaimAppJobKeeps ==
  ASSUME AppInv, NEW j \in AppJobs, ClaimAppJob(j)
  PROVE  AppInv'
<1>. DEFINE new == [Recovered[j] EXCEPT !.state = "running", !.attempt = @ + 1,
                                        !.expires = appClock + AppLease, !.started = appClock]
<1>0. AppRuntimeTypeOK /\ appClock \in 0..MaxAppClock
  BY DEF AppInv, AppRuntimeTypeOK
<1>1. /\ appJob[j].attempt + 1 \in 0..MaxAppAttempts
      /\ appClock + AppLease \in 0..(MaxAppClock + AppLease) /\ appClock <= appClock
  <2>1. appJob[j].attempt \in 0..MaxAppAttempts /\ appJob[j].attempt < MaxAppAttempts
    BY AppFacts DEF ClaimAppJob, AppJob
  <2>. QED
    BY <1>0, <2>1, AppRuntimeAssumption
<1>2. /\ Recovered = [i \in AppJobs |-> Recovered[i]]
      /\ \A i \in AppJobs : Recovered[i] \in AppJob
      /\ appJob' = [Recovered EXCEPT ![j] = new]
  <2>1. Recovered = [i \in AppJobs |-> Recovered[i]]
    BY DEF Recovered
  <2>. QED
    BY <1>0, <2>1, RecoveredJobs DEF ClaimAppJob
<1>3. Recovered[j] \in AppJob /\ Recovered[j].attempt = appJob[j].attempt
  BY <1>0, RecoveredJobs
<1>4. new \in AppJob /\ new.attempt = appJob[j].attempt + 1 /\ new.started = appClock
  BY <1>0, <1>1, <1>3 DEF AppJob
<1>. HIDE DEF new
<1>5. appJob' \in [AppJobs -> AppJob] /\ appJob'[j] = new
      /\ \A i \in AppJobs \ {j} : appJob'[i] = Recovered[i]
  BY <1>2, <1>4
<1>6. ASSUME NEW i \in AppJobs
      PROVE  appJob'[i].started <= appClock /\ appJob[i].attempt <= appJob'[i].attempt
  <2>1. /\ Recovered[i].started <= appJob[i].started /\ appJob[i].started <= appClock
        /\ Recovered[i].attempt = appJob[i].attempt
        /\ Recovered[i] \in AppJob /\ appJob[i] \in AppJob
    BY <1>0, RecoveredJobs, AppFacts DEF AppInv
  <2>. QED
    BY <1>0, <1>4, <1>5, <2>1, AppRuntimeAssumption DEF AppJob
<1>. QED
  BY <1>5, <1>6, AppJobsChange DEF ClaimAppJob
(* A claim of another app only takes back leases that have run out. *)
LEMMA ClaimElsewhereKeeps ==
  ASSUME AppInv, ClaimElsewhere
  PROVE  AppInv'
<1>0. AppRuntimeTypeOK
  BY DEF AppInv
<1>1. appJob' = Recovered /\ Recovered = [i \in AppJobs |-> Recovered[i]]
  BY DEF ClaimElsewhere, Recovered
<1>2. ASSUME NEW i \in AppJobs
      PROVE  /\ Recovered[i] \in AppJob
             /\ Recovered[i].started <= appClock /\ appJob[i].attempt <= Recovered[i].attempt
             /\ Recovered[i].state = "running" => Recovered[i] = appJob[i]
  <2>1. /\ Recovered[i].started <= appJob[i].started /\ appJob[i].started <= appClock
        /\ Recovered[i].attempt = appJob[i].attempt /\ appClock \in Nat
        /\ Recovered[i] \in AppJob /\ appJob[i] \in AppJob
        /\ Recovered[i].state = "running" => Recovered[i] = appJob[i]
    BY <1>0, RecoveredJobs, AppFacts, AppRuntimeAssumption DEF AppInv
  <2>. QED
    BY <2>1, AppRuntimeAssumption DEF AppJob
<1>3. appJob' \in [AppJobs -> AppJob]
  BY <1>1, <1>2
<1>. QED
  BY <1>1, <1>2, <1>3, AppJobsChange DEF ClaimElsewhere

(* A heartbeat renews the lease of an attempt that still has one. *)
LEMMA RenewAppJobKeeps ==
  ASSUME AppInv, NEW j \in AppJobs, RenewAppJob(j)
  PROVE  AppInv'
<1>. DEFINE new == [appJob[j] EXCEPT !.expires = appClock + AppLease]
<1>0. /\ appJob \in [AppJobs -> AppJob] /\ appJob[j] \in AppJob
      /\ appClock + AppLease \in 0..(MaxAppClock + AppLease)
      /\ \A i \in AppJobs : appJob[i].started <= appClock /\ appJob[i].attempt \in Nat
  BY AppFacts, AppRuntimeAssumption DEF AppInv, AppJob
<1>1. /\ new \in AppJob /\ new.attempt = appJob[j].attempt /\ new.started = appJob[j].started
      /\ new.state = appJob[j].state /\ new.canceled = appJob[j].canceled
  BY <1>0 DEF AppJob
<1>2. appJob' = [appJob EXCEPT ![j] = new]
  BY DEF RenewAppJob
<1>. HIDE DEF new
<1>3. appJob' \in [AppJobs -> AppJob] /\ \A i \in AppJobs : appJob'[i] = IF i = j THEN new ELSE appJob[i]
  BY <1>0, <1>1, <1>2
<1>. QED
  BY <1>0, <1>1, <1>3, AppJobsChange DEF RenewAppJob

(* A completion ends the lease it presents. *)
LEMMA CompleteAppJobKeeps ==
  ASSUME AppInv, NEW j \in AppJobs, CompleteAppJob(j)
  PROVE  AppInv'
<1>. DEFINE new == [appJob[j] EXCEPT !.state = "done", !.expires = 0]
<1>0. /\ appJob \in [AppJobs -> AppJob] /\ appJob[j] \in AppJob
      /\ 0 \in 0..(MaxAppClock + AppLease)
      /\ \A i \in AppJobs : appJob[i].started <= appClock /\ appJob[i].attempt \in Nat
  BY AppFacts, AppRuntimeAssumption DEF AppInv, AppJob
<1>1. /\ new \in AppJob /\ new.attempt = appJob[j].attempt /\ new.started = appJob[j].started
      /\ new.state = "done"
  BY <1>0 DEF AppJob
<1>2. appJob' = [appJob EXCEPT ![j] = new]
  BY DEF CompleteAppJob
<1>. HIDE DEF new
<1>3. appJob' \in [AppJobs -> AppJob] /\ \A i \in AppJobs : appJob'[i] = IF i = j THEN new ELSE appJob[i]
  BY <1>0, <1>1, <1>2
<1>. QED
  BY <1>0, <1>1, <1>3, AppJobsChange DEF CompleteAppJob

\* The change of the lifecycle and what it tells the attempts are one step.
LEMMA SetLifecycleKeeps ==
  ASSUME AppInv, NEW state \in {"active", "tombstoned", "revoked"}, NEW expected,
         SetLifecycle(state, expected)
  PROVE  AppInv'
<1>0. /\ appJob \in [AppJobs -> AppJob] /\ \A i \in AppJobs : appJob[i] \in AppJob
      /\ appClock \in 0..MaxAppClock /\ appClock \in Nat
      /\ app.revision + 1 \in 0..MaxChanges
      /\ \A i \in AppJobs : appJob[i].started <= appClock
  BY AppFacts, AppRuntimeAssumption DEF AppInv, SetLifecycle
<1>1. ASSUME NEW i \in AppJobs
      PROVE  LET asked == [appJob[i] EXCEPT !.canceled = TRUE]
             IN  /\ asked \in AppJob /\ asked.attempt = appJob[i].attempt /\ asked.canceled
                 /\ asked.started = appJob[i].started /\ asked.state = appJob[i].state
  <2>1. appJob[i] \in AppJob
    BY <1>0
  <2>. QED
    BY <2>1 DEF AppJob
<1>2. /\ appJob' = [i \in AppJobs |-> appJob'[i]]
      /\ \A i \in AppJobs :
           appJob'[i] = IF Stops(state, i) THEN [appJob[i] EXCEPT !.canceled = TRUE] ELSE appJob[i]
  BY DEF SetLifecycle
<1>3. \A i \in AppJobs :
        /\ appJob'[i] \in AppJob /\ appJob'[i].attempt = appJob[i].attempt
        /\ appJob'[i].started = appJob[i].started
        /\ state = "revoked" /\ appJob'[i].state = "running" => appJob'[i].canceled
  BY <1>0, <1>1, <1>2 DEF Stops
<1>4. /\ app' = [state |-> state, revision |-> app.revision + 1, updated |-> appClock]
      /\ UNCHANGED <<objects, operations, appClock, readers>>
  BY DEF SetLifecycle
<1>5. AppRuntimeTypeOK'
  BY <1>0, <1>2, <1>3, <1>4 DEF AppInv, AppRuntimeTypeOK, AppJob
<1>6. RetiredAppLetsGo'
  BY <1>0, <1>3, <1>4 DEF RetiredAppLetsGo, AllowsRunningAttempt
<1>7. \A r \in operations : r[1] \in AppJobs
  BY AppFacts DEF Requests
<1>8. \A r \in operations' : r[2] <= appJob'[r[1]].attempt
  BY <1>3, <1>4, <1>7 DEF AppInv
<1>. QED
  BY <1>0, <1>3, <1>4, <1>5, <1>6, <1>8 DEF AppInv

\* A write of one object.
LEMMA ObjectChange ==
  ASSUME AppInv, UNCHANGED <<appJob, app, appClock, readers>>,
         objects' = [o \in Objects |-> objects'[o]],
         \A o \in Objects : /\ objects'[o].revision \in 0..MaxRevisions
                            /\ objects'[o] = [revision |-> objects'[o].revision,
                                              writer   |-> objects'[o].writer],
         \A r \in operations' : r \in operations \/ (r \in Requests /\ r[2] <= appJob[r[1]].attempt)
  PROVE  AppInv'
<1>1. AppRuntimeTypeOK'
  BY DEF AppInv, AppRuntimeTypeOK
<1>2. RetiredAppLetsGo'
  BY DEF AppInv, RetiredAppLetsGo, AllowsRunningAttempt
<1>. QED
  BY <1>1, <1>2 DEF AppInv
(* A purge removes the values of an app that is revoked. *)
LEMMA PurgeKeeps ==
  ASSUME AppInv, NEW force, PurgeAppRuntimeConfig(force)
  PROVE  AppInv'
<1>1. \A o \in Objects : objects'[o] = [revision |-> 0, writer |-> Nobody]
  BY DEF PurgeAppRuntimeConfig
<1>2. objects' = [o \in Objects |-> objects'[o]] /\ 0 \in 0..MaxRevisions
  BY AppRuntimeAssumption DEF PurgeAppRuntimeConfig
<1>. QED
  BY <1>1, <1>2, ObjectChange DEF PurgeAppRuntimeConfig

\* A write of one object by an operator or by an attempt.
LEMMA OneObject ==
  ASSUME AppInv, UNCHANGED <<appJob, app, appClock, readers>>, NEW o \in Objects, NEW n \in 0..MaxRevisions,
         NEW writer, objects' = [objects EXCEPT ![o] = [revision |-> n, writer |-> writer]],
         \A r \in operations' : r \in operations \/ (r \in Requests /\ r[2] <= appJob[r[1]].attempt)
  PROVE  AppInv'
<1>1. \A p \in Objects : /\ objects[p].revision \in 0..MaxRevisions
                         /\ objects[p] = [revision |-> objects[p].revision,
                                          writer   |-> objects[p].writer]
  BY DEF AppInv, AppRuntimeTypeOK
<1>2. objects' = [p \in Objects |-> objects'[p]]
  BY DEF AppInv
<1>3. \A p \in Objects :
        objects'[p] = IF p = o THEN [revision |-> n, writer |-> writer] ELSE objects[p]
  BY DEF AppInv
<1>4. \A p \in Objects : /\ objects'[p].revision \in 0..MaxRevisions
                         /\ objects'[p] = [revision |-> objects'[p].revision,
                                           writer   |-> objects'[p].writer]
  BY <1>1, <1>3
<1>. QED
  BY <1>2, <1>4, ObjectChange

(* An operator writes no value on behalf of an attempt. *)
LEMMA OperatorWriteKeeps ==
  ASSUME AppInv, NEW o \in Objects, SetObject(o) \/ DeleteObject(o)
  PROVE  AppInv'
<1>1. CASE SetObject(o)
  <2>1. objects[o].revision + 1 \in 0..MaxRevisions
    BY <1>1, AppRuntimeAssumption DEF AppInv, AppRuntimeTypeOK, SetObject
  <2>. QED
    BY <1>1, <2>1, OneObject DEF SetObject
<1>2. CASE DeleteObject(o)
  <2>1. 0 \in 0..MaxRevisions
    BY AppRuntimeAssumption
  <2>. QED
    BY <1>2, <2>1, OneObject DEF DeleteObject
<1>. QED
  BY <1>1, <1>2

(* A write of an attempt is admitted under its lease. *)
LEMMA MutateKeeps ==
  ASSUME AppInv, NEW q \in Requests, NEW o \in Objects, NEW expected,
         MutateRuntimeObject(q[1], q[2], q[3], o, expected)
  PROVE  AppInv'
<1>1. objects[o].revision + 1 \in 0..MaxRevisions
  BY AppRuntimeAssumption DEF AppInv, AppRuntimeTypeOK, MutateRuntimeObject
<1>2. q = <<q[1], q[2], q[3]>> /\ q[2] \in Nat
  BY AppRuntimeAssumption DEF Requests
<1>3. appJob[q[1]].attempt = q[2]
  BY DEF MutateRuntimeObject, authorizeRuntimeMutation
<1>4. \A r \in operations' : r \in operations \/ (r \in Requests /\ r[2] <= appJob[r[1]].attempt)
  BY <1>2, <1>3 DEF MutateRuntimeObject
<1>. QED
  BY <1>1, <1>4, OneObject DEF MutateRuntimeObject

(* An attempt that reads was granted. *)
LEMMA ResolveKeeps ==
  ASSUME AppInv, NEW j \in AppJobs, NEW attempt \in 1..MaxAppAttempts, NEW o \in Objects,
         ResolveJobObject(j, attempt, o)
  PROVE  AppInv'
<1>1. /\ readers' = [readers EXCEPT ![o][j] = attempt]
      /\ UNCHANGED <<appJob, app, objects, operations, appClock>>
  BY DEF ResolveJobObject
<1>2. readers \in [Objects -> [AppJobs -> 0..MaxAppAttempts]] /\ attempt \in 0..MaxAppAttempts
  BY AppRuntimeAssumption DEF AppInv, AppRuntimeTypeOK
<1>3. attempt <= appJob[j].attempt
  BY AppFacts, AppRuntimeAssumption DEF ResolveJobObject, AppJob
<1>4. readers' \in [Objects -> [AppJobs -> 0..MaxAppAttempts]]
  BY <1>1, <1>2
<1>5. \A p \in Objects, i \in AppJobs :
        readers'[p][i] = IF p = o /\ i = j THEN attempt ELSE readers[p][i]
  BY <1>1, <1>2
<1>6. AppRuntimeTypeOK'
  BY <1>1, <1>4 DEF AppInv, AppRuntimeTypeOK
<1>7. RetiredAppLetsGo'
  BY <1>1 DEF AppInv, RetiredAppLetsGo, AllowsRunningAttempt
<1>8. \A p \in Objects, i \in AppJobs : readers'[p][i] <= appJob[i].attempt
  BY <1>3, <1>5 DEF AppInv
<1>. QED
  BY <1>1, <1>6, <1>7, <1>8 DEF AppInv

(* Leases run down and none is given by the clock. *)
LEMMA AppTickKeeps ==
  ASSUME AppInv, AppTick
  PROVE  AppInv'
<1>0. /\ appClock' = appClock + 1 /\ appClock' \in 0..MaxAppClock /\ appClock \in Nat
      /\ appJob' = appJob /\ app' = app /\ objects' = objects /\ operations' = operations
      /\ readers' = readers
  BY AppFacts, AppRuntimeAssumption DEF AppTick
<1>1. AppRuntimeTypeOK'
  BY <1>0 DEF AppInv, AppRuntimeTypeOK
<1>2. RetiredAppLetsGo'
  BY <1>0 DEF AppInv, RetiredAppLetsGo, AllowsRunningAttempt
<1>3. app.updated <= appClock' /\ \A j \in AppJobs : appJob[j].started <= appClock'
  <2>1. app.updated \in Nat /\ \A j \in AppJobs : appJob[j].started \in Nat
    BY AppFacts, AppRuntimeAssumption DEF AppJob
  <2>. QED
    BY <1>0, <2>1 DEF AppInv
<1>. QED
  BY <1>0, <1>1, <1>2, <1>3 DEF AppInv

(* The app starts without leases and without writes of attempts. *)
LEMMA AppInvInit == AppRuntimeInit => AppInv
<1>. SUFFICES ASSUME AppRuntimeInit PROVE AppInv
  OBVIOUS
<1>0. 0 \in 0..MaxAppAttempts /\ 0 \in 0..(MaxAppClock + AppLease) /\ 0 \in 0..MaxAppClock
      /\ 0 \in 0..MaxChanges /\ 0 \in 0..MaxRevisions /\ 0 <= 0
  BY AppRuntimeAssumption
<1>1. AppRuntimeTypeOK
  BY <1>0 DEF AppRuntimeInit, AppRuntimeTypeOK
<1>2. RetiredAppLetsGo
  BY DEF AppRuntimeInit, RetiredAppLetsGo
<1>. QED
  BY <1>0, <1>1, <1>2 DEF AppRuntimeInit, AppInv

(* Every step preserves the invariant. *)
LEMMA AppInvNext == AppInv /\ [AppRuntimeNext]_appVars => AppInv'
<1>. SUFFICES ASSUME AppInv, [AppRuntimeNext]_appVars PROVE AppInv'
  OBVIOUS
<1>1. CASE UNCHANGED appVars
  BY <1>1 DEF appVars, AppInv, AppRuntimeTypeOK, RetiredAppLetsGo, AllowsRunningAttempt
<1>2. CASE AppRuntimeNext
  BY <1>2, ClaimAppJobKeeps, RenewAppJobKeeps, CompleteAppJobKeeps, ClaimElsewhereKeeps,
     SetLifecycleKeeps, PurgeKeeps, OperatorWriteKeeps, MutateKeeps,
     ResolveKeeps, AppTickKeeps
     DEF AppRuntimeNext
<1>. QED
  BY <1>1, <1>2

(* The invariant holds in every reachable state. *)
LEMMA AppInvHolds == AppRuntimeSpec => []AppInv
BY AppInvInit, AppInvNext, PTL DEF AppRuntimeSpec

\* No attempt of a revoked app runs on without having been asked to stop, and
\* every attempt of a tombstoned app started before the tombstone: the change
\* of the lifecycle and the request to stop are one step, and no claim starts
\* an attempt of an app that is not active.
THEOREM RetiredAppLetsGoHolds == AppRuntimeSpec => []RetiredAppLetsGo
<1>1. AppInv => RetiredAppLetsGo
  BY DEF AppInv
<1>. QED
  BY <1>1, AppInvHolds, PTL

\* An attempt that writes an object is the latest of its job, so no write of an
\* attempt follows a read of the object by a later attempt of the same job, nor
\* a write of one.
THEOREM AttemptsWriteInOrderHolds == AppRuntimeSpec => AttemptsWriteInOrder
<1>. DEFINE A == \A o \in Objects : \A j \in AppJobs, n \in 1..MaxAppAttempts :
                   objects'[o] # objects[o] /\ objects'[o].writer = <<j, n>> =>
                     /\ readers[o][j] <= n
                     /\ \A r \in operations : r[1] = j => r[2] <= n
<1>1. AppInv /\ AppRuntimeNext => A
  <2>. SUFFICES ASSUME AppInv, AppRuntimeNext, NEW o \in Objects,
                       NEW j \in AppJobs, NEW n \in 1..MaxAppAttempts,
                       objects'[o] # objects[o], objects'[o].writer = <<j, n>>
                PROVE  /\ readers[o][j] <= n
                       /\ \A r \in operations : r[1] = j => r[2] <= n
    OBVIOUS
  <2>1. Nobody # <<j, n>>
    BY DEF Nobody
  <2>2. ASSUME NEW p \in Objects, SetObject(p) \/ DeleteObject(p)
        PROVE  FALSE
    <3>1. objects = [x \in Objects |-> objects[x]]
      BY DEF AppInv
    <3>2. objects'[p].writer = Nobody /\ \A x \in Objects \ {p} : objects'[x] = objects[x]
      <4>1. CASE SetObject(p)
        BY <3>1, <4>1 DEF SetObject
      <4>2. CASE DeleteObject(p)
        BY <3>1, <4>2 DEF DeleteObject
      <4>. QED
        BY <2>2, <4>1, <4>2
    <3>. QED
      BY <2>1, <3>2
  <2>3. \A force : ~PurgeAppRuntimeConfig(force)
    BY <2>1 DEF PurgeAppRuntimeConfig
  <2>4. objects' # objects
    OBVIOUS
  <2>5. PICK q \in Requests, p \in Objects, expected \in SUBSET {0, 1} :
          MutateRuntimeObject(q[1], q[2], q[3], p, expected)
    BY <2>2, <2>3, <2>4 DEF AppRuntimeNext, ClaimAppJob, RenewAppJob, CompleteAppJob,
         ClaimElsewhere, SetLifecycle, ResolveJobObject, AppTick
  <2>6. p = o /\ <<q[1], q[2]>> = <<j, n>>
    BY <2>5 DEF AppInv, MutateRuntimeObject
  <2>7. appJob[j].attempt = n
    BY <2>5, <2>6 DEF MutateRuntimeObject, authorizeRuntimeMutation
  <2>. QED
    BY <2>7 DEF AppInv
<1>2. AppInv /\ [AppRuntimeNext]_appVars => [A]_appVars
  BY <1>1
<1>. QED
  BY <1>2, AppInvHolds, PTL DEF AppRuntimeSpec, AttemptsWriteInOrder
-----------------------------------------------------------------------------
(* SecretCandidates: the inductive invariant *)

SecretTypes ==
  /\ candidate \in [SecretOps -> [there : BOOLEAN, touched : Nat, version : Nat]]
  /\ publisher \in [SecretRequests -> [op : SUBSET SecretOps, since : Nat]]
  /\ sweep \in [stage : {"idle", "live", "list", "delete"}, cutoff : Int,
                live : SUBSET SecretOps, page : SUBSET [op : SecretOps, version : Nat]]
  /\ published \subseteq SecretOps
  /\ secretClock \in Nat

\* A request that has stored its candidate is younger than the grace period.
RequestsAreYoung ==
  \A r \in SecretRequests : \A op \in publisher[r].op :
    /\ candidate[op].there
    /\ publisher[r].since <= candidate[op].touched
    /\ publisher[r].since <= secretClock
    /\ secretClock - publisher[r].since <= RequestTicks

\* The cutoff of a sweep that runs is at least a grace period ago.
CutoffIsOld == sweep.stage # "idle" => sweep.cutoff <= secretClock - GraceTicks

\* An object that is listed in its present version has not been touched since.
PageIsOld ==
  \A c \in sweep.page :
    /\ sweep.stage = "delete"
    /\ c.version <= candidate[c.op].version
    /\ c.version = candidate[c.op].version => candidate[c.op].touched <= sweep.cutoff

\* What the variable refers to was seen by the sweep or touched after its cutoff.
PublishedIsSafe ==
  \A op \in published :
    /\ candidate[op].there
    /\ sweep.stage \in {"list", "delete"} =>
         op \in sweep.live \/ candidate[op].touched > sweep.cutoff

SecretsInv ==
  SecretTypes /\ RequestsAreYoung /\ CutoffIsOld /\ PageIsOld /\ PublishedIsSafe

(* What the invariant says of each candidate, request and sweep. *)
LEMMA SecretsFacts ==
  ASSUME SecretsInv
  PROVE  /\ \A op \in SecretOps : /\ candidate[op].there \in BOOLEAN
                                   /\ candidate[op].touched \in Nat
                                   /\ candidate[op].version \in Nat
         /\ \A r \in SecretRequests : /\ publisher[r].op \subseteq SecretOps
                                       /\ publisher[r].since \in Nat
         /\ sweep.cutoff \in Int /\ sweep.live \subseteq SecretOps
         /\ \A c \in sweep.page : c.op \in SecretOps /\ c.version \in Nat
         /\ sweep.stage \in {"idle", "live", "list", "delete"}
         /\ GraceTicks \in Nat /\ RequestTicks \in Nat /\ RequestTicks < GraceTicks
BY SecretsAssumption DEF SecretsInv, SecretTypes

(* A stored candidate has just been touched by a request that just began. *)
LEMMA StoreCandidateKeeps ==
  ASSUME SecretsInv, NEW r \in SecretRequests, NEW op \in SecretOps, StoreCandidate(r, op)
  PROVE  SecretsInv'
<1>. DEFINE new == [there |-> TRUE, touched |-> secretClock, version |-> candidate[op].version + 1]
<1>0. /\ candidate' = [candidate EXCEPT ![op] = new]
      /\ publisher' = [publisher EXCEPT ![r] = [op |-> {op}, since |-> secretClock]]
      /\ UNCHANGED <<published, recorded, sweep, secretClock>>
  BY DEF StoreCandidate
<1>1. /\ new \in [there : BOOLEAN, touched : Nat, version : Nat] /\ new.there
      /\ new.touched = secretClock /\ new.version = candidate[op].version + 1
  BY SecretsFacts DEF SecretsInv, SecretTypes
<1>. HIDE DEF new
<1>2. \A p \in SecretOps : candidate'[p] = IF p = op THEN new ELSE candidate[p]
  BY <1>0 DEF SecretsInv, SecretTypes
<1>3. /\ publisher'[r].op = {op} /\ publisher'[r].since = secretClock
      /\ \A q \in SecretRequests \ {r} : publisher'[q] = publisher[q]
  BY <1>0 DEF SecretsInv, SecretTypes
<1>4. SecretTypes'
  BY <1>0, <1>1 DEF SecretsInv, SecretTypes
\* Storing a candidate again makes it as young for every request that waits for it.
<1>5. ASSUME NEW q \in SecretRequests, NEW p \in publisher'[q].op
      PROVE  /\ candidate'[p].there /\ publisher'[q].since <= candidate'[p].touched
             /\ publisher'[q].since <= secretClock /\ secretClock - publisher'[q].since <= RequestTicks
  <2>1. CASE q = r
    BY <1>1, <1>2, <1>3, <1>5, <2>1, SecretsFacts DEF SecretsInv, SecretTypes
  <2>2. CASE q # r
    BY <1>1, <1>2, <1>3, <1>5, <2>2, SecretsFacts DEF SecretsInv, SecretTypes, RequestsAreYoung
  <2>. QED
    BY <2>1, <2>2
<1>6. RequestsAreYoung'
  BY <1>0, <1>5 DEF RequestsAreYoung
<1>7. CutoffIsOld'
  BY <1>0 DEF SecretsInv, CutoffIsOld
<1>8. PageIsOld'
  BY <1>0, <1>1, <1>2, SecretsFacts DEF SecretsInv, PageIsOld
<1>9. PublishedIsSafe'
  BY <1>0, <1>1, <1>2, SecretsFacts DEF SecretsInv, SecretTypes, PublishedIsSafe, CutoffIsOld
<1>. QED
  BY <1>4, <1>6, <1>7, <1>8, <1>9 DEF SecretsInv

(* A request publishes while it is young, so no sweep holds its candidate. *)
LEMMA PublishCandidateKeeps ==
  ASSUME SecretsInv, NEW r \in SecretRequests, PublishCandidate(r)
  PROVE  SecretsInv'
<1>0. /\ publisher' = [publisher EXCEPT ![r].op = {}]
      /\ UNCHANGED <<candidate, sweep, secretClock>>
      /\ published' \in {published, publisher[r].op}
  BY DEF PublishCandidate
<1>1. /\ publisher'[r].op = {} /\ \A q \in SecretRequests \ {r} : publisher'[q] = publisher[q]
      /\ publisher' \in [SecretRequests -> [op : SUBSET SecretOps, since : Nat]]
  BY <1>0 DEF SecretsInv, SecretTypes
<1>2. SecretTypes' /\ CutoffIsOld' /\ PageIsOld'
  BY <1>0, <1>1, SecretsFacts DEF SecretsInv, SecretTypes, CutoffIsOld, PageIsOld
<1>3. RequestsAreYoung'
  BY <1>0, <1>1 DEF SecretsInv, RequestsAreYoung
\* What is published now was stored within RequestTicks.
<1>4. \A op \in publisher[r].op :
        /\ candidate[op].there
        /\ sweep.stage # "idle" => candidate[op].touched > sweep.cutoff
  <2>. SUFFICES ASSUME NEW op \in publisher[r].op
                PROVE  /\ candidate[op].there
                       /\ sweep.stage # "idle" => candidate[op].touched > sweep.cutoff
    OBVIOUS
  <2>1. /\ candidate[op].there /\ publisher[r].since <= candidate[op].touched
        /\ secretClock - publisher[r].since <= RequestTicks
    BY DEF SecretsInv, RequestsAreYoung
  <2>2. /\ candidate[op].touched \in Nat /\ publisher[r].since \in Nat /\ secretClock \in Nat
        /\ sweep.cutoff \in Int /\ GraceTicks \in Nat /\ RequestTicks \in Nat
        /\ RequestTicks < GraceTicks
    BY SecretsFacts DEF SecretsInv, SecretTypes
  <2>. QED
    BY <2>1, <2>2 DEF SecretsInv, CutoffIsOld
<1>5. PublishedIsSafe'
  BY <1>0, <1>4 DEF SecretsInv, PublishedIsSafe
<1>. QED
  BY <1>2, <1>3, <1>5 DEF SecretsInv

(* A request that fails leaves its candidate to the collector. *)
LEMMA AbandonCandidateKeeps ==
  ASSUME SecretsInv, NEW r \in SecretRequests, AbandonCandidate(r)
  PROVE  SecretsInv'
<1>0. /\ publisher' = [publisher EXCEPT ![r].op = {}]
      /\ UNCHANGED <<candidate, published, sweep, secretClock>>
  BY DEF AbandonCandidate
<1>1. /\ publisher'[r].op = {} /\ \A q \in SecretRequests \ {r} : publisher'[q] = publisher[q]
      /\ publisher' \in [SecretRequests -> [op : SUBSET SecretOps, since : Nat]]
  BY <1>0 DEF SecretsInv, SecretTypes
<1>2. SecretTypes' /\ CutoffIsOld' /\ PageIsOld' /\ PublishedIsSafe'
  BY <1>0, <1>1 DEF SecretsInv, SecretTypes, CutoffIsOld, PageIsOld, PublishedIsSafe
<1>3. RequestsAreYoung'
  BY <1>0, <1>1 DEF SecretsInv, RequestsAreYoung
<1>. QED
  BY <1>2, <1>3 DEF SecretsInv

(* Without a reference there is nothing that has to resolve. *)
LEMMA RemoveVariableKeeps ==
  ASSUME SecretsInv, RemoveVariable
  PROVE  SecretsInv'
BY DEF RemoveVariable, SecretsInv, SecretTypes, RequestsAreYoung, CutoffIsOld, PageIsOld,
       PublishedIsSafe

\* The steps of the collector that delete nothing.
LEMMA SweepStageKeeps ==
  ASSUME SecretsInv, UNCHANGED <<candidate, published, publisher, secretClock>>,
         BeginSweep \/ ListLiveRuntimeSecretCandidateReferences \/ ListRuntimeCandidates \/ EndSweep
  PROVE  SecretsInv'
<1>0. RequestsAreYoung'
  BY DEF SecretsInv, RequestsAreYoung
<1>t. sweep \in [stage : {"idle", "live", "list", "delete"}, cutoff : Int,
                live : SUBSET SecretOps, page : SUBSET [op : SecretOps, version : Nat]]
      /\ secretClock \in Nat /\ GraceTicks \in Nat
  BY SecretsFacts DEF SecretsInv, SecretTypes
<1>1. CASE BeginSweep
  <2>1. /\ sweep' = [stage |-> "live", cutoff |-> secretClock - GraceTicks, live |-> {}, page |-> {}]
    BY <1>1 DEF BeginSweep, NoSweep
  <2>2. SecretTypes'
    BY <1>t, <2>1 DEF SecretsInv, SecretTypes
  <2>3. CutoffIsOld' /\ PageIsOld' /\ PublishedIsSafe'
    BY <1>t, <2>1 DEF SecretsInv, CutoffIsOld, PageIsOld, PublishedIsSafe
  <2>. QED
    BY <1>0, <2>2, <2>3 DEF SecretsInv
<1>2. CASE ListLiveRuntimeSecretCandidateReferences
  <2>1. /\ sweep.stage = "live" /\ sweep' = [sweep EXCEPT !.stage = "list", !.live = published]
    BY <1>2 DEF ListLiveRuntimeSecretCandidateReferences
  <2>2. /\ sweep'.stage = "list" /\ sweep'.live = published /\ sweep'.cutoff = sweep.cutoff
        /\ sweep'.page = sweep.page /\ sweep.page = {}
    BY <1>t, <2>1 DEF SecretsInv, PageIsOld
  <2>3. SecretTypes'
    BY <1>t, <2>1 DEF SecretsInv, SecretTypes
  <2>4. CutoffIsOld' /\ PageIsOld' /\ PublishedIsSafe'
    BY <2>1, <2>2 DEF SecretsInv, CutoffIsOld, PageIsOld, PublishedIsSafe
  <2>. QED
    BY <1>0, <2>3, <2>4 DEF SecretsInv
<1>3. CASE ListRuntimeCandidates
  <2>. DEFINE page == {[op |-> op, version |-> candidate[op].version] :
                         op \in OldCandidates(sweep.cutoff)}
  <2>1. /\ sweep.stage = "list" /\ sweep' = [sweep EXCEPT !.stage = "delete", !.page = page]
    BY <1>3 DEF ListRuntimeCandidates
  <2>2. \A c \in page : /\ c \in [op : SecretOps, version : Nat]
                        /\ c.version = candidate[c.op].version
                        /\ candidate[c.op].touched <= sweep.cutoff
    BY SecretsFacts DEF OldCandidates
  <2>. HIDE DEF page
  <2>3. /\ sweep'.stage = "delete" /\ sweep'.live = sweep.live /\ sweep'.cutoff = sweep.cutoff
        /\ sweep'.page = page
    BY <1>t, <2>1
  <2>4. SecretTypes'
    BY <1>t, <2>1, <2>2 DEF SecretsInv, SecretTypes
  <2>5. PageIsOld'
    <3>1. \A c \in page : c.version <= c.version
      BY <2>2
    <3>. QED
      BY <2>2, <2>3, <3>1 DEF PageIsOld
  <2>6. CutoffIsOld' /\ PublishedIsSafe'
    BY <2>1, <2>3 DEF SecretsInv, CutoffIsOld, PublishedIsSafe
  <2>. QED
    BY <1>0, <2>4, <2>5, <2>6 DEF SecretsInv
<1>4. CASE EndSweep
  <2>1. sweep' = [stage |-> "idle", cutoff |-> 0, live |-> {}, page |-> {}]
    BY <1>4 DEF EndSweep, NoSweep
  <2>2. SecretTypes'
    BY <1>t, <2>1 DEF SecretsInv, SecretTypes
  <2>3. CutoffIsOld' /\ PageIsOld' /\ PublishedIsSafe'
    BY <1>t, <2>1 DEF SecretsInv, CutoffIsOld, PageIsOld, PublishedIsSafe
  <2>. QED
    BY <1>0, <2>2, <2>3 DEF SecretsInv
<1>. QED
  BY <1>1, <1>2, <1>3, <1>4

\* What is deleted is neither published nor about to be.
LEMMA DeleteRuntimeCandidateKeeps ==
  ASSUME SecretsInv, NEW c \in sweep.page, DeleteRuntimeCandidate(c)
  PROVE  SecretsInv'
<1>t. sweep \in [stage : {"idle", "live", "list", "delete"}, cutoff : Int,
                live : SUBSET SecretOps, page : SUBSET [op : SecretOps, version : Nat]]
      /\ secretClock \in Nat /\ GraceTicks \in Nat
  BY SecretsFacts DEF SecretsInv, SecretTypes
<1>0. /\ sweep.stage = "delete" /\ sweep' = [sweep EXCEPT !.page = sweep.page \ {c}]
      /\ UNCHANGED <<published, publisher, secretClock>>
  BY DEF DeleteRuntimeCandidate
<1>1. /\ sweep'.stage = "delete" /\ sweep'.live = sweep.live /\ sweep'.cutoff = sweep.cutoff
      /\ sweep'.page = sweep.page \ {c}
      /\ sweep' \in [stage : {"idle", "live", "list", "delete"}, cutoff : Int,
                     live : SUBSET SecretOps, page : SUBSET [op : SecretOps, version : Nat]]
  BY <1>t, <1>0
<1>2. CASE c.op \in sweep.live \/ candidate[c.op].version # c.version
  <2>1. candidate' = candidate
    BY <1>2 DEF DeleteRuntimeCandidate
  <2>. QED
    BY <1>0, <1>1, <2>1 DEF SecretsInv, SecretTypes, RequestsAreYoung, CutoffIsOld, PageIsOld,
         PublishedIsSafe
<1>3. CASE c.op \notin sweep.live /\ candidate[c.op].version = c.version
  <2>. DEFINE op == c.op
  <2>0. op \in SecretOps /\ candidate[op].touched <= sweep.cutoff
    BY <1>3, SecretsFacts DEF SecretsInv, PageIsOld
  <2>1. candidate' = [candidate EXCEPT ![op].there = FALSE]
    BY <1>3 DEF DeleteRuntimeCandidate
  <2>2. /\ \A p \in SecretOps \ {op} : candidate'[p] = candidate[p]
        /\ candidate'[op].touched = candidate[op].touched
        /\ candidate'[op].version = candidate[op].version
        /\ candidate' \in [SecretOps -> [there : BOOLEAN, touched : Nat, version : Nat]]
    BY <2>0, <2>1 DEF SecretsInv, SecretTypes
  <2>3. op \notin published
    BY <1>0, <1>3, <2>0, SecretsFacts DEF SecretsInv, PublishedIsSafe
  <2>4. \A r \in SecretRequests : op \notin publisher[r].op
    <3>. SUFFICES ASSUME NEW r \in SecretRequests, op \in publisher[r].op PROVE FALSE
      OBVIOUS
    <3>1. /\ publisher[r].since <= candidate[op].touched
          /\ secretClock - publisher[r].since <= RequestTicks
      BY DEF SecretsInv, RequestsAreYoung
    <3>2. sweep.cutoff <= secretClock - GraceTicks
      BY <1>0 DEF SecretsInv, CutoffIsOld
    <3>. QED
      BY <1>t, <2>0, <3>1, <3>2, SecretsFacts
  <2>. HIDE DEF op
  <2>5. SecretTypes' /\ CutoffIsOld'
    BY <1>0, <1>1, <2>2 DEF SecretsInv, SecretTypes, CutoffIsOld
  <2>6. RequestsAreYoung'
    BY <1>0, <2>2, <2>4, SecretsFacts DEF SecretsInv, RequestsAreYoung
  <2>7. PageIsOld'
    BY <1>0, <1>1, <2>2, SecretsFacts DEF SecretsInv, PageIsOld
  <2>8. PublishedIsSafe'
    BY <1>0, <1>1, <2>2, <2>3 DEF SecretsInv, SecretTypes, PublishedIsSafe
  <2>. QED
    BY <2>5, <2>6, <2>7, <2>8 DEF SecretsInv
<1>. QED
  BY <1>2, <1>3

(* A tick ages candidates, requests and cutoffs alike. *)
LEMMA SecretTickKeeps ==
  ASSUME SecretsInv, SecretTick
  PROVE  SecretsInv'
<1>0. /\ secretClock' = secretClock + 1 /\ UNCHANGED <<candidate, published, publisher, sweep>>
      /\ secretClock \in Nat
      /\ \A r \in SecretRequests :
           publisher[r].op # {} => secretClock - publisher[r].since < RequestTicks
  BY DEF SecretTick, SecretsInv, SecretTypes
<1>1. SecretTypes' /\ PageIsOld' /\ PublishedIsSafe'
  BY <1>0 DEF SecretsInv, SecretTypes, PageIsOld, PublishedIsSafe
<1>2. CutoffIsOld'
  BY <1>0, SecretsFacts DEF SecretsInv, CutoffIsOld
<1>3. RequestsAreYoung'
  BY <1>0, SecretsFacts DEF SecretsInv, RequestsAreYoung
<1>. QED
  BY <1>1, <1>2, <1>3 DEF SecretsInv

(* The invariant holds in every reachable state. *)
LEMMA SecretsInvHolds == SecretsSpec => []SecretsInv
<1>1. SecretsInit => SecretsInv
  BY SecretsAssumption DEF SecretsInit, NoSweep, SecretsInv, SecretTypes, RequestsAreYoung,
     CutoffIsOld, PageIsOld, PublishedIsSafe
<1>2. SecretsInv /\ [SecretsNext]_secretVars => SecretsInv'
  <2>. SUFFICES ASSUME SecretsInv, [SecretsNext]_secretVars PROVE SecretsInv'
    OBVIOUS
  <2>1. CASE UNCHANGED secretVars
    BY <2>1 DEF secretVars, SecretsInv, SecretTypes, RequestsAreYoung, CutoffIsOld, PageIsOld,
         PublishedIsSafe
  <2>2. CASE BeginSweep \/ ListLiveRuntimeSecretCandidateReferences \/ ListRuntimeCandidates
               \/ EndSweep
    <3>1. UNCHANGED <<candidate, published, publisher, secretClock>>
      BY <2>2 DEF BeginSweep, ListLiveRuntimeSecretCandidateReferences, ListRuntimeCandidates,
           EndSweep
    <3>. QED
      BY <2>2, <3>1, SweepStageKeeps
  <2>. QED
    BY <2>1, <2>2, StoreCandidateKeeps, PublishCandidateKeeps, AbandonCandidateKeeps,
       RemoveVariableKeeps, DeleteRuntimeCandidateKeeps, SecretTickKeeps DEF SecretsNext
<1>. QED
  BY <1>1, <1>2, PTL DEF SecretsSpec

\* No sweep, however slow, deletes what the variable refers to: a request is
\* shorter than the grace period, and the sweep fixes its cutoff before it
\* reads which candidates are live.
THEOREM PublishedSecretResolvesHolds == SecretsSpec => []PublishedSecretResolves
<1>1. SecretsInv => PublishedSecretResolves
  BY DEF SecretsInv, PublishedIsSafe, PublishedSecretResolves
<1>. QED
  BY <1>1, SecretsInvHolds, PTL

-----------------------------------------------------------------------------
(* WorkerFleet: the records of a worker belong to one credential *)

RecordShape(r) ==
  r = [id |-> r.id, generation |-> r.generation, beat |-> r.beat, status |-> r.status]

FleetInv ==
  /\ \A r \in registry : RecordShape(r)
  /\ \A r, s \in registry : r.id = s.id => r.generation = s.generation

\* A record of the registry after a step is an old one, a heartbeat of an old
\* one, or the new record of a worker whose old records have its credential.
RegistryStep ==
  \A new \in registry' :
    \/ \E o \in registry : RecordShape(new) /\ new.id = o.id /\ new.generation = o.generation
    \/ /\ RecordShape(new)
       /\ \A o \in registry : o.id = new.id => o.generation = new.generation
       /\ \A n \in registry' : n = new \/ n \in registry

(* Every step of the fleet changes the registry in one of the listed ways. *)
LEMMA RegistrySteps ==
  ASSUME FleetInv, FleetNext
  PROVE  RegistryStep
<1>1. CASE registry' \subseteq registry
  BY <1>1 DEF FleetInv, RegistryStep
<1>2. ASSUME NEW q \in FleetRequests, RegisterWorker(q)
      PROVE  RegistryStep
  <2>. DEFINE r == request[q]
              n == [id |-> CHOOSE w \in r.worker : TRUE, generation |-> r.generation,
                    beat |-> fleetClock,
                    status |-> IF r.kind = "register" THEN "active" ELSE "draining"]
  <2>1. registry' = IF RecordTaken(n.id, r.generation) THEN registry
                    ELSE (registry \ RecordOf(n.id)) \cup {n}
    BY <1>2 DEF RegisterWorker
  <2>2. RecordShape(n) /\ n.generation = r.generation
    BY DEF RecordShape
  <2>. HIDE DEF n, r
  <2>3. CASE RecordTaken(n.id, r.generation)
    BY <2>1, <2>3, <1>1
  <2>4. CASE ~RecordTaken(n.id, r.generation)
    <3>1. \A o \in registry : o.id = n.id => o.generation = n.generation
      BY <2>2, <2>4 DEF RecordTaken, RecordOf
    <3>2. \A m \in registry' : m = n \/ m \in registry
      BY <2>1, <2>4
    <3>. QED
      BY <2>2, <3>1, <3>2 DEF FleetInv, RegistryStep
  <2>. QED
    BY <2>3, <2>4
<1>3. ASSUME NEW q \in FleetRequests, HeartbeatWorker(q)
      PROVE  RegistryStep
  <2>1. ASSUME NEW new \in registry'
        PROVE  \E o \in registry : RecordShape(new) /\ new.id = o.id /\ new.generation = o.generation
    <3>1. PICK o \in registry :
            new = IF o.id \in request[q].worker THEN [o EXCEPT !.beat = fleetClock] ELSE o
      BY <1>3, <2>1 DEF HeartbeatWorker
    <3>2. RecordShape(o)
      BY DEF FleetInv
    <3>3. RecordShape(new) /\ new.id = o.id /\ new.generation = o.generation
      BY <3>1, <3>2 DEF RecordShape
    <3>. QED
      BY <3>3
  <2>. QED
    BY <2>1 DEF RegistryStep
<1>4. \/ registry' \subseteq registry
      \/ \E q \in FleetRequests : RegisterWorker(q) \/ HeartbeatWorker(q)
  BY DEF FleetNext, CreateWorkerCredential, ListWorkers, FleetTick, RevokeWorkerCredential,
         PutWorkerGroupRunState, authenticateWorkerPlane, CheckRecord, CheckRunState, Refused,
         DeregisterWorker, ClaimForWorker, RenewLease, CompleteLease
<1>. QED
  BY <1>1, <1>2, <1>3, <1>4

(* The invariant of the registry holds in every reachable state. *)
LEMMA FleetInvHolds == FleetSpec => []FleetInv
<1>1. FleetInit => FleetInv
  BY DEF FleetInit, FleetInv
<1>2. ASSUME FleetInv, FleetNext
      PROVE  FleetInv'
  <2>1. RegistryStep
    BY <1>2, RegistrySteps
  <2>2. ASSUME NEW r \in registry', NEW s \in registry', r.id = s.id
        PROVE  r.generation = s.generation
    BY <1>2, <2>1, <2>2 DEF RegistryStep, FleetInv
  <2>3. \A r \in registry' : RecordShape(r)
    BY <2>1 DEF RegistryStep
  <2>. QED
    BY <2>2, <2>3 DEF FleetInv
<1>3. FleetInv /\ UNCHANGED fleetVars => FleetInv'
  BY DEF FleetInv, fleetVars
<1>. QED
  BY <1>1, <1>2, <1>3, PTL DEF FleetSpec

\* A worker identifier that is registered under one credential never passes to
\* another while its record lives, whatever requests cross.
THEOREM RecordKeepsItsCredentialHolds == FleetSpec => RecordKeepsItsCredential
<1>. DEFINE Kept == \A old \in registry, new \in registry' :
                      old.id = new.id => old.generation = new.generation
<1>1. ASSUME FleetInv, FleetNext
      PROVE  Kept
  <2>1. RegistryStep
    BY <1>1, RegistrySteps
  <2>. QED
    BY <1>1, <2>1 DEF RegistryStep, FleetInv
<1>2. FleetInv /\ [FleetNext]_fleetVars => [Kept]_fleetVars
  BY <1>1
<1>. QED
  BY <1>2, FleetInvHolds, PTL DEF FleetSpec, RecordKeepsItsCredential

-----------------------------------------------------------------------------
(* WorkerProcess: the inductive invariant *)

JobRecord == [state : {"queued", "running", "settled"}, owner : Processes \cup {NoOne},
              attempt : Nat, left : Int, canceled : BOOLEAN]

ProcessRecord ==
  [pc : {"poll", "preparing", "running", "completing"}, attempt : Nat,
   why : {NoCause, "lease_lost", "run_canceled"}, drained : BOOLEAN, outcome : Outcomes,
   cause : Causes, stopping : BOOLEAN]

BeatRecord == [worker : Processes, attempt : Nat,
               answer : {"none", "owned", "lease_lost", "run_canceled"}]

Held(j, w, attempt) == j.state = "running" /\ j.owner = w /\ j.attempt = attempt

\* What an attempt believes of its interruption is true, and stays so.
CauseOK(cause, j, w, p) ==
  /\ cause = "lease_lost" => ~Held(j, w, p.attempt)
  /\ cause = "run_canceled" => j.canceled
  /\ cause = "worker_shutdown" => p.drained

ProcessOK(p, w, j, timedOut) ==
  p.pc # "poll" =>
    /\ p.attempt \in 1..j.attempt
    /\ CauseOK(p.why, j, w, p)
    /\ CauseOK(p.cause, j, w, p)
    /\ p.drained => <<w, p.attempt>> \in timedOut

\* The answer of a heartbeat that was not handled yet is still true.
BeatOK(b, j) ==
  /\ b.attempt <= j.attempt
  /\ b.answer = "lease_lost" => ~Held(j, b.worker, b.attempt)
  /\ b.answer = "run_canceled" => j.canceled

VerdictOK(v, j, timedOut) ==
  /\ j.state = "settled" <=> v # NoVerdict
  /\ v # NoVerdict =>
       /\ v.cause # "lease_lost"
       /\ v.cause = "worker_shutdown" => <<j.owner, v.attempt>> \in timedOut
       /\ v.cause = "run_canceled" <=> j.canceled
       /\ v.attempt = j.attempt

WorkTypes ==
  /\ workJob \in JobRecord
  /\ process \in [Processes -> ProcessRecord]
  /\ beats \subseteq BeatRecord

WorkerInv ==
  /\ WorkTypes
  /\ \A w \in Processes : ProcessOK(process[w], w, workJob, ranOut)
  /\ \A b \in beats : BeatOK(b, workJob)
  /\ VerdictOK(verdict, workJob, ranOut)

\* A job moves on: attempts are counted up, a cancellation is not taken back,
\* and within an attempt a lease is not given out again.
Advances(j, k) ==
  /\ j.attempt <= k.attempt
  /\ j.canceled => k.canceled
  /\ k.state = "running" /\ k.attempt = j.attempt => j.state = "running" /\ k.owner = j.owner

(* What a process knows of the job stays true while the job advances. *)
LEMMA KnowledgeStays ==
  ASSUME NEW j \in JobRecord, NEW k \in JobRecord, Advances(j, k),
         NEW w, NEW p \in ProcessRecord, NEW t, ProcessOK(p, w, j, t)
  PROVE  ProcessOK(p, w, k, t)
<1>1. j.attempt \in Nat /\ k.attempt \in Nat /\ p.attempt \in Nat
  BY DEF JobRecord, ProcessRecord
<1>2. CASE p.pc = "poll"
  BY <1>2 DEF ProcessOK
<1>3. CASE p.pc # "poll"
  <2>1. p.attempt \in 1..k.attempt
    BY <1>1, <1>3 DEF ProcessOK, Advances
  <2>2. Held(k, w, p.attempt) => Held(j, w, p.attempt)
    BY <1>1, <1>3 DEF ProcessOK, Advances, Held
  <2>. QED
    BY <1>3, <2>1, <2>2 DEF ProcessOK, CauseOK, Advances
<1>. QED
  BY <1>2, <1>3

(* What the answer to a heartbeat says stays true while the job advances. *)
LEMMA AnswersStay ==
  ASSUME NEW j \in JobRecord, NEW k \in JobRecord, Advances(j, k),
         NEW b \in BeatRecord, BeatOK(b, j)
  PROVE  BeatOK(b, k)
<1>1. j.attempt \in Nat /\ k.attempt \in Nat /\ b.attempt \in Nat
  BY DEF JobRecord, BeatRecord
<1>2. Held(k, b.worker, b.attempt) => Held(j, b.worker, b.attempt)
  BY <1>1 DEF BeatOK, Advances, Held
<1>. QED
  BY <1>1, <1>2 DEF BeatOK, Advances

\* A step of the job alone.
LEMMA JobMoves ==
  ASSUME WorkerInv, workJob' \in JobRecord, Advances(workJob, workJob'),
         VerdictOK(verdict', workJob', ranOut),
         UNCHANGED <<process, beats, ranOut>>
  PROVE  WorkerInv'
<1>1. \A w \in Processes : ProcessOK(process[w], w, workJob', ranOut)
  BY KnowledgeStays DEF WorkerInv, WorkTypes
<1>2. \A b \in beats : BeatOK(b, workJob')
  BY AnswersStay DEF WorkerInv, WorkTypes
<1>. QED
  BY <1>1, <1>2 DEF WorkerInv, WorkTypes

\* A step of one process alone, in which the drain time may run out.
LEMMA ProcessMoves ==
  ASSUME WorkerInv, NEW w \in Processes, NEW p \in ProcessRecord,
         process' = [process EXCEPT ![w] = p],
         ranOut \subseteq ranOut',
         ProcessOK(p, w, workJob, ranOut'),
         beats' \subseteq beats,
         UNCHANGED <<workJob, verdict>>
  PROVE  WorkerInv'
<1>1. process' \in [Processes -> ProcessRecord]
      /\ \A u \in Processes : process'[u] = IF u = w THEN p ELSE process[u]
  BY DEF WorkerInv, WorkTypes
<1>2. ASSUME NEW u \in Processes
      PROVE  ProcessOK(process'[u], u, workJob, ranOut')
  <2>1. CASE u = w
    BY <2>1, <1>1
  <2>2. CASE u # w
    <3>1. process'[u] = process[u] /\ ProcessOK(process[u], u, workJob, ranOut)
      BY <2>2, <1>1 DEF WorkerInv
    <3>. QED
      BY <3>1 DEF ProcessOK
  <2>. QED
    BY <2>1, <2>2
<1>3. VerdictOK(verdict, workJob, ranOut')
  BY DEF WorkerInv, VerdictOK
<1>4. \A b \in beats' : BeatOK(b, workJob)
  BY DEF WorkerInv
<1>. QED
  BY <1>1, <1>2, <1>3, <1>4 DEF WorkerInv, WorkTypes

(* A process that polls claims to know nothing. *)
LEMMA PollingIsOK ==
  /\ Polling \in ProcessRecord /\ Polling.pc = "poll"
  /\ \A w, j, t : ProcessOK(Polling, w, j, t)
BY DEF Polling, ProcessRecord, ProcessOK, NoCause, Outcomes, Causes

(* Every process polls at the start. *)
LEMMA WorkerInvInit ==
  ASSUME WorkerInit
  PROVE  WorkerInv
<1>1. WorkTypes
  BY PollingIsOK DEF WorkerInit, WorkTypes, JobRecord
<1>. QED
  BY <1>1, PollingIsOK DEF WorkerInit, WorkerInv, VerdictOK
-----------------------------------------------------------------------------
(* Steps of the job *)

\* The record of a settled, canceled job and the verdict that goes with it.
LEMMA CanceledJobs ==
  ASSUME WorkerInv, ApplyCanceledJob
  PROVE  /\ workJob' \in JobRecord /\ Advances(workJob, workJob')
         /\ VerdictOK(verdict', workJob', ranOut)
<1>1. workJob \in JobRecord
  BY DEF WorkerInv, WorkTypes
<1>2. workJob' = [workJob EXCEPT !.state = "settled", !.canceled = TRUE]
      /\ verdict' = CanceledVerdict
  BY DEF ApplyCanceledJob
<1>3. workJob' \in JobRecord /\ workJob'.state = "settled" /\ workJob'.attempt = workJob.attempt
  BY <1>1, <1>2 DEF JobRecord
<1>4. workJob'.canceled = TRUE
  BY <1>1, <1>2 DEF JobRecord
<1>5. workJob.attempt \in Nat
  BY <1>1 DEF JobRecord
<1>6. verdict'.cause = "run_canceled" /\ verdict'.outcome = "canceled"
      /\ verdict'.attempt = workJob.attempt
  BY <1>2 DEF CanceledVerdict
<1>7. NoVerdict.outcome = "none"
  BY DEF NoVerdict
<1>. QED
  BY <1>3, <1>4, <1>5, <1>6, <1>7 DEF Advances, VerdictOK

\* While the job is not settled there is no verdict.
LEMMA UnsettledMoves ==
  ASSUME WorkerInv, workJob.state # "settled", workJob' \in JobRecord,
         workJob'.state # "settled", UNCHANGED verdict
  PROVE  VerdictOK(verdict', workJob', ranOut)
BY DEF WorkerInv, VerdictOK

(* A cancellation is asked for once and is not taken back. *)
LEMMA CancelRequests ==
  ASSUME WorkerInv, RequestCancel
  PROVE  WorkerInv'
<1>1. UNCHANGED <<process, beats, ranOut>>
  BY DEF RequestCancel
<1>2. CASE ApplyCanceledJob
  BY <1>1, <1>2, CanceledJobs, JobMoves
<1>3. CASE ~ApplyCanceledJob
  <2>1. /\ workJob.state = "running" /\ UNCHANGED verdict
        /\ workJob' = [workJob EXCEPT !.canceled = TRUE]
    BY <1>3 DEF RequestCancel
  <2>2. workJob \in JobRecord
    BY DEF WorkerInv, WorkTypes
  <2>3. /\ workJob' \in JobRecord /\ workJob'.state = "running"
        /\ workJob'.attempt = workJob.attempt /\ workJob'.owner = workJob.owner
    BY <2>1, <2>2 DEF JobRecord
  <2>4. workJob'.canceled = TRUE
    BY <2>1, <2>2 DEF JobRecord
  <2>5. workJob.attempt \in Nat
    BY <2>2 DEF JobRecord
  <2>6. Advances(workJob, workJob')
    BY <2>1, <2>3, <2>4, <2>5 DEF Advances
  <2>7. VerdictOK(verdict', workJob', ranOut)
    BY <2>1, <2>3, UnsettledMoves
  <2>. QED
    BY <1>1, <2>3, <2>6, <2>7, JobMoves
<1>. QED
  BY <1>2, <1>3

(* A lost job that was asked to stop is settled as canceled. *)
LEMMA LostJobs ==
  ASSUME WorkerInv, SettleLostJob
  PROVE  WorkerInv'
<1>1. ApplyCanceledJob /\ UNCHANGED <<process, beats, ranOut>>
  BY DEF SettleLostJob
<1>. QED
  BY <1>1, CanceledJobs, JobMoves

\* Time passes for the lease.
LEMMA JobTime ==
  ASSUME WorkerInv, NEW n \in Int, workJob' = [workJob EXCEPT !.left = n],
         UNCHANGED <<verdict, ranOut>>
  PROVE  /\ workJob' \in JobRecord /\ Advances(workJob, workJob')
         /\ VerdictOK(verdict', workJob', ranOut)
         /\ workJob'.attempt = workJob.attempt
<1>1. workJob \in JobRecord
  BY DEF WorkerInv, WorkTypes
<1>2. /\ workJob' \in JobRecord /\ workJob'.state = workJob.state
      /\ workJob'.attempt = workJob.attempt /\ workJob'.owner = workJob.owner
  BY <1>1 DEF JobRecord
<1>3. workJob'.canceled = workJob.canceled
  BY <1>1 DEF JobRecord
<1>4. workJob.attempt \in Nat
  BY <1>1 DEF JobRecord
<1>. QED
  BY <1>2, <1>3, <1>4 DEF Advances, WorkerInv, VerdictOK

(* Time runs the lease down and nothing else. *)
LEMMA Ticks ==
  ASSUME WorkerInv, WorkTick
  PROVE  WorkerInv'
<1>1. workJob.left - 1 \in Int
  BY DEF WorkerInv, WorkTypes, JobRecord
<1>2. workJob' = [workJob EXCEPT !.left = workJob.left - 1]
      /\ UNCHANGED <<process, beats, verdict, ranOut>>
  BY DEF WorkTick
<1>. QED
  BY <1>1, <1>2, JobTime, JobMoves

\* A claim starts a new attempt, so that no earlier one holds the lease.
LEMMA WorkerClaims ==
  ASSUME WorkerInv, NEW w \in Processes, ClaimJobForWorker(w)
  PROVE  WorkerInv'
<1>1. workJob \in JobRecord /\ workJob.attempt \in Nat /\ WorkLease \in Int
      /\ workJob.state # "settled"
  BY WorkerProcessAssumption DEF WorkerInv, WorkTypes, JobRecord, ClaimJobForWorker, JobOffered
<1>. DEFINE a == workJob.attempt + 1
<1>2. workJob' = [workJob EXCEPT !.state = "running", !.owner = w, !.attempt = a,
                                 !.left = WorkLease]
      /\ UNCHANGED <<verdict, ranOut>>
  BY DEF ClaimJobForWorker
<1>3. a \in Nat /\ a > workJob.attempt
  BY <1>1
<1>. HIDE DEF a
<1>4. /\ workJob' \in JobRecord /\ workJob'.state = "running" /\ workJob'.attempt = a
  BY <1>1, <1>2, <1>3 DEF JobRecord
<1>5. workJob'.canceled = workJob.canceled
  BY <1>1, <1>2 DEF JobRecord
<1>6. Advances(workJob, workJob')
  BY <1>1, <1>3, <1>4, <1>5 DEF Advances
<1>7. VerdictOK(verdict', workJob', ranOut')
  BY <1>1, <1>2, <1>4, UnsettledMoves
<1>8. CASE UNCHANGED <<process, beats>>
  BY <1>2, <1>4, <1>6, <1>7, <1>8, JobMoves
<1>9. CASE ~UNCHANGED <<process, beats>>
  <2>. DEFINE p == [Polling EXCEPT !.pc = "preparing", !.attempt = a]
              b == [worker |-> w, attempt |-> a, answer |-> "none"]
  <2>1. process' = [process EXCEPT ![w] = p] /\ beats' = beats \cup {b}
    BY <1>4, <1>9 DEF ClaimJobForWorker
  <2>2. /\ p \in ProcessRecord /\ p.attempt = a /\ p.why = NoCause /\ p.cause = NoCause
    BY <1>3 DEF Polling, ProcessRecord, NoCause, Outcomes, Causes
  <2>3. p.drained = FALSE
    BY DEF Polling
  <2>4. b \in BeatRecord /\ b.attempt = a /\ b.answer = "none"
    BY <1>3 DEF BeatRecord
  <2>. HIDE DEF p, b
  <2>5. a \in 1..a
    BY <1>1, <1>3
  <2>6. ProcessOK(p, w, workJob', ranOut')
    BY <1>4, <2>2, <2>3, <2>5 DEF ProcessOK, CauseOK, NoCause
  <2>7. BeatOK(b, workJob')
    BY <1>3, <1>4, <2>4 DEF BeatOK
  <2>8. process' \in [Processes -> ProcessRecord]
        /\ \A u \in Processes : process'[u] = IF u = w THEN p ELSE process[u]
    BY <2>1, <2>2 DEF WorkerInv, WorkTypes
  <2>9. ASSUME NEW u \in Processes
        PROVE  ProcessOK(process'[u], u, workJob', ranOut')
    <3>1. CASE u = w
      BY <3>1, <2>6, <2>8
    <3>2. CASE u # w
      <4>1. process'[u] = process[u] /\ process[u] \in ProcessRecord
            /\ ProcessOK(process[u], u, workJob, ranOut)
        BY <3>2, <2>8 DEF WorkerInv, WorkTypes
      <4>2. ProcessOK(process[u], u, workJob', ranOut)
        BY <1>1, <1>4, <1>6, <4>1, KnowledgeStays
      <4>. QED
        BY <1>2, <4>1, <4>2
    <3>. QED
      BY <3>1, <3>2
  <2>10. ASSUME NEW c \in beats'
         PROVE  c \in BeatRecord /\ BeatOK(c, workJob')
    <3>1. CASE c = b
      BY <3>1, <2>4, <2>7
    <3>2. CASE c \in beats
      <4>1. c \in BeatRecord /\ BeatOK(c, workJob)
        BY <3>2 DEF WorkerInv, WorkTypes
      <4>. QED
        BY <1>1, <1>4, <1>6, <4>1, AnswersStay
    <3>. QED
      BY <2>1, <3>1, <3>2
  <2>11. WorkTypes'
    BY <1>4, <2>8, <2>10 DEF WorkTypes
  <2>. QED
    BY <1>7, <2>9, <2>10, <2>11 DEF WorkerInv
<1>. QED
  BY <1>8, <1>9

-----------------------------------------------------------------------------
(* Steps of a process *)

\* The state of a process, as the steps of its attempt find it.
LEMMA ProcessFacts ==
  ASSUME WorkerInv, NEW w \in Processes
  PROVE  /\ process \in [Processes -> ProcessRecord] /\ process[w] \in ProcessRecord
         /\ ProcessOK(process[w], w, workJob, ranOut)
BY DEF WorkerInv, WorkTypes

(* A stop request is remembered until the process is restarted. *)
LEMMA WorkerStops ==
  ASSUME WorkerInv, NEW w \in Processes, Stop(w)
  PROVE  WorkerInv'
<1>. DEFINE old == process[w]
            p == [old EXCEPT !.stopping = TRUE]
<1>1. old \in ProcessRecord /\ ProcessOK(old, w, workJob, ranOut)
  BY ProcessFacts
<1>2. process' = [process EXCEPT ![w] = p] /\ UNCHANGED <<workJob, beats, verdict, ranOut>>
  BY ProcessFacts DEF Stop
<1>. HIDE DEF old
<1>3. /\ p \in ProcessRecord /\ p.pc = old.pc /\ p.attempt = old.attempt /\ p.why = old.why
      /\ p.cause = old.cause
  BY <1>1 DEF ProcessRecord
<1>4. p.drained = old.drained
  BY <1>1 DEF ProcessRecord
<1>. HIDE DEF p
<1>5. ProcessOK(p, w, workJob, ranOut')
  BY <1>1, <1>2, <1>3, <1>4 DEF ProcessOK, CauseOK
<1>. QED
  BY <1>2, <1>3, <1>5, ProcessMoves

(* The drain that takes too long cancels the attempt of a stopped process. *)
LEMMA DrainTimeouts ==
  ASSUME WorkerInv, NEW w \in Processes, DrainTimeout(w)
  PROVE  WorkerInv'
<1>. DEFINE old == process[w]
            p == [old EXCEPT !.drained = TRUE]
<1>1. old \in ProcessRecord /\ ProcessOK(old, w, workJob, ranOut)
  BY ProcessFacts
<1>2. process' = [process EXCEPT ![w] = p] /\ UNCHANGED <<workJob, beats, verdict>>
      /\ ranOut' = ranOut \cup {<<w, old.attempt>>}
  BY ProcessFacts DEF DrainTimeout
<1>. HIDE DEF old
<1>3. /\ p \in ProcessRecord /\ p.pc = old.pc /\ p.attempt = old.attempt /\ p.why = old.why
      /\ p.cause = old.cause
  BY <1>1 DEF ProcessRecord
<1>4. p.drained = TRUE
  BY <1>1 DEF ProcessRecord
<1>. HIDE DEF p
<1>5. ProcessOK(p, w, workJob, ranOut')
  BY <1>1, <1>2, <1>3, <1>4 DEF ProcessOK, CauseOK
<1>. QED
  BY <1>2, <1>3, <1>5, ProcessMoves

\* The attempt fails in its preparation, or its runner starts.
LEMMA Preparations ==
  ASSUME WorkerInv, NEW w \in Processes, FailPreparation(w) \/ StartRunner(w)
  PROVE  WorkerInv'
<1>. DEFINE old == process[w]
<1>1. old \in ProcessRecord /\ ProcessOK(old, w, workJob, ranOut) /\ old.pc = "preparing"
  BY ProcessFacts DEF FailPreparation, StartRunner
<1>2. ASSUME NEW p \in ProcessRecord, process' = [process EXCEPT ![w] = p],
             p.attempt = old.attempt, p.why = old.why, p.cause = old.cause,
             p.drained = old.drained
      PROVE  WorkerInv'
  <2>1. UNCHANGED <<workJob, beats, verdict, ranOut>>
    BY DEF FailPreparation, StartRunner
  <2>2. ProcessOK(p, w, workJob, ranOut')
    BY <1>1, <1>2, <2>1 DEF ProcessOK, CauseOK
  <2>. QED
    BY <1>2, <2>1, <2>2, ProcessMoves
<1>3. CASE FailPreparation(w)
  <2>. DEFINE p == [old EXCEPT !.pc = "completing", !.outcome = "failed"]
  <2>1. process' = [process EXCEPT ![w] = p]
    BY <1>3, ProcessFacts DEF FailPreparation
  <2>. HIDE DEF old
  <2>2. p \in ProcessRecord /\ p.attempt = old.attempt /\ p.why = old.why /\ p.cause = old.cause
    BY <1>1 DEF ProcessRecord, Outcomes
  <2>3. p.drained = old.drained
    BY <1>1 DEF ProcessRecord
  <2>. HIDE DEF p
  <2>. QED
    BY <2>1, <2>2, <2>3, <1>2
<1>4. CASE StartRunner(w)
  <2>. DEFINE p == [old EXCEPT !.pc = "running"]
  <2>1. process' = [process EXCEPT ![w] = p]
    BY <1>4, ProcessFacts DEF StartRunner
  <2>. HIDE DEF old
  <2>2. p \in ProcessRecord /\ p.attempt = old.attempt /\ p.why = old.why /\ p.cause = old.cause
    BY <1>1 DEF ProcessRecord
  <2>3. p.drained = old.drained
    BY <1>1 DEF ProcessRecord
  <2>. HIDE DEF p
  <2>. QED
    BY <2>1, <2>2, <2>3, <1>2
<1>. QED
  BY <1>3, <1>4

\* The cause that is recorded is the runner's, the heartbeat's or the drain's.
LEMMA RunnerReturn ==
  ASSUME WorkerInv, NEW w \in Processes, NEW timedOut \in BOOLEAN,
         NEW outcome \in {"succeeded", "failed", "waiting_human"},
         RunnerReturns(w, outcome, timedOut)
  PROVE  WorkerInv'
<1>. DEFINE old == process[w]
            cause == InterruptionCause(old, timedOut)
            p == [old EXCEPT !.pc = "completing", !.outcome = outcome, !.cause = cause]
<1>1. old \in ProcessRecord /\ ProcessOK(old, w, workJob, ranOut) /\ old.pc = "running"
  BY ProcessFacts DEF RunnerReturns
<1>2. process' = [process EXCEPT ![w] = p] /\ UNCHANGED <<workJob, beats, verdict, ranOut>>
  BY DEF RunnerReturns
<1>3. /\ cause \in {"action_timeout", old.why, "worker_shutdown", NoCause}
      /\ cause = "worker_shutdown" /\ cause # old.why => old.drained
  BY DEF InterruptionCause
<1>. HIDE DEF old, cause
<1>4. cause \in Causes /\ CauseOK(cause, workJob, w, old)
  <2>1. CASE cause = old.why
    BY <1>1, <2>1 DEF ProcessOK, ProcessRecord, Causes, NoCause
  <2>2. CASE cause # old.why
    BY <1>3, <2>2 DEF CauseOK, Causes, NoCause
  <2>. QED
    BY <2>1, <2>2
<1>5. /\ p \in ProcessRecord /\ p.attempt = old.attempt /\ p.why = old.why /\ p.cause = cause
  BY <1>1, <1>4 DEF ProcessRecord, Outcomes
<1>6. p.drained = old.drained
  BY <1>1 DEF ProcessRecord
<1>. HIDE DEF p
<1>7. ProcessOK(p, w, workJob, ranOut')
  BY <1>1, <1>2, <1>4, <1>5, <1>6 DEF ProcessOK, CauseOK
<1>. QED
  BY <1>2, <1>5, <1>7, ProcessMoves

(* A restarted process has forgotten everything. *)
LEMMA Restarts ==
  ASSUME WorkerInv, NEW w \in Processes, Restart(w)
  PROVE  WorkerInv'
<1>1. process' = [process EXCEPT ![w] = Polling] /\ UNCHANGED <<workJob, verdict, ranOut>>
      /\ beats' \subseteq beats
  BY DEF Restart
<1>2. ranOut \subseteq ranOut' /\ ProcessOK(Polling, w, workJob, ranOut')
  BY <1>1, PollingIsOK
<1>. QED
  BY <1>1, <1>2, PollingIsOK, ProcessMoves
\* What the store makes of a completion.
LEMMA Acceptances ==
  ASSUME WorkerInv, NEW w \in Processes, process[w].pc = "completing", AcceptVerdict(w)
  PROVE  /\ workJob' \in JobRecord /\ Advances(workJob, workJob')
         /\ VerdictOK(verdict', workJob', ranOut)
<1>1. workJob \in JobRecord /\ workJob.attempt \in Nat /\ VerdictOK(verdict, workJob, ranOut)
  BY DEF WorkerInv, WorkTypes, JobRecord
<1>2. CASE UNCHANGED <<workJob, verdict>>
  BY <1>1, <1>2 DEF Advances
<1>3. CASE ApplyCanceledJob
  BY <1>3, CanceledJobs
<1>4. CASE ~UNCHANGED <<workJob, verdict>> /\ ~ApplyCanceledJob
  <2>. DEFINE old == process[w]
  <2>1. /\ HoldsLease(w, old.attempt) /\ ~workJob.canceled
        /\ workJob' = [workJob EXCEPT !.state = "settled"]
        /\ verdict' = [outcome |-> old.outcome, cause |-> old.cause, attempt |-> old.attempt]
    BY <1>4 DEF AcceptVerdict, LeaseAccepted
  <2>2. old \in ProcessRecord /\ ProcessOK(old, w, workJob, ranOut) /\ old.pc # "poll"
    BY ProcessFacts
  <2>. HIDE DEF old
  <2>3. /\ workJob' \in JobRecord /\ workJob'.state = "settled"
        /\ workJob'.attempt = workJob.attempt /\ workJob'.owner = workJob.owner
    BY <1>1, <2>1 DEF JobRecord
  <2>4. workJob'.canceled = workJob.canceled
    BY <1>1, <2>1 DEF JobRecord
  <2>5. Held(workJob, w, old.attempt)
    BY <2>1 DEF HoldsLease, Held
  <2>6. /\ old.attempt \in 1..workJob.attempt /\ CauseOK(old.cause, workJob, w, old)
        /\ old.drained => <<w, old.attempt>> \in ranOut
    BY <2>2 DEF ProcessOK
  <2>7. verdict'.attempt = old.attempt /\ verdict'.cause = old.cause
    BY <2>1
  <2>8. old.attempt # 0 /\ NoVerdict.attempt = 0
    BY <1>1, <2>6 DEF NoVerdict
  <2>9. verdict' # NoVerdict
    BY <2>7, <2>8
  <2>10. workJob.owner = w /\ workJob.attempt = old.attempt
    BY <2>5 DEF Held
  <2>11. VerdictOK(verdict', workJob', ranOut)
    BY <2>1, <2>3, <2>4, <2>5, <2>6, <2>7, <2>9, <2>10 DEF VerdictOK, CauseOK
  <2>. QED
    BY <1>1, <2>3, <2>4, <2>11 DEF Advances
<1>. QED
  BY <1>2, <1>3, <1>4

(* The report of an attempt is accepted under its lease or refused. *)
LEMMA WorkerCompletions ==
  ASSUME WorkerInv, NEW w \in Processes, FinishAttempt(w)
  PROVE  WorkerInv'
<1>1. /\ workJob' \in JobRecord /\ Advances(workJob, workJob')
      /\ VerdictOK(verdict', workJob', ranOut) /\ workJob \in JobRecord
  <2>1. workJob \in JobRecord /\ workJob.attempt \in Nat /\ VerdictOK(verdict, workJob, ranOut)
    BY DEF WorkerInv, WorkTypes, JobRecord
  <2>2. CASE AcceptVerdict(w)
    BY <2>1, <2>2, Acceptances DEF FinishAttempt
  <2>3. CASE UNCHANGED <<workJob, verdict>>
    BY <2>1, <2>3 DEF Advances
  <2>. QED
    BY <2>2, <2>3 DEF FinishAttempt
<1>. DEFINE p == [Polling EXCEPT !.stopping = process[w].stopping]
<1>2. process' = [process EXCEPT ![w] = p] /\ ranOut' = ranOut
  BY DEF FinishAttempt
<1>3. p \in ProcessRecord /\ p.pc = "poll"
  <2>1. process[w].stopping \in BOOLEAN
    BY ProcessFacts DEF ProcessRecord
  <2>. QED
    BY <2>1 DEF Polling, ProcessRecord, NoCause, Outcomes, Causes
<1>. HIDE DEF p
<1>4. process' \in [Processes -> ProcessRecord]
      /\ \A u \in Processes : process'[u] = IF u = w THEN p ELSE process[u]
  BY <1>2, <1>3, ProcessFacts
<1>5. ASSUME NEW u \in Processes
      PROVE  ProcessOK(process'[u], u, workJob', ranOut)
  <2>1. CASE u = w
    BY <2>1, <1>3, <1>4 DEF ProcessOK
  <2>2. CASE u # w
    <3>1. process'[u] = process[u] /\ process[u] \in ProcessRecord
          /\ ProcessOK(process[u], u, workJob, ranOut)
      BY <2>2, <1>4, ProcessFacts
    <3>2. ProcessOK(process[u], u, workJob', ranOut)
      BY <1>1, <3>1, KnowledgeStays
    <3>. QED
      BY <3>1, <3>2
  <2>. QED
    BY <2>1, <2>2
<1>6. beats' \subseteq beats
  BY DEF FinishAttempt, StopHeartbeat
<1>7. ASSUME NEW b \in beats'
      PROVE  b \in BeatRecord /\ BeatOK(b, workJob')
  <2>1. b \in BeatRecord /\ BeatOK(b, workJob)
    BY <1>6 DEF WorkerInv, WorkTypes
  <2>. QED
    BY <1>1, <2>1, AnswersStay
<1>8. WorkTypes'
  BY <1>1, <1>4, <1>7 DEF WorkTypes
<1>. QED
  BY <1>1, <1>2, <1>5, <1>7, <1>8 DEF WorkerInv

-----------------------------------------------------------------------------
(* Steps of a heartbeat goroutine *)

\* The answer is true when it is given.
LEMMA WorkerRenewals ==
  ASSUME WorkerInv, NEW b \in beats, RenewJobLease(b)
  PROVE  WorkerInv'
<1>1. /\ b \in BeatRecord /\ BeatOK(b, workJob) /\ workJob \in JobRecord
      /\ workJob.attempt \in Nat /\ b.attempt \in Nat /\ WorkLease \in Int
  BY WorkerProcessAssumption DEF WorkerInv, WorkTypes, JobRecord, BeatRecord
<1>2. UNCHANGED <<process, verdict, ranOut>>
  BY DEF RenewJobLease
<1>3. /\ workJob' \in JobRecord /\ Advances(workJob, workJob')
      /\ VerdictOK(verdict', workJob', ranOut)
  <2>1. CASE Renewable(b)
    BY <1>1, <1>2, <2>1, JobTime DEF RenewJobLease
  <2>2. CASE ~Renewable(b)
    BY <1>1, <1>2, <2>2 DEF RenewJobLease, Advances, WorkerInv
  <2>. QED
    BY <2>1, <2>2
<1>. DEFINE answer == HeartbeatAnswer(b)
            c == [b EXCEPT !.answer = answer]
<1>4. beats' \subseteq beats \cup {c}
  BY DEF RenewJobLease
<1>5. /\ answer \in {"owned", "lease_lost", "run_canceled"}
      /\ answer = "lease_lost" => ~Held(workJob, b.worker, b.attempt)
      /\ answer = "run_canceled" => workJob.canceled
  BY DEF HeartbeatAnswer, Renewable, HoldsLease, Held
<1>. HIDE DEF answer
<1>6. c \in BeatRecord /\ c.worker = b.worker /\ c.attempt = b.attempt /\ c.answer = answer
  BY <1>1, <1>5 DEF BeatRecord
<1>. HIDE DEF c
<1>7. BeatOK(c, workJob)
  BY <1>1, <1>5, <1>6 DEF BeatOK
<1>8. ASSUME NEW d \in beats'
      PROVE  d \in BeatRecord /\ BeatOK(d, workJob')
  <2>1. d \in BeatRecord /\ BeatOK(d, workJob)
    BY <1>4, <1>6, <1>7 DEF WorkerInv, WorkTypes
  <2>. QED
    BY <1>1, <1>3, <2>1, AnswersStay
<1>9. ASSUME NEW u \in Processes
      PROVE  ProcessOK(process[u], u, workJob', ranOut)
  BY <1>1, <1>3, ProcessFacts, KnowledgeStays
<1>10. WorkTypes'
  BY <1>2, <1>3, <1>8 DEF WorkTypes, WorkerInv
<1>. QED
  BY <1>2, <1>3, <1>8, <1>9, <1>10 DEF WorkerInv

\* The monitor keeps an answer that is about its own attempt.
LEMMA HeartbeatHandling ==
  ASSUME WorkerInv, NEW b \in beats, HandleHeartbeat(b)
  PROVE  WorkerInv'
<1>1. b \in BeatRecord /\ BeatOK(b, workJob) /\ b.worker \in Processes
  BY DEF WorkerInv, WorkTypes, BeatRecord
<1>2. UNCHANGED <<workJob, verdict, ranOut>>
  BY DEF HandleHeartbeat
<1>3. ASSUME NEW d \in beats'
      PROVE  d \in BeatRecord /\ BeatOK(d, workJob)
  <2>. DEFINE c == [b EXCEPT !.answer = "none"]
  <2>1. d \in beats \/ d = c
    BY <1>3 DEF HandleHeartbeat
  <2>2. c \in BeatRecord /\ c.attempt = b.attempt /\ c.answer = "none"
    BY <1>1 DEF BeatRecord
  <2>. HIDE DEF c
  <2>3. BeatOK(c, workJob)
    BY <1>1, <2>2 DEF BeatOK
  <2>. QED
    BY <2>1, <2>2, <2>3 DEF WorkerInv, WorkTypes
<1>4. /\ process' \in [Processes -> ProcessRecord]
      /\ \A u \in Processes : ProcessOK(process'[u], u, workJob, ranOut)
  <2>1. CASE process' = process
    BY <2>1 DEF WorkerInv, WorkTypes
  <2>2. CASE process' # process
    <3>. DEFINE w == b.worker
                old == process[w]
                p == [old EXCEPT !.why = b.answer]
    <3>1. /\ process' = [process EXCEPT ![w] = p]
          /\ b.answer \in {"lease_lost", "run_canceled"} /\ old.attempt = b.attempt
      BY <1>1, <2>2, ProcessFacts DEF HandleHeartbeat, AttemptOf, BeatRecord
    <3>2. old \in ProcessRecord /\ ProcessOK(old, w, workJob, ranOut)
          /\ process \in [Processes -> ProcessRecord]
      BY <1>1, ProcessFacts
    <3>. HIDE DEF old
    <3>3. p \in ProcessRecord /\ p.pc = old.pc /\ p.attempt = old.attempt /\ p.why = b.answer
          /\ p.cause = old.cause
      BY <3>1, <3>2 DEF ProcessRecord
    <3>4. p.drained = old.drained
      BY <3>2 DEF ProcessRecord
    <3>. HIDE DEF p
    <3>5. CauseOK(b.answer, workJob, w, p)
      BY <1>1, <3>1, <3>3 DEF CauseOK, BeatOK
    <3>6. ProcessOK(p, w, workJob, ranOut)
      BY <3>2, <3>3, <3>4, <3>5 DEF ProcessOK, CauseOK
    <3>. HIDE DEF w
    <3>7. w \in Processes
      BY <1>1 DEF w
    <3>. QED
      BY <3>1, <3>2, <3>3, <3>6, <3>7, ProcessFacts
  <2>. QED
    BY <2>1, <2>2
<1>5. WorkTypes'
  BY <1>2, <1>3, <1>4 DEF WorkTypes, WorkerInv
<1>. QED
  BY <1>2, <1>3, <1>4, <1>5 DEF WorkerInv

-----------------------------------------------------------------------------
\* The inductive invariant of the worker processes.
THEOREM WorkerInvHolds == WorkerSpec => []WorkerInv
<1>1. ASSUME WorkerInv, WorkerNext
      PROVE  WorkerInv'
  <2>1. CASE RequestCancel \/ SettleLostJob \/ WorkTick
    BY <1>1, <2>1, CancelRequests, LostJobs, Ticks
  <2>2. ASSUME NEW w \in Processes,
               \/ ClaimJobForWorker(w) \/ Stop(w) \/ DrainTimeout(w)
               \/ FailPreparation(w) \/ StartRunner(w) \/ FinishAttempt(w) \/ Restart(w)
        PROVE  WorkerInv'
    BY <1>1, <2>2, WorkerClaims, WorkerStops, DrainTimeouts, Preparations, WorkerCompletions, Restarts
  <2>3. ASSUME NEW w \in Processes, NEW outcome \in {"succeeded", "failed", "waiting_human"},
               NEW timedOut \in BOOLEAN, RunnerReturns(w, outcome, timedOut)
        PROVE  WorkerInv'
    BY <1>1, <2>3, RunnerReturn
  <2>4. ASSUME NEW b \in beats, RenewJobLease(b) \/ HandleHeartbeat(b)
        PROVE  WorkerInv'
    BY <1>1, <2>4, WorkerRenewals, HeartbeatHandling
  <2>. QED
    BY <1>1, <2>1, <2>2, <2>3, <2>4 DEF WorkerNext
<1>2. WorkerInv /\ UNCHANGED workerVars => WorkerInv'
  BY DEF WorkerInv, WorkTypes, workerVars
<1>. QED
  BY <1>1, <1>2, WorkerInvInit, PTL DEF WorkerSpec

\* What a run is said to have been interrupted by is what happened, for every
\* order of heartbeats, completions, claims, cancellations and lost calls.
THEOREM RecordedCauseIsTrueHolds == WorkerSpec => []RecordedCauseIsTrue
<1>1. WorkerInv => RecordedCauseIsTrue
  BY DEF WorkerInv, VerdictOK, RecordedCauseIsTrue
<1>. QED
  BY <1>1, WorkerInvHolds, PTL
-----------------------------------------------------------------------------
(* The types of the four parts *)

\* Type correctness of the app, its jobs and its objects, for any number of
\* jobs and attempts.
THEOREM AppRuntimeTypesHold == AppRuntimeSpec => []AppRuntimeTypeOK
<1>1. AppInv => AppRuntimeTypeOK
  BY DEF AppInv
<1>. QED
  BY <1>1, AppInvHolds, PTL

-----------------------------------------------------------------------------
(* Types of the worker process: attempts and leases stay within their bounds *)

\* The types with the bounds, as one record each.
TypedJob == [state : {"queued", "running", "settled"}, owner : Processes \cup {NoOne},
             attempt : 0..MaxWorkAttempts, left : -1..WorkLease, canceled : BOOLEAN]
TypedProcess == [pc : {"poll", "preparing", "running", "completing"},
                 attempt : 0..MaxWorkAttempts, why : Causes, drained : BOOLEAN,
                 outcome : Outcomes, cause : Causes, stopping : BOOLEAN]
TypedBeat == [worker : Processes, attempt : 1..MaxWorkAttempts,
              answer : {"none", "owned", "lease_lost", "run_canceled"}]
TypedVerdict == [outcome : Outcomes, cause : Causes, attempt : 0..MaxWorkAttempts]

(* The job and the verdict: what the store's half of a step writes. *)
LEMMA StoreTypes ==
  ASSUME WorkerTypeOK
  PROVE  /\ [workJob EXCEPT !.state = "settled", !.canceled = TRUE] \in TypedJob
         /\ [workJob EXCEPT !.state = "settled"] \in TypedJob
         /\ [workJob EXCEPT !.canceled = TRUE] \in TypedJob
         /\ [workJob EXCEPT !.left = WorkLease] \in TypedJob
         /\ workJob.left >= 0 => [workJob EXCEPT !.left = @ - 1] \in TypedJob
         /\ workJob.attempt < MaxWorkAttempts => \A w \in Processes :
              [workJob EXCEPT !.state = "running", !.owner = w, !.attempt = @ + 1,
                              !.left = WorkLease] \in TypedJob
         /\ CanceledVerdict \in TypedVerdict
         /\ \A w \in Processes : [outcome |-> process[w].outcome, cause |-> process[w].cause,
                                  attempt |-> process[w].attempt] \in TypedVerdict
<1>1. /\ MaxWorkAttempts \in Nat /\ WorkLease \in Nat
      /\ workJob \in TypedJob /\ process \in [Processes -> TypedProcess]
  BY WorkerProcessAssumption DEF WorkerTypeOK, TypedJob, TypedProcess
<1>2. WorkLease \in -1..WorkLease
  BY <1>1
<1>3. workJob.left >= 0 => workJob.left - 1 \in -1..WorkLease
  BY <1>1 DEF TypedJob
<1>4. workJob.attempt < MaxWorkAttempts => workJob.attempt + 1 \in 0..MaxWorkAttempts
  BY <1>1 DEF TypedJob
<1>5. CanceledVerdict \in TypedVerdict
  BY <1>1 DEF CanceledVerdict, TypedVerdict, TypedJob, Causes, Outcomes
<1>6. \A w \in Processes : [outcome |-> process[w].outcome, cause |-> process[w].cause,
                            attempt |-> process[w].attempt] \in TypedVerdict
  BY <1>1 DEF TypedVerdict, TypedProcess
<1>. QED
  BY <1>1, <1>2, <1>3, <1>4, <1>5, <1>6 DEF TypedJob

(* What the poll loop writes into its process. *)
LEMMA LoopTypes ==
  ASSUME WorkerTypeOK, NEW w \in Processes
  PROVE  LET p == process[w]
         IN  /\ Polling \in TypedProcess
             /\ [Polling EXCEPT !.stopping = p.stopping] \in TypedProcess
             /\ \A n \in 1..MaxWorkAttempts :
                  [Polling EXCEPT !.pc = "preparing", !.attempt = n] \in TypedProcess
             /\ [p EXCEPT !.stopping = TRUE] \in TypedProcess
             /\ [p EXCEPT !.drained = TRUE] \in TypedProcess
             /\ [p EXCEPT !.pc = "completing", !.outcome = "failed"] \in TypedProcess
             /\ [p EXCEPT !.pc = "running"] \in TypedProcess
             /\ \A why \in Causes : [p EXCEPT !.why = why] \in TypedProcess
             /\ \A outcome \in Outcomes, timedOut \in BOOLEAN :
                  [p EXCEPT !.pc = "completing", !.outcome = outcome,
                            !.cause = InterruptionCause(p, timedOut)] \in TypedProcess
<1>1. MaxWorkAttempts \in Nat /\ process[w] \in TypedProcess
  BY WorkerProcessAssumption DEF WorkerTypeOK, TypedProcess
<1>2. Polling \in TypedProcess
  BY <1>1 DEF Polling, TypedProcess, Causes, Outcomes
<1>3. \A timedOut \in BOOLEAN : InterruptionCause(process[w], timedOut) \in Causes
  BY <1>1 DEF InterruptionCause, TypedProcess, Causes
<1>4. "none" \in Outcomes /\ "failed" \in Outcomes
  BY DEF Outcomes
<1>5. \A n \in 1..MaxWorkAttempts : n \in 0..MaxWorkAttempts
  BY <1>1
<1>. QED
  BY <1>1, <1>2, <1>3, <1>4, <1>5 DEF TypedProcess

(* A verdict of the store is a typed one of a typed job. *)
LEMMA VerdictTypes ==
  ASSUME WorkerTypeOK, NEW w \in Processes, AcceptVerdict(w)
  PROVE  workJob' \in TypedJob /\ verdict' \in TypedVerdict
<1>1. workJob \in TypedJob /\ verdict \in TypedVerdict
  BY DEF WorkerTypeOK, TypedJob, TypedVerdict
<1>. QED
  BY <1>1, StoreTypes DEF AcceptVerdict, ApplyCanceledJob

(* Every step keeps attempts, leases and calls within their bounds. *)
LEMMA WorkerTypeSteps ==
  ASSUME WorkerTypeOK, WorkerInv, [WorkerNext]_workerVars
  PROVE  WorkerTypeOK'
<1>. DEFINE Times == Processes \X (1..MaxWorkAttempts)
<1>1. /\ workJob \in TypedJob /\ process \in [Processes -> TypedProcess] /\ beats \subseteq TypedBeat
      /\ verdict \in TypedVerdict /\ ranOut \subseteq Times /\ lostCalls \in 0..MaxLostCalls
  BY DEF WorkerTypeOK, TypedJob, TypedProcess, TypedBeat, TypedVerdict
<1>2. MaxLostCalls \in Nat /\ MaxWorkAttempts \in Nat
  BY WorkerProcessAssumption
<1>. SUFFICES
      /\ workJob' \in TypedJob /\ process' \in [Processes -> TypedProcess] /\ beats' \subseteq TypedBeat
      /\ verdict' \in TypedVerdict /\ ranOut' \subseteq Times /\ lostCalls' \in 0..MaxLostCalls
  BY DEF WorkerTypeOK, TypedJob, TypedProcess, TypedBeat, TypedVerdict
<1>3. Lost \/ Delivered => lostCalls' \in 0..MaxLostCalls
  BY <1>1, <1>2 DEF Lost, Delivered
<1>. HIDE DEF Times
<1>4. CASE RequestCancel \/ SettleLostJob \/ WorkTick
  BY <1>1, <1>4, StoreTypes DEF RequestCancel, SettleLostJob, WorkTick, ApplyCanceledJob
<1>5. ASSUME NEW w \in Processes, ClaimJobForWorker(w)
      PROVE  /\ workJob' \in TypedJob /\ process' \in [Processes -> TypedProcess]
             /\ beats' \subseteq TypedBeat /\ verdict' \in TypedVerdict /\ ranOut' \subseteq Times
             /\ lostCalls' \in 0..MaxLostCalls
  <2>1. /\ workJob' \in TypedJob /\ lostCalls' \in 0..MaxLostCalls /\ UNCHANGED <<verdict, ranOut>>
        /\ workJob'.attempt = workJob.attempt + 1
    BY <1>1, <1>3, <1>5, StoreTypes DEF ClaimJobForWorker, TypedJob
  <2>2. workJob'.attempt \in 1..MaxWorkAttempts
    BY <1>1, <1>2, <2>1 DEF TypedJob
  <2>3. [worker |-> w, attempt |-> workJob'.attempt, answer |-> "none"] \in TypedBeat
    BY <2>2 DEF TypedBeat
  <2>4. [Polling EXCEPT !.pc = "preparing", !.attempt = workJob'.attempt] \in TypedProcess
    BY <2>2, LoopTypes
  <2>5. process' \in [Processes -> TypedProcess] /\ beats' \subseteq TypedBeat
    BY <1>1, <1>5, <2>3, <2>4 DEF ClaimJobForWorker
  <2>. QED
    BY <1>1, <2>1, <2>5
<1>6. ASSUME NEW w \in Processes,
             \/ Stop(w) \/ DrainTimeout(w) \/ FailPreparation(w) \/ StartRunner(w) \/ Restart(w)
             \/ \E outcome \in {"succeeded", "failed", "waiting_human"}, timedOut \in BOOLEAN :
                  RunnerReturns(w, outcome, timedOut)
      PROVE  /\ workJob' \in TypedJob /\ process' \in [Processes -> TypedProcess]
             /\ beats' \subseteq TypedBeat /\ verdict' \in TypedVerdict /\ ranOut' \subseteq Times
             /\ lostCalls' \in 0..MaxLostCalls
  <2>. DEFINE p == process[w]
  <2>1. PICK r \in TypedProcess : process' = [process EXCEPT ![w] = r]
    <3>1. CASE Stop(w)
      BY <3>1, LoopTypes DEF Stop
    <3>2. CASE DrainTimeout(w)
      BY <3>2, LoopTypes DEF DrainTimeout
    <3>3. CASE FailPreparation(w)
      <4>1. process' = [process EXCEPT ![w] = [p EXCEPT !.pc = "completing", !.outcome = "failed"]]
        BY <1>1, <3>3 DEF FailPreparation
      <4>. QED
        BY <4>1, LoopTypes
    <3>4. CASE StartRunner(w)
      BY <3>4, LoopTypes DEF StartRunner
    <3>5. CASE Restart(w)
      BY <3>5, LoopTypes DEF Restart
    <3>6. ASSUME NEW outcome \in {"succeeded", "failed", "waiting_human"}, NEW timedOut \in BOOLEAN,
                 RunnerReturns(w, outcome, timedOut)
          PROVE  \E r \in TypedProcess : process' = [process EXCEPT ![w] = r]
      <4>1. outcome \in Outcomes
        BY DEF Outcomes
      <4>2. process' = [process EXCEPT ![w] =
              [p EXCEPT !.pc = "completing", !.outcome = outcome,
                        !.cause = InterruptionCause(p, timedOut)]]
        BY <1>1, <3>6 DEF RunnerReturns
      <4>. QED
        BY <4>1, <4>2, LoopTypes
    <3>. QED
      BY <1>6, <3>1, <3>2, <3>3, <3>4, <3>5, <3>6
  <2>2. process' \in [Processes -> TypedProcess]
    BY <1>1, <2>1
  <2>3. ranOut' \subseteq Times
    <3>1. CASE DrainTimeout(w)
      <4>1. process[w].pc # "poll" /\ ranOut' = ranOut \cup {<<w, process[w].attempt>>}
        BY <3>1 DEF DrainTimeout
      <4>2. process[w].attempt \in 0..MaxWorkAttempts
        BY <1>1 DEF TypedProcess
      <4>3. process[w].attempt \in 1..workJob.attempt
        BY <4>1 DEF WorkerInv, ProcessOK
      <4>4. workJob.attempt \in 0..MaxWorkAttempts
        BY <1>1 DEF TypedJob
      <4>5. process[w].attempt \in 1..MaxWorkAttempts
        BY <1>2, <4>2, <4>3, <4>4
      <4>. QED
        BY <1>1, <4>1, <4>5 DEF Times
    <3>2. CASE UNCHANGED ranOut
      BY <1>1, <3>2
    <3>. QED
      BY <1>6, <3>1, <3>2 DEF Stop, FailPreparation, StartRunner, Restart, RunnerReturns
  <2>4. beats' \subseteq beats /\ UNCHANGED <<workJob, verdict, lostCalls>>
    BY <1>6 DEF Stop, DrainTimeout, FailPreparation, StartRunner, Restart, RunnerReturns
  <2>. QED
    BY <1>1, <2>2, <2>3, <2>4
<1>7. ASSUME NEW w \in Processes, FinishAttempt(w)
      PROVE  /\ workJob' \in TypedJob /\ process' \in [Processes -> TypedProcess]
             /\ beats' \subseteq TypedBeat /\ verdict' \in TypedVerdict /\ ranOut' \subseteq Times
             /\ lostCalls' \in 0..MaxLostCalls
  <2>1. workJob' \in TypedJob /\ verdict' \in TypedVerdict
    BY <1>1, <1>7, VerdictTypes DEF FinishAttempt
  <2>2. process' \in [Processes -> TypedProcess]
    BY <1>1, <1>7, LoopTypes DEF FinishAttempt
  <2>3. beats' \subseteq beats /\ ranOut' = ranOut /\ (Lost \/ Delivered)
    BY <1>7 DEF FinishAttempt, StopHeartbeat
  <2>. QED
    BY <1>1, <1>3, <2>1, <2>2, <2>3
<1>8. ASSUME NEW b \in beats, RenewJobLease(b)
      PROVE  /\ workJob' \in TypedJob /\ process' \in [Processes -> TypedProcess]
             /\ beats' \subseteq TypedBeat /\ verdict' \in TypedVerdict /\ ranOut' \subseteq Times
             /\ lostCalls' \in 0..MaxLostCalls
  <2>1. [b EXCEPT !.answer = HeartbeatAnswer(b)] \in TypedBeat
    BY <1>1 DEF TypedBeat, HeartbeatAnswer
  <2>2. beats' \subseteq TypedBeat /\ (Lost \/ Delivered)
    BY <1>1, <1>8, <2>1 DEF RenewJobLease
  <2>3. workJob' \in TypedJob /\ UNCHANGED <<process, verdict, ranOut>>
    BY <1>1, <1>8, StoreTypes DEF RenewJobLease
  <2>. QED
    BY <1>1, <1>3, <2>2, <2>3
<1>9. ASSUME NEW b \in beats, HandleHeartbeat(b)
      PROVE  /\ workJob' \in TypedJob /\ process' \in [Processes -> TypedProcess]
             /\ beats' \subseteq TypedBeat /\ verdict' \in TypedVerdict /\ ranOut' \subseteq Times
             /\ lostCalls' \in 0..MaxLostCalls
  <2>1. b \in TypedBeat
    BY <1>1
  <2>2. [b EXCEPT !.answer = "none"] \in TypedBeat /\ b.worker \in Processes
    BY <2>1 DEF TypedBeat
  <2>3. b.answer # "owned" => b.answer \in Causes
    BY <1>9, <2>1 DEF TypedBeat, HandleHeartbeat, Causes
  <2>4. beats' \subseteq TypedBeat
    BY <1>1, <1>9, <2>2 DEF HandleHeartbeat
  <2>5. process' \in [Processes -> TypedProcess]
    <3>1. CASE process' = process
      BY <1>1, <3>1
    <3>2. CASE process' # process
      <4>1. b.answer # "owned" /\ process' = [process EXCEPT ![b.worker].why = b.answer]
        BY <1>9, <3>2 DEF HandleHeartbeat
      <4>2. [process[b.worker] EXCEPT !.why = b.answer] \in TypedProcess
        BY <2>2, <2>3, <4>1, LoopTypes
      <4>. QED
        BY <1>1, <4>1, <4>2
    <3>. QED
      BY <3>1, <3>2
  <2>6. UNCHANGED <<workJob, verdict, ranOut, lostCalls>>
    BY <1>9 DEF HandleHeartbeat
  <2>. QED
    BY <1>1, <2>4, <2>5, <2>6
<1>10. CASE UNCHANGED workerVars
  BY <1>1, <1>10 DEF workerVars
<1>. QED
  BY <1>4, <1>5, <1>6, <1>7, <1>8, <1>9, <1>10 DEF WorkerNext

\* Type correctness of the worker processes, their heartbeats and the job, for any number
\* of processes and any bounds.
THEOREM WorkerTypesHold == WorkerSpec => []WorkerTypeOK
<1>1. ASSUME WorkerInit PROVE WorkerTypeOK
  <2>1. {MaxWorkAttempts, WorkLease, MaxLostCalls} \subseteq Nat
    BY WorkerProcessAssumption
  <2>. QED
    BY <1>1, <2>1 DEF WorkerInit, WorkerTypeOK, Polling, NoVerdict, Causes, Outcomes
<1>. QED
  BY <1>1, WorkerTypeSteps, WorkerInvHolds, PTL DEF WorkerSpec
-----------------------------------------------------------------------------
(* Types of the secret variables *)

(* Every step keeps what the variable refers to recorded, and the bounds. *)
LEMMA SecretsTypeSteps ==
  ASSUME SecretsTypeOK, SecretsInv, SecretsInv', [SecretsNext]_secretVars
  PROVE  SecretsTypeOK'
<1>1. /\ published \subseteq recorded /\ recorded \subseteq SecretOps
      /\ \A op \in SecretOps : candidate[op].version \in 0..MaxTouches
      /\ sweep.stage \in {"idle", "live", "list", "delete"} /\ secretClock \in 0..MaxSecretClock
  BY DEF SecretsTypeOK
<1>2. /\ DOMAIN candidate = SecretOps /\ MaxTouches \in Nat /\ MaxSecretClock \in Nat
      /\ \A op \in SecretOps : candidate[op] \in [there : BOOLEAN, touched : Nat, version : Nat]
      /\ \A r \in SecretRequests : publisher[r].op \subseteq SecretOps
  BY SecretsAssumption DEF SecretsInv, SecretTypes
<1>3. sweep'.stage \in {"idle", "live", "list", "delete"}
  BY DEF SecretsInv, SecretTypes
<1>4. published' \subseteq recorded' /\ recorded' \subseteq SecretOps
  BY <1>1, <1>2 DEF SecretsNext, secretVars, RemoveVariable, SecretTick, BeginSweep,
     ListLiveRuntimeSecretCandidateReferences, ListRuntimeCandidates, DeleteRuntimeCandidate,
     EndSweep, StoreCandidate, PublishCandidate, AbandonCandidate
<1>5. secretClock' \in 0..MaxSecretClock
  <2>1. SecretTick \/ UNCHANGED secretClock
    BY DEF SecretsNext, secretVars, RemoveVariable, BeginSweep,
       ListLiveRuntimeSecretCandidateReferences, ListRuntimeCandidates, DeleteRuntimeCandidate,
       EndSweep, StoreCandidate, PublishCandidate, AbandonCandidate
  <2>. QED
    BY <1>1, <1>2, <2>1 DEF SecretTick
<1>6. \A op \in SecretOps : candidate'[op].version \in 0..MaxTouches
  <2>1. ASSUME NEW r \in SecretRequests, NEW p \in SecretOps, StoreCandidate(r, p)
        PROVE  \A op \in SecretOps : candidate'[op].version \in 0..MaxTouches
    <3>1. /\ candidate'[p].version = candidate[p].version + 1 /\ candidate[p].version < MaxTouches
          /\ \A op \in SecretOps \ {p} : candidate'[op] = candidate[op]
      BY <1>2, <2>1 DEF StoreCandidate
    <3>. QED
      BY <1>1, <1>2, <3>1
  <2>2. ASSUME NEW c \in sweep.page, DeleteRuntimeCandidate(c)
        PROVE  \A op \in SecretOps : candidate'[op].version \in 0..MaxTouches
    <3>1. c.op \in SecretOps
      BY SecretsFacts
    <3>2. \A op \in SecretOps : candidate'[op].version = candidate[op].version
      BY <1>2, <2>2, <3>1 DEF DeleteRuntimeCandidate
    <3>. QED
      BY <1>1, <3>2
  <2>3. CASE UNCHANGED candidate
    BY <1>1, <2>3
  <2>. QED
    BY <2>1, <2>2, <2>3 DEF SecretsNext, secretVars, RemoveVariable, SecretTick, BeginSweep,
       ListLiveRuntimeSecretCandidateReferences, ListRuntimeCandidates,
       EndSweep, PublishCandidate, AbandonCandidate
<1>. QED
  BY <1>3, <1>4, <1>5, <1>6 DEF SecretsTypeOK

\* Type correctness of the secret variable, its candidates and the sweep: a variable refers
\* only to an operation whose result the store recorded.
THEOREM SecretsTypesHold == SecretsSpec => []SecretsTypeOK
<1>1. ASSUME SecretsInit PROVE SecretsTypeOK
  <2>1. {MaxTouches, MaxSecretClock} \subseteq Nat
    BY SecretsAssumption
  <2>. QED
    BY <1>1, <2>1 DEF SecretsInit, SecretsTypeOK, NoSweep
<1>. QED
  BY <1>1, SecretsTypeSteps, SecretsInvHolds, PTL DEF SecretsSpec

-----------------------------------------------------------------------------
(* WorkerFleet: types *)

Credential == [revoked : BOOLEAN, deadline : Nat]

\* A handler in progress serves one worker under one credential.
RequestOK(r) ==
  /\ DOMAIN r = DOMAIN NoRequest
  /\ r.kind \in Kinds \cup {"none"} /\ r.generation \in Generations
  /\ r.next # "none" => \E w \in WorkerIds : r.worker = {w}

FleetTypes ==
  /\ FleetTypeOK
  /\ credentials \in Seq(Credential)
  /\ request = [q \in FleetRequests |-> request[q]]
  /\ \A q \in FleetRequests : RequestOK(request[q])

(* An idle handler is a handler. *)
LEMMA NoRequestOK == RequestOK(NoRequest)
<1>1. 0 \in Generations
  BY FleetAssumption DEF Generations
<1>. QED
  BY <1>1 DEF RequestOK, NoRequest

(* What a handler becomes. *)
LEMMA RequestSteps ==
  ASSUME FleetTypes, NEW q \in FleetRequests, NEW r, RequestOK(r),
         request' = [request EXCEPT ![q] = r]
  PROVE  /\ request' = [p \in FleetRequests |-> request'[p]]
         /\ \A p \in FleetRequests : RequestOK(request'[p])
BY DEF FleetTypes

(* Every step keeps the handlers. *)
LEMMA HandlersStay ==
  ASSUME FleetTypes, [FleetNext]_fleetVars
  PROVE  /\ request' = [p \in FleetRequests |-> request'[p]]
         /\ \A p \in FleetRequests : RequestOK(request'[p])
<1>1. CASE UNCHANGED request
  BY <1>1 DEF FleetTypes
<1>2. ASSUME NEW q \in FleetRequests, request' = [request EXCEPT ![q] = NoRequest]
      PROVE  /\ request' = [p \in FleetRequests |-> request'[p]]
             /\ \A p \in FleetRequests : RequestOK(request'[p])
  BY <1>2, NoRequestOK, RequestSteps
<1>3. ASSUME NEW q \in FleetRequests, NEW kind \in Traffic[q], NEW w \in WorkerIds,
             NEW g \in Generations, NEW job, authenticateWorkerPlane(q, kind, w, g, job)
      PROVE  /\ request' = [p \in FleetRequests |-> request'[p]]
             /\ \A p \in FleetRequests : RequestOK(request'[p])
  <2>. DEFINE r == [kind |-> kind, worker |-> {w}, generation |-> g, job |-> job,
                    revoked |-> g # 0 /\ credentials[g].revoked,
                    deadline |-> IF g = 0 THEN 0 ELSE credentials[g].deadline,
                    next |-> IF g = 0 THEN "write" ELSE "record"]
  <2>1. kind \in Kinds
    BY FleetAssumption
  <2>2. RequestOK(r)
    BY <2>1 DEF RequestOK, NoRequest
  <2>3. request' = [request EXCEPT ![q] = r]
    BY <1>3 DEF authenticateWorkerPlane
  <2>. HIDE DEF r
  <2>. QED
    BY <2>2, <2>3, RequestSteps
<1>4. ASSUME NEW q \in FleetRequests, CheckRecord(q) \/ CheckRunState(q)
      PROVE  /\ request' = [p \in FleetRequests |-> request'[p]]
             /\ \A p \in FleetRequests : RequestOK(request'[p])
  <2>1. RequestOK(request[q]) /\ q \in DOMAIN request
    BY DEF FleetTypes
  <2>2. request[q].next # "none"
    BY <1>4 DEF CheckRecord, CheckRunState
  <2>3. \A next : RequestOK([request[q] EXCEPT !.next = next])
    BY <2>1, <2>2 DEF RequestOK, NoRequest
  <2>4. PICK r : RequestOK(r) /\ request' = [request EXCEPT ![q] = r]
    BY <1>4, <2>1, <2>3, NoRequestOK DEF CheckRecord, CheckRunState
  <2>. QED
    BY <2>4, RequestSteps
<1>. QED
  BY <1>1, <1>2, <1>3, <1>4 DEF FleetNext, fleetVars, CreateWorkerCredential, ListWorkers, FleetTick,
     RevokeWorkerCredential, PutWorkerGroupRunState, Refused, RegisterWorker, HeartbeatWorker,
     DeregisterWorker, ClaimForWorker, RenewLease, CompleteLease

(* Every step keeps the credentials a sequence of bounded length. *)
LEMMA CredentialsStay ==
  ASSUME FleetTypes, [FleetNext]_fleetVars
  PROVE  credentials' \in Seq(Credential) /\ Len(credentials') <= MaxGeneration
<1>1. /\ credentials \in Seq(Credential) /\ Len(credentials) <= MaxGeneration
      /\ MaxGeneration \in Nat /\ fleetClock \in Nat /\ DrainTicks \in Nat
  BY FleetAssumption DEF FleetTypes, FleetTypeOK
<1>2. CASE CreateWorkerCredential
  <2>1. [revoked |-> FALSE, deadline |-> 0] \in Credential
    BY DEF Credential
  <2>. QED
    BY <1>1, <1>2, <2>1 DEF CreateWorkerCredential
<1>3. ASSUME NEW g \in DOMAIN credentials, RevokeWorkerCredential(g)
      PROVE  credentials' \in Seq(Credential) /\ Len(credentials') <= MaxGeneration
  <2>1. [revoked |-> TRUE, deadline |-> fleetClock + DrainTicks] \in Credential
    BY <1>1 DEF Credential
  <2>. QED
    BY <1>1, <1>3, <2>1 DEF RevokeWorkerCredential
<1>4. CASE UNCHANGED credentials
  BY <1>1, <1>4
<1>. QED
  BY <1>2, <1>3, <1>4 DEF FleetNext, fleetVars, ListWorkers, FleetTick,
     PutWorkerGroupRunState, authenticateWorkerPlane, CheckRecord, CheckRunState, Refused,
     RegisterWorker, HeartbeatWorker, DeregisterWorker, ClaimForWorker, RenewLease, CompleteLease

(* Every step keeps the registry one of workers of the group. *)
LEMMA RegistryStays ==
  ASSUME FleetTypes, FleetInv, [FleetNext]_fleetVars
  PROVE  \A r \in registry' : r.id \in WorkerIds /\ r.generation \in Generations
<1>1. \A r \in registry : r.id \in WorkerIds /\ r.generation \in Generations /\ RecordShape(r)
  BY DEF FleetTypes, FleetTypeOK, FleetInv
<1>2. CASE registry' \subseteq registry
  BY <1>1, <1>2
<1>3. ASSUME NEW q \in FleetRequests, RegisterWorker(q)
      PROVE  \A r \in registry' : r.id \in WorkerIds /\ r.generation \in Generations
  <2>. DEFINE r == request[q]
              n == [id |-> CHOOSE w \in r.worker : TRUE, generation |-> r.generation,
                    beat |-> fleetClock,
                    status |-> IF r.kind = "register" THEN "active" ELSE "draining"]
  <2>1. RequestOK(r) /\ r.next # "none"
    BY <1>3 DEF FleetTypes, RegisterWorker
  <2>2. n.id \in WorkerIds /\ n.generation \in Generations
    BY <2>1 DEF RequestOK
  <2>3. registry' \subseteq registry \cup {n}
    BY <1>3 DEF RegisterWorker
  <2>. HIDE DEF n
  <2>. QED
    BY <1>1, <2>2, <2>3
<1>4. ASSUME NEW q \in FleetRequests, HeartbeatWorker(q)
      PROVE  \A r \in registry' : r.id \in WorkerIds /\ r.generation \in Generations
  <2>. SUFFICES ASSUME NEW new \in registry'
                PROVE  new.id \in WorkerIds /\ new.generation \in Generations
    OBVIOUS
  <2>1. PICK o \in registry :
          new = IF o.id \in request[q].worker THEN [o EXCEPT !.beat = fleetClock] ELSE o
    BY <1>4 DEF HeartbeatWorker
  <2>2. new.id = o.id /\ new.generation = o.generation
    BY <1>1, <2>1 DEF RecordShape
  <2>. QED
    BY <1>1, <2>2
<1>. QED
  BY <1>2, <1>3, <1>4 DEF FleetNext, fleetVars, CreateWorkerCredential, ListWorkers, FleetTick,
     RevokeWorkerCredential, PutWorkerGroupRunState, authenticateWorkerPlane, CheckRecord,
     CheckRunState, Refused, DeregisterWorker, ClaimForWorker, RenewLease, CompleteLease

(* Every step keeps the types of the fleet. *)
LEMMA FleetTypeSteps ==
  ASSUME FleetTypes, FleetInv, [FleetNext]_fleetVars
  PROVE  FleetTypes'
<1>1. /\ MaxRevision \in Nat /\ MaxFleetClock \in Nat
      /\ runState.revision \in 0..MaxRevision /\ fleetClock \in 0..MaxFleetClock
  BY FleetAssumption DEF FleetTypes, FleetTypeOK
<1>2. runState'.revision \in 0..MaxRevision
  <2>1. (\E state \in {"running", "draining"} : PutWorkerGroupRunState(state)) \/ UNCHANGED runState
    BY DEF FleetNext, fleetVars, CreateWorkerCredential, ListWorkers, FleetTick,
       RevokeWorkerCredential, authenticateWorkerPlane, CheckRecord, CheckRunState, Refused,
       RegisterWorker, HeartbeatWorker, DeregisterWorker, ClaimForWorker, RenewLease, CompleteLease
  <2>. QED
    BY <1>1, <2>1 DEF PutWorkerGroupRunState
<1>3. fleetClock' \in 0..MaxFleetClock
  <2>1. FleetTick \/ UNCHANGED fleetClock
    BY DEF FleetNext, fleetVars, CreateWorkerCredential, ListWorkers, PutWorkerGroupRunState,
       RevokeWorkerCredential, authenticateWorkerPlane, CheckRecord, CheckRunState, Refused,
       RegisterWorker, HeartbeatWorker, DeregisterWorker, ClaimForWorker, RenewLease, CompleteLease
  <2>. QED
    BY <1>1, <2>1 DEF FleetTick
<1>4. \A q \in FleetRequests : request'[q].kind \in Kinds \cup {"none"}
  BY HandlersStay DEF RequestOK
<1>. QED
  BY <1>2, <1>3, <1>4, HandlersStay, CredentialsStay, RegistryStays DEF FleetTypes, FleetTypeOK

\* Type correctness of the worker group: no more credentials and revisions than the bounds,
\* and a registry of the group's workers only, each under a generation it has.
THEOREM FleetTypesHold == FleetSpec => []FleetTypeOK
<1>1. ASSUME FleetInit PROVE FleetTypes
  <2>1. {MaxGeneration, MaxRevision, MaxFleetClock} \subseteq Nat
    BY FleetAssumption
  <2>2. credentials = <<>> /\ Len(credentials) = 0 /\ credentials \in Seq(Credential)
    BY <1>1 DEF FleetInit
  <2>3. \A q \in FleetRequests : request[q] = NoRequest
    BY <1>1 DEF FleetInit
  <2>4. request = [q \in FleetRequests |-> request[q]] /\ NoRequest.kind = "none"
    BY <1>1 DEF FleetInit, NoRequest
  <2>. QED
    BY <1>1, <2>1, <2>2, <2>3, <2>4, NoRequestOK DEF FleetInit, FleetTypes, FleetTypeOK
<1>2. FleetTypes => FleetTypeOK
  BY DEF FleetTypes
<1>. QED
  BY <1>1, <1>2, FleetTypeSteps, FleetInvHolds, PTL DEF FleetSpec
=============================================================================
