----------------------------- MODULE AppRuntime -----------------------------
(***************************************************************************)
(* The runtime lifecycle of one app and the values its attempts write, in  *)
(* LocalStore: an operator makes the app active, tombstoned or revoked and *)
(* purges its values, while workers claim, renew, lose and finish its jobs *)
(* and their attempts read and write variables and resources, retrying     *)
(* writes whose answer was lost.                                           *)
(*                                                                         *)
(* A variable and a resource are both an object with a revision: which     *)
(* objects an attempt may write, their types and their encryption are      *)
(* pinned data.  A worker keeps using the attempt it was given: a request  *)
(* may come from any attempt of the job, not only from the current one.    *)
(* What limits a claim beyond the lifecycle is in ClaimLimits.             *)
(***************************************************************************)
EXTENDS Integers, FiniteSets

CONSTANTS
  AppJobs,           \* jobs of the app
  Objects,           \* variables and resources of the app
  Operations,        \* operation identifiers an attempt gives its writes
  MaxWrites,         \* RuntimeConfigMaxWritesPerAttempt
  AppLease,          \* ticks of a lease
  MaxAppClock,       \* bound on the clock
  MaxAppAttempts,    \* bound on the attempts of one job
  MaxChanges,        \* bound on the revisions of the lifecycle
  MaxRevisions       \* bound on the revisions of an object

ASSUME AppRuntimeAssumption ==
  {MaxWrites, AppLease, MaxAppClock, MaxAppAttempts, MaxChanges, MaxRevisions} \subseteq Nat

VARIABLES
  appJob,       \* the jobs
  app,          \* the AppRuntimeLifecycle
  objects,      \* per object: its revision (0 is absent) and who wrote it
  operations,   \* RuntimeConfigOperations: <<job, attempt, operation>>
  appClock,
  readers       \* history: per object and job, the newest attempt that read it

appVars == <<appJob, app, objects, operations, appClock, readers>>

-----------------------------------------------------------------------------
Nobody == <<>>

\* Every operation an attempt may be asked to do.
Requests == AppJobs \X (1..MaxAppAttempts) \X Operations

AppRuntimeInit ==
  /\ appJob = [j \in AppJobs |-> [state |-> "queued", attempt |-> 0, expires |-> 0,
                                  started |-> 0, canceled |-> FALSE]]
  /\ app = [state |-> "active", revision |-> 0, updated |-> 0]
  /\ objects = [o \in Objects |-> [revision |-> 0, writer |-> Nobody]]
  /\ operations = {}
  /\ appClock = 0
  /\ readers = [o \in Objects |-> [j \in AppJobs |-> 0]]

AppLeaseValid(j) == appJob[j].state = "running" /\ appJob[j].expires > appClock

\* An expired lease is taken back by the next successful claim of any worker,
\* of this app or of another.
Recovered ==
  [j \in AppJobs |->
     IF appJob[j].state # "running" \/ AppLeaseValid(j) THEN appJob[j]
     ELSE IF appJob[j].canceled THEN [appJob[j] EXCEPT !.state = "done", !.expires = 0]
     ELSE [appJob[j] EXCEPT !.state = "queued", !.expires = 0, !.started = 0]]

ClaimAppJob(j) ==
  /\ Recovered[j].state = "queued"
  /\ app.state = "active"
  /\ appJob[j].attempt < MaxAppAttempts
  /\ appJob' = [Recovered EXCEPT ![j] = [Recovered[j] EXCEPT !.state = "running",
                                                             !.attempt = @ + 1,
                                                             !.expires = appClock + AppLease,
                                                             !.started = appClock]]
  /\ UNCHANGED <<app, objects, operations, appClock, readers>>

ClaimElsewhere ==
  /\ Recovered # appJob
  /\ appJob' = Recovered
  /\ UNCHANGED <<app, objects, operations, appClock, readers>>

\* Nothing asks whether the lease has run out, or for the lifecycle.
RenewAppJob(j) ==
  /\ appJob[j].state = "running"
  /\ appJob' = [appJob EXCEPT ![j].expires = appClock + AppLease]
  /\ UNCHANGED <<app, objects, operations, appClock, readers>>

CompleteAppJob(j) ==
  /\ appJob[j].state = "running" /\ appJob[j].expires >= appClock
  /\ appJob' = [appJob EXCEPT ![j].state = "done", ![j].expires = 0]
  /\ UNCHANGED <<app, objects, operations, appClock, readers>>

-----------------------------------------------------------------------------
(* Operators *)

\* Mutant: an attempt whose lease has run out is forgotten, though it may renew.
StopsLeased(state, j) == state = "revoked" /\ AppLeaseValid(j)

\* The attempts that a change asks to stop.
Stops(state, j) == state = "revoked" /\ appJob[j].state = "running"

\* With an expected revision the change is conditional; the set holds it.
SetLifecycle(state, expected) ==
  /\ app.revision < MaxChanges
  /\ expected \subseteq {app.revision}
  /\ app' = [state |-> state, revision |-> app.revision + 1, updated |-> appClock]
  /\ appJob' = [j \in AppJobs |->
       IF Stops(state, j) THEN [appJob[j] EXCEPT !.canceled = TRUE] ELSE appJob[j]]
  /\ UNCHANGED <<objects, operations, appClock, readers>>

PurgeAppRuntimeConfig(force) ==
  /\ app.state # "active"
  /\ force \/ \A j \in AppJobs : ~AppLeaseValid(j)
  /\ objects' = [o \in Objects |-> [revision |-> 0, writer |-> Nobody]]
  /\ UNCHANGED <<appJob, app, operations, appClock, readers>>

\* SetVariable and SetResourceScoped; DeleteVariable and DeleteResourceScoped.
SetObject(o) ==
  /\ objects[o].revision < MaxRevisions
  /\ objects' = [objects EXCEPT ![o] = [revision |-> @.revision + 1, writer |-> Nobody]]
  /\ UNCHANGED <<appJob, app, operations, appClock, readers>>

DeleteObject(o) ==
  /\ objects' = [objects EXCEPT ![o] = [revision |-> 0, writer |-> Nobody]]
  /\ UNCHANGED <<appJob, app, operations, appClock, readers>>

-----------------------------------------------------------------------------
(* The reads and writes of an attempt *)

\* ResolveRuntimeInput after the claim, and the requests of the running action.
\* That the attempt is the current one, leased and allowed is looked up in loads
\* of their own before the value is: when the value is read the attempt may
\* have been lost and followed by another, and all that is left is that it was
\* granted.
ResolveJobObject(j, attempt, o) ==
  /\ attempt \in 1..appJob[j].attempt
  /\ attempt > readers[o][j]
  /\ readers' = [readers EXCEPT ![o][j] = attempt]
  /\ UNCHANGED <<appJob, app, objects, operations, appClock>>

AllowsRunningAttempt(j) ==
  \/ app.state = "active"
  \/ app.state = "tombstoned" /\ appJob[j].started <= app.updated

\* Mutant: the token of any attempt of the job will do.
authorizeAnyAttempt(j, attempt) ==
  attempt <= appJob[j].attempt /\ AppLeaseValid(j) /\ AllowsRunningAttempt(j)

authorizeRuntimeMutation(j, attempt) ==
  /\ appJob[j].attempt = attempt
  /\ AppLeaseValid(j)
  /\ AllowsRunningAttempt(j)

runtimeConfigAttemptWriteCount(j, attempt) ==
  Cardinality({r \in operations : r[1] = j /\ r[2] = attempt})

\* A request that was recorded is answered from the record and writes nothing.
MutateRuntimeObject(j, attempt, operation, o, expected) ==
  /\ authorizeRuntimeMutation(j, attempt)
  /\ <<j, attempt, operation>> \notin operations
  /\ runtimeConfigAttemptWriteCount(j, attempt) < MaxWrites
  /\ expected \subseteq {objects[o].revision}
  /\ objects[o].revision < MaxRevisions
  /\ objects' = [objects EXCEPT ![o] = [revision |-> @.revision + 1,
                                        writer   |-> <<j, attempt>>]]
  /\ operations' = operations \cup {<<j, attempt, operation>>}
  /\ UNCHANGED <<appJob, app, appClock, readers>>

AppTick ==
  /\ appClock < MaxAppClock
  /\ appClock' = appClock + 1
  /\ UNCHANGED <<appJob, app, objects, operations, readers>>

AppRuntimeNext ==
  \/ \E j \in AppJobs : ClaimAppJob(j) \/ RenewAppJob(j) \/ CompleteAppJob(j)
  \/ ClaimElsewhere
  \/ \E state \in {"active", "tombstoned", "revoked"} :
       \E expected \in SUBSET {0, 1} : SetLifecycle(state, expected)
  \/ \E force \in BOOLEAN : PurgeAppRuntimeConfig(force)
  \/ \E o \in Objects : SetObject(o) \/ DeleteObject(o)
  \/ \E r \in Requests, o \in Objects, expected \in SUBSET {0, 1} :
       MutateRuntimeObject(r[1], r[2], r[3], o, expected)
  \/ \E j \in AppJobs, attempt \in 1..MaxAppAttempts, o \in Objects :
       ResolveJobObject(j, attempt, o)
  \/ AppTick

AppRuntimeSpec == AppRuntimeInit /\ [][AppRuntimeNext]_appVars

-----------------------------------------------------------------------------
(* Properties *)

\* Type correctness of the app, its jobs and its objects.
AppRuntimeTypeOK ==
  /\ appJob \in [AppJobs -> [state : {"queued", "running", "done"},
                             attempt : 0..MaxAppAttempts,
                             expires : 0..(MaxAppClock + AppLease),
                             started : 0..MaxAppClock, canceled : BOOLEAN]]
  /\ app \in [state : {"active", "tombstoned", "revoked"},
              revision : 0..MaxChanges, updated : 0..MaxAppClock]
  /\ \A o \in Objects : objects[o].revision \in 0..MaxRevisions
  /\ operations \subseteq Requests
  /\ readers \in [Objects -> [AppJobs -> 0..MaxAppAttempts]]
  /\ appClock \in 0..MaxAppClock

\* Whatever led to the revocation, no attempt of a revoked app runs on without
\* having been asked to stop; and every attempt that a tombstoned app still has
\* started before the tombstone, so it is allowed to finish its writes.
RetiredAppLetsGo ==
  \A j \in AppJobs : appJob[j].state = "running" =>
    /\ app.state = "revoked" => appJob[j].canceled
    /\ app.state = "tombstoned" => AllowsRunningAttempt(j)

\* Once a later attempt of a job has read an object or written one, an earlier
\* attempt of that job, still alive in a worker that lost its lease, never
\* writes the object again: neither after the read nor over the write.
AttemptsWriteInOrder ==
  [][\A o \in Objects : \A j \in AppJobs, n \in 1..MaxAppAttempts :
       objects'[o] # objects[o] /\ objects'[o].writer = <<j, n>> =>
         /\ readers[o][j] <= n
         /\ \A r \in operations : r[1] = j => r[2] <= n]_appVars
=============================================================================
