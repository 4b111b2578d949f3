---------------------------- MODULE WorkerFleet ----------------------------
(***************************************************************************)
(* One worker group: its credentials, its run state, the registry of its   *)
(* workers, and the handlers of the worker plane, in front of LocalStore.  *)
(*                                                                         *)
(* Each call of the store is one step, but a handler makes several: it     *)
(* reads the credential when the request is authenticated, then the record *)
(* of the worker, for a claim also the run state of the group, and writes  *)
(* last.  Operators, other requests and time may come between.  A request  *)
(* with the static token (generation 0) is not checked at all.             *)
(*                                                                         *)
(* Labels, tags, slots and pressure are left out: a registered worker is   *)
(* taken to ask for what it registered.  Which job a claim gets is         *)
(* ClaimLimits' matter, completion outcomes are RunQueue's.                *)
(***************************************************************************)
EXTENDS Integers, Sequences, FiniteSets

CONSTANTS
  WorkerIds,        \* identifiers of workers
  FleetJobs,
  FleetRequests,    \* requests the worker plane serves at once
  Traffic,          \* the kinds of request each of them may be, see Kinds
  StaticToken,      \* whether workers may also use the static token
  MaxGeneration,    \* bound on the credentials of the group
  MaxRevision,      \* bound on the revisions of the run state
  LiveTicks,        \* WorkerLiveTTL
  ExpiryTicks,      \* WorkerRegistryExpiry
  DrainTicks,       \* how long a revoked credential may finish its leases
  FleetLease,       \* ticks of a lease
  MaxFleetClock     \* bound on the clock

Kinds == {"register", "registerDraining", "beat", "deregister",
          "claim", "renew", "complete"}

ASSUME FleetAssumption ==
  Traffic \in [FleetRequests -> SUBSET Kinds] /\
  StaticToken \in BOOLEAN /\
  {MaxGeneration, MaxRevision, LiveTicks, ExpiryTicks, DrainTicks, FleetLease, MaxFleetClock}
    \subseteq Nat

VARIABLES
  credentials,  \* WorkerCredentials of the group, by generation
  runState,     \* WorkerGroupRunState
  registry,     \* Workers: the set of records
  leased,       \* the jobs
  request,      \* the handler of each request in progress
  fleetClock

fleetVars == <<credentials, runState, registry, leased, request, fleetClock>>

-----------------------------------------------------------------------------
Generations == 0..MaxGeneration

NoRequest == [kind |-> "none", worker |-> {}, generation |-> 0, revoked |-> FALSE,
              deadline |-> 0, job |-> {}, next |-> "none"]

FleetInit ==
  /\ credentials = <<>>
  /\ runState = [state |-> "running", revision |-> 0]
  /\ registry = {}
  /\ leased = [j \in FleetJobs |-> [state |-> "queued", owner |-> {}, expires |-> 0,
                                    attributed |-> FALSE]]
  /\ request = [q \in FleetRequests |-> NoRequest]
  /\ fleetClock = 0

RecordOf(w) == {r \in registry : r.id = w}

LiveWorker(r) == fleetClock - r.beat <= LiveTicks

-----------------------------------------------------------------------------
(* Operators *)

\* A generation follows the one the request expected to be the latest.  The
\* retry of a request is answered from the credential it made.
CreateWorkerCredential ==
  /\ Len(credentials) < MaxGeneration
  /\ credentials' = Append(credentials, [revoked |-> FALSE, deadline |-> 0])
  /\ UNCHANGED <<runState, registry, leased, request, fleetClock>>

RevokeWorkerCredential(g) ==
  /\ ~credentials[g].revoked
  /\ credentials' = [credentials EXCEPT ![g] = [revoked |-> TRUE,
                                                deadline |-> fleetClock + DrainTicks]]
  /\ UNCHANGED <<runState, registry, leased, request, fleetClock>>

PutWorkerGroupRunState(state) ==
  /\ runState.revision < MaxRevision
  /\ runState' = [state |-> state, revision |-> runState.revision + 1]
  /\ UNCHANGED <<credentials, registry, leased, request, fleetClock>>

\* ListWorkers drops the records that have been silent for too long.
ListWorkers ==
  /\ \E r \in registry : fleetClock - r.beat > ExpiryTicks
  /\ registry' = {r \in registry : fleetClock - r.beat <= ExpiryTicks}
  /\ UNCHANGED <<credentials, runState, leased, request, fleetClock>>

-----------------------------------------------------------------------------
(* The handlers *)

\* authenticateWorkerPlane: the handler keeps the credential as it is now.
authenticateWorkerPlane(q, kind, w, g, job) ==
  /\ request[q].next = "none"
  /\ IF g = 0 THEN StaticToken ELSE g \in DOMAIN credentials
  /\ kind \in {"renew", "complete"} <=> job # {}
  /\ \A j \in job : leased[j].state = "running" /\ leased[j].owner = {w}
  /\ request' = [request EXCEPT ![q] =
       [kind |-> kind, worker |-> {w}, generation |-> g, job |-> job,
        revoked |-> g # 0 /\ credentials[g].revoked,
        deadline |-> IF g = 0 THEN 0 ELSE credentials[g].deadline,
        next |-> IF g = 0 THEN "write" ELSE "record"]]
  /\ UNCHANGED <<credentials, runState, registry, leased, fleetClock>>

\* Without the expiry of a credential, which only refuses more.
AllowsNewWork(r) == ~r.revoked

AllowsLeaseContinuation(r) == AllowsNewWork(r) \/ fleetClock <= r.deadline

\* The record of the worker belongs to the credential.
managedWorkerRecord(r) ==
  \E record \in registry : record.id \in r.worker /\ record.generation = r.generation

\* What the handler asks of the credential it kept and of the record it reads.
Permitted(r) ==
  CASE r.kind = "claim" -> AllowsNewWork(r) /\ managedWorkerRecord(r)
    [] r.kind = "register" ->
         AllowsNewWork(r) /\ \A o \in registry : o.id \in r.worker => o.generation = r.generation
    [] r.kind = "registerDraining" ->
         /\ \A o \in registry : o.id \in r.worker => o.generation = r.generation
         /\ AllowsNewWork(r) \/ (AllowsLeaseContinuation(r) /\ managedWorkerRecord(r))
    [] OTHER -> AllowsLeaseContinuation(r) /\ managedWorkerRecord(r)

CheckRecord(q) ==
  /\ request[q].next = "record"
  /\ request' = [request EXCEPT ![q] =
       IF ~Permitted(@) THEN NoRequest
       ELSE [@ EXCEPT !.next = IF request[q].kind = "claim" THEN "runState" ELSE "write"]]
  /\ UNCHANGED <<credentials, runState, registry, leased, fleetClock>>

CheckRunState(q) ==
  /\ request[q].next = "runState"
  /\ request' = [request EXCEPT ![q] = IF runState.state = "draining" THEN NoRequest
                                       ELSE [@ EXCEPT !.next = "write"]]
  /\ UNCHANGED <<credentials, runState, registry, leased, fleetClock>>

\* Mutant: the store trusts the check of the handler.
RecordTakenUnchecked(w, g) == FALSE

\* The record belongs to another credential.
RecordTaken(w, g) == \E o \in RecordOf(w) : o.generation # g

\* RegisterWorker looks again: the record may belong to another by now.
RegisterWorker(q) ==
  LET r == request[q]
      new == [id |-> CHOOSE w \in r.worker : TRUE, generation |-> r.generation, beat |-> fleetClock,
              status |-> IF r.kind = "register" THEN "active" ELSE "draining"]
  IN  /\ r.next = "write" /\ r.kind \in {"register", "registerDraining"}
      /\ registry' = IF RecordTaken(new.id, r.generation) THEN registry
                     ELSE (registry \ RecordOf(new.id)) \cup {new}
      /\ request' = [request EXCEPT ![q] = NoRequest]
      /\ UNCHANGED <<credentials, runState, leased, fleetClock>>

HeartbeatWorker(q) ==
  LET r == request[q]
  IN  /\ r.next = "write" /\ r.kind = "beat"
      /\ registry' = {IF o.id \in r.worker THEN [o EXCEPT !.beat = fleetClock] ELSE o :
                        o \in registry}
      /\ request' = [request EXCEPT ![q] = NoRequest]
      /\ UNCHANGED <<credentials, runState, leased, fleetClock>>

DeregisterWorker(q) ==
  LET r == request[q]
  IN  /\ r.next = "write" /\ r.kind = "deregister"
      /\ registry' = {o \in registry : o.id \notin r.worker}
      /\ request' = [request EXCEPT ![q] = NoRequest]
      /\ UNCHANGED <<credentials, runState, leased, fleetClock>>

\* A lease that has run out is taken back by the claim that follows.
Reclaimed ==
  [j \in FleetJobs |->
     IF leased[j].state = "running" /\ leased[j].expires <= fleetClock
     THEN [state |-> "queued", owner |-> {}, expires |-> 0, attributed |-> FALSE]
     ELSE leased[j]]

\* A registered worker must be active and live, and its lease is attributed to
\* the group; a worker without a record is served unattributed.
ClaimForWorker(q, j) ==
  LET r == request[q]
      record == {o \in registry : o.id \in r.worker}
  IN  /\ r.next = "write" /\ r.kind = "claim"
      /\ \A o \in record : o.status = "active" /\ LiveWorker(o)
      /\ Reclaimed[j].state = "queued"
      /\ leased' = [Reclaimed EXCEPT ![j] =
           [state |-> "running", owner |-> r.worker, expires |-> fleetClock + FleetLease,
            attributed |-> record # {}]]
      /\ request' = [request EXCEPT ![q] = NoRequest]
      /\ UNCHANGED <<credentials, runState, registry, fleetClock>>

\* Any write that finds nothing to do or is refused by the store.
Refused(q) ==
  /\ request[q].next = "write"
  /\ \/ /\ request[q].kind = "claim"
        /\ \/ \A j \in FleetJobs : Reclaimed[j].state # "queued"
           \/ \E o \in registry : /\ o.id \in request[q].worker
                                  /\ o.status # "active" \/ ~LiveWorker(o)
     \/ \E j \in request[q].job : leased[j].owner # request[q].worker
  /\ request' = [request EXCEPT ![q] = NoRequest]
  /\ UNCHANGED <<credentials, runState, registry, leased, fleetClock>>

RenewLease(q) ==
  LET r == request[q]
  IN  /\ r.next = "write" /\ r.kind = "renew"
      /\ \E j \in r.job :
           /\ leased[j].owner = r.worker
           /\ leased' = [leased EXCEPT ![j].expires = fleetClock + FleetLease]
      /\ request' = [request EXCEPT ![q] = NoRequest]
      /\ UNCHANGED <<credentials, runState, registry, fleetClock>>

CompleteLease(q) ==
  LET r == request[q]
  IN  /\ r.next = "write" /\ r.kind = "complete"
      /\ \E j \in r.job :
           /\ leased[j].owner = r.worker
           /\ leased' = IF leased[j].expires < fleetClock THEN leased
                        ELSE [leased EXCEPT ![j] = [@ EXCEPT !.state = "done", !.owner = {}]]
      /\ request' = [request EXCEPT ![q] = NoRequest]
      /\ UNCHANGED <<credentials, runState, registry, fleetClock>>

FleetTick ==
  /\ fleetClock < MaxFleetClock
  /\ fleetClock' = fleetClock + 1
  /\ UNCHANGED <<credentials, runState, registry, leased, request>>

FleetNext ==
  \/ CreateWorkerCredential \/ ListWorkers \/ FleetTick
  \/ \E g \in DOMAIN credentials : RevokeWorkerCredential(g)
  \/ \E state \in {"running", "draining"} : PutWorkerGroupRunState(state)
  \/ \E q \in FleetRequests :
       \/ \E kind \in Traffic[q], w \in WorkerIds, g \in Generations,
             job \in {{}} \cup {{j} : j \in FleetJobs} :
            authenticateWorkerPlane(q, kind, w, g, job)
       \/ CheckRecord(q) \/ CheckRunState(q) \/ Refused(q)
       \/ RegisterWorker(q) \/ HeartbeatWorker(q) \/ DeregisterWorker(q)
       \/ \E j \in FleetJobs : ClaimForWorker(q, j)
       \/ RenewLease(q) \/ CompleteLease(q)

FleetSpec == FleetInit /\ [][FleetNext]_fleetVars

-----------------------------------------------------------------------------
(* Properties *)

\* Type correctness of the group, its registry and the requests.
FleetTypeOK ==
  /\ Len(credentials) <= MaxGeneration
  /\ runState.revision \in 0..MaxRevision
  /\ \A r \in registry : r.id \in WorkerIds /\ r.generation \in Generations
  /\ \A q \in FleetRequests : request[q].kind \in Kinds \cup {"none"}
  /\ fleetClock \in 0..MaxFleetClock

\* A worker identifier that is registered under one credential never passes to
\* another while the record lives, whatever requests cross between the check of
\* a handler and the write of the store: a handler's check of the record is not
\* repeated when it writes, and the store's own test on registration decides.
RecordKeepsItsCredential ==
  [][\A old \in registry, new \in registry' :
       old.id = new.id => old.generation = new.generation]_fleetVars
=============================================================================
