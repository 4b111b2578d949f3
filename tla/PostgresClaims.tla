--------------------------- MODULE PostgresClaims ---------------------------
(***************************************************************************)
(* The limits of a claim on PostgreSQL.  ClaimLimits decides under one     *)
(* lock; here a claim is a transaction of many statements that runs beside *)
(* others.  What keeps two claims from passing the same limit are advisory *)
(* locks, one per limit, taken for one candidate after the other and held  *)
(* to the end of the transaction; what tells it the time is the timestamp  *)
(* of the transaction's begin.                                             *)
(*                                                                         *)
(* A statement sees what is committed plus what its transaction wrote.  The*)
(* statements a claim runs between its last lock and its update are one    *)
(* step: until the claim ends only completions and requeues can change     *)
(* what they read, and those only make room.  A transaction may be rolled  *)
(* back at every statement, by a lost connection or as the victim of a     *)
(* deadlock.  Cancellation, which ends a job instead of requeueing it, and *)
(* the run behind a job are PostgresQueue's.                               *)
(*                                                                         *)
(* The trigger on jobs adds a lock of its own: from its requeue on a claim *)
(* holds the row of queue_snapshot_state, so that claims, heartbeats and   *)
(* completions queue up behind it.  The row counts revisions for the       *)
(* demand snapshot and is not meant to guard the limits: SnapshotFence     *)
(* says whether it is there, so that what the advisory locks do can be     *)
(* seen without it.                                                        *)
(***************************************************************************)
EXTENDS Integers, FiniteSets, FiniteSetsExt, SequencesExt

CONSTANTS
  PgJobs,       \* numbers: the order in which claims prefer them
  PgLimits,     \* per job: [app, ceiling, rateKey, attempts, locks]
  PgSessions,   \* connections that run a claim
  BatchSize,    \* postgresClaimCandidateBatchSize
  Allowances,   \* what operators may set for an app; 0 is no policy
  PgWindow,     \* ticks of a rate window
  PgLease,      \* ticks of a lease
  SnapshotFence,\* whether writers of jobs wait for queue_snapshot_state
  MaxPgClock,   \* bound on the clock
  MaxPgStarts   \* bound on the attempts of one job

PgApps == {PgLimits[j].app : j \in PgJobs}

PgRateKeys == UNION {PgLimits[j].rateKey : j \in PgJobs}

\* The lock of the app and that of its policy are taken for every candidate.
AppLocks(j) == {<<"app", PgLimits[j].app>>, <<"policy", PgLimits[j].app>>}

ASSUME PgClaimsAssumption ==
  /\ PgJobs \subseteq Nat /\ IsFiniteSet(PgJobs)
  /\ \A j \in PgJobs :
       /\ PgLimits[j].ceiling \in Nat
       /\ PgLimits[j].locks \in Seq({"app", "policy", "rate"} \X (PgApps \cup PgRateKeys))
       /\ AppLocks(j) \subseteq ToSet(PgLimits[j].locks)
  /\ Allowances \subseteq Nat
  /\ {BatchSize, PgWindow} \subseteq Nat \ {0}
  /\ {PgLease, MaxPgClock, MaxPgStarts} \subseteq Nat
  /\ SnapshotFence \in BOOLEAN

VARIABLES
  pgJobs,       \* committed rows of jobs
  pgBuckets,    \* committed rows of execution_rate_bucket
  pgAllowance,  \* committed rows of execution_limit_policy: the app's allowance
  pgRetired,    \* apps whose app_runtime_lifecycle row is not active
  pgTx,         \* the transaction of each session
  pgClock,
  pgCeilings,   \* history: the ceilings a running job was claimed under
  pgSpent       \* history: attempts by rate key and window of the claim's begin

pgVars == <<pgJobs, pgBuckets, pgAllowance, pgRetired, pgTx, pgClock, pgCeilings, pgSpent>>

-----------------------------------------------------------------------------
PgWindows == 0..(MaxPgClock \div PgWindow)

\* A transaction: its next statement, when it began, the jobs it requeued, the
\* candidates it still has to look at, the advisory locks it waits for and
\* those it holds, and the job it selected.
NoTx == [next |-> "idle", began |-> 0, requeued |-> {}, candidates |-> <<>>,
         rows |-> {}, wants |-> <<>>, locks |-> {}, selected |-> 0]

PgClaimsInit ==
  /\ pgJobs = [j \in PgJobs |-> [state |-> "queued", starts |-> 0, expires |-> 0]]
  /\ pgBuckets = [k \in PgRateKeys |-> [window |-> -1, consumed |-> 0]]
  /\ pgAllowance = [a \in PgApps |-> 0]
  /\ pgRetired = {}
  /\ pgTx = [s \in PgSessions |-> NoTx]
  /\ pgClock = 0
  /\ pgCeilings = [j \in PgJobs |-> {}]
  /\ pgSpent = [k \in PgRateKeys |-> [w \in PgWindows |-> 0]]

RowFree(s, j) == \A t \in PgSessions \ {s} : j \notin pgTx[t].rows

LockFree(s, l) == \A t \in PgSessions \ {s} : l \notin pgTx[t].locks

\* The running jobs as session s sees them.
RunningFor(s) == {j \in PgJobs : pgJobs[j].state = "running"} \ pgTx[s].requeued

QueuedFor(s) == {j \in PgJobs : pgJobs[j].state = "queued"} \cup pgTx[s].requeued

RunningJobsForApp(s, j) ==
  Cardinality({i \in RunningFor(s) : PgLimits[i].app = PgLimits[j].app})

PgRateWindow(t) == t \div PgWindow

-----------------------------------------------------------------------------
(* A claim *)

\* BEGIN: the time the claim goes by, however long it waits from here.
BeginClaim(s) ==
  /\ pgTx[s].next = "idle"
  /\ pgTx' = [pgTx EXCEPT ![s] = [NoTx EXCEPT !.next = "requeue", !.began = pgClock]]
  /\ UNCHANGED <<pgJobs, pgBuckets, pgAllowance, pgRetired, pgClock, pgCeilings, pgSpent>>

\* No claim but one of these sessions holds the row of queue_snapshot_state.
SnapshotFree(sessions) ==
  SnapshotFence => \A t \in PgSessions \ sessions : pgTx[t].next \in {"idle", "requeue"}

\* The UPDATE that requeues the jobs whose lease has run out, which waits for
\* their rows and fires the trigger.  A lease that runs out now has not run out
\* yet.
RequeueExpired(s) ==
  LET expired == {j \in PgJobs : /\ pgJobs[j].state = "running"
                                 /\ pgJobs[j].expires < pgTx[s].began}
  IN  /\ pgTx[s].next = "requeue"
      /\ \A j \in expired : RowFree(s, j)
      /\ SnapshotFree({s})
      /\ pgTx' = [pgTx EXCEPT ![s] = [pgTx[s] EXCEPT !.next = "select",
                                                      !.requeued = expired, !.rows = expired]]
      /\ UNCHANGED <<pgJobs, pgBuckets, pgAllowance, pgRetired, pgClock, pgCeilings, pgSpent>>

\* The SELECT of the candidates: by the pinned ceilings only, and by the buckets
\* of the window the transaction began in.  Rows that are locked are skipped.
PgCandidate(s, j) ==
  /\ j \in QueuedFor(s) /\ RowFree(s, j)
  /\ PgLimits[j].ceiling = 0 \/ RunningJobsForApp(s, j) < PgLimits[j].ceiling
  /\ \A k \in PgLimits[j].rateKey :
       ~ /\ pgBuckets[k].window = PgRateWindow(pgTx[s].began)
         /\ pgBuckets[k].consumed >= PgLimits[j].attempts

postgresClaimCandidates(s) ==
  LET open  == {j \in PgJobs : PgCandidate(s, j)}
      batch == {j \in open : Cardinality({i \in open : i < j}) < BatchSize}
  IN  /\ pgTx[s].next = "select"
      /\ batch # {}     \* else ErrNoQueuedJob, which is Rollback
      /\ pgTx' = [pgTx EXCEPT ![s].next = "candidate",
                              ![s].candidates = SetToSortSeq(batch, <),
                              ![s].rows = @ \cup batch]
      /\ UNCHANGED <<pgJobs, pgBuckets, pgAllowance, pgRetired, pgClock, pgCeilings, pgSpent>>

\* Mutant: only the rate limits are locked.
RateLocksOnly(j) == SelectSeq(PgLimits[j].locks, LAMBDA l : l[1] = "rate")

\* The keys of the limits and of the policies of a candidate, sorted.
LimitLocks(j) == PgLimits[j].locks

\* The next candidate: passed over if its app is not active, else its limits
\* are locked.
LookAtCandidate(s) ==
  /\ pgTx[s].next = "candidate"
  /\ pgTx[s].candidates # <<>>
  /\ LET j == Head(pgTx[s].candidates)
     IN  pgTx' = [pgTx EXCEPT ![s] =
           IF PgLimits[j].app \in pgRetired
           THEN [pgTx[s] EXCEPT !.candidates = Tail(@)]
           ELSE [pgTx[s] EXCEPT !.next = "lock", !.wants = LimitLocks(j)]]
  /\ UNCHANGED <<pgJobs, pgBuckets, pgAllowance, pgRetired, pgClock, pgCeilings, pgSpent>>

\* pg_advisory_xact_lock, in the order of the sorted keys of this candidate.
TakeLimitLock(s) ==
  /\ pgTx[s].next = "lock"
  /\ pgTx[s].wants # <<>>
  /\ LockFree(s, Head(pgTx[s].wants))
  /\ pgTx' = [pgTx EXCEPT ![s].locks = @ \cup {Head(pgTx[s].wants)},
                          ![s].wants = Tail(@)]
  /\ UNCHANGED <<pgJobs, pgBuckets, pgAllowance, pgRetired, pgClock, pgCeilings, pgSpent>>

\* effectiveAppConcurrencyLimit with the policy as read under the locks.
PgAppCeiling(j) ==
  LET ceilings == {PgLimits[j].ceiling, pgAllowance[PgLimits[j].app]} \ {0}
  IN  IF ceilings = {} THEN {} ELSE {Min(ceilings)}

PgRateReached(s, j) ==
  \E k \in PgLimits[j].rateKey :
    /\ pgBuckets[k].window = PgRateWindow(pgTx[s].began)
    /\ pgBuckets[k].consumed >= PgLimits[j].attempts

postgresClaimLimitsReached(s, j) ==
  \/ \E limit \in PgAppCeiling(j) : RunningJobsForApp(s, j) >= limit
  \/ PgRateReached(s, j)

CheckLimits(s) ==
  /\ pgTx[s].next = "lock" /\ pgTx[s].wants = <<>>
  /\ LET j == Head(pgTx[s].candidates)
     IN  pgTx' = [pgTx EXCEPT ![s] =
           IF postgresClaimLimitsReached(s, j)
           THEN [pgTx[s] EXCEPT !.next = "candidate", !.candidates = Tail(@)]
           ELSE [pgTx[s] EXCEPT !.next = "commit", !.selected = j]]
  /\ UNCHANGED <<pgJobs, pgBuckets, pgAllowance, pgRetired, pgClock, pgCeilings, pgSpent>>

\* The upsert: a bucket of another window, earlier or later, is overwritten.
postgresConsumeRateLimits(s, j) ==
  [k \in PgRateKeys |->
     LET window == PgRateWindow(pgTx[s].began)
     IN  IF k \notin PgLimits[j].rateKey THEN pgBuckets[k]
         ELSE [window   |-> window,
               consumed |-> IF pgBuckets[k].window = window
                            THEN pgBuckets[k].consumed + 1 ELSE 1]]

\* The updates of the job and of the buckets become visible with the commit.
CommitClaim(s) ==
  LET j == pgTx[s].selected
  IN  /\ pgTx[s].next = "commit"
      /\ pgJobs[j].starts < MaxPgStarts
      /\ pgJobs' = [i \in PgJobs |->
           IF i = j THEN [state |-> "running", starts |-> pgJobs[j].starts + 1,
                          expires |-> pgTx[s].began + PgLease]
           ELSE IF i \in pgTx[s].requeued
                THEN [pgJobs[i] EXCEPT !.state = "queued", !.expires = 0]
           ELSE pgJobs[i]]
      /\ pgBuckets' = postgresConsumeRateLimits(s, j)
      /\ pgTx' = [pgTx EXCEPT ![s] = NoTx]
      /\ pgCeilings' = [pgCeilings EXCEPT ![j] = PgAppCeiling(j)]
      /\ pgSpent' = [k \in PgRateKeys |->
           IF k \notin PgLimits[j].rateKey THEN pgSpent[k]
           ELSE [pgSpent[k] EXCEPT ![PgRateWindow(pgTx[s].began)] = @ + 1]]
      /\ UNCHANGED <<pgAllowance, pgRetired, pgClock>>

\* No candidate is left, the connection is lost, or the database chose the
\* transaction to end a deadlock.
RollbackClaim(s) ==
  /\ pgTx[s].next # "idle"
  /\ pgTx' = [pgTx EXCEPT ![s] = NoTx]
  /\ UNCHANGED <<pgJobs, pgBuckets, pgAllowance, pgRetired, pgClock, pgCeilings, pgSpent>>

-----------------------------------------------------------------------------
(* Workers, operators and time: transactions of one statement that matters *)

PgHeartbeat(j) ==
  /\ pgJobs[j].state = "running"
  /\ SnapshotFree({}) /\ \A s \in PgSessions : j \notin pgTx[s].rows
  /\ pgJobs' = [pgJobs EXCEPT ![j].expires = pgClock + PgLease]
  /\ UNCHANGED <<pgBuckets, pgAllowance, pgRetired, pgTx, pgClock, pgCeilings, pgSpent>>

PgComplete(j) ==
  /\ pgJobs[j].state = "running" /\ pgJobs[j].expires >= pgClock
  /\ SnapshotFree({}) /\ \A s \in PgSessions : j \notin pgTx[s].rows
  /\ pgJobs' = [pgJobs EXCEPT ![j].state = "done", ![j].expires = 0]
  /\ UNCHANGED <<pgBuckets, pgAllowance, pgRetired, pgTx, pgClock, pgCeilings, pgSpent>>

\* The mutation takes the lock of the policy, which every claim of the app takes.
PgMutatePolicy(a, allowance) ==
  /\ \A s \in PgSessions : <<"policy", a>> \notin pgTx[s].locks
  /\ pgAllowance' = [pgAllowance EXCEPT ![a] = allowance]
  /\ UNCHANGED <<pgJobs, pgBuckets, pgRetired, pgTx, pgClock, pgCeilings, pgSpent>>

PgSetLifecycle(a) ==
  /\ pgRetired' = IF a \in pgRetired THEN pgRetired \ {a} ELSE pgRetired \cup {a}
  /\ UNCHANGED <<pgJobs, pgBuckets, pgAllowance, pgTx, pgClock, pgCeilings, pgSpent>>

PgTick ==
  /\ pgClock < MaxPgClock
  /\ pgClock' = pgClock + 1
  /\ UNCHANGED <<pgJobs, pgBuckets, pgAllowance, pgRetired, pgTx, pgCeilings, pgSpent>>

PgClaimsNext ==
  \/ \E s \in PgSessions :
       \/ BeginClaim(s) \/ RequeueExpired(s)
       \/ postgresClaimCandidates(s) \/ LookAtCandidate(s)
       \/ TakeLimitLock(s) \/ CheckLimits(s) \/ CommitClaim(s) \/ RollbackClaim(s)
  \/ \E j \in PgJobs : PgHeartbeat(j) \/ PgComplete(j)
  \/ \E a \in PgApps : PgSetLifecycle(a)
  \/ \E a \in PgApps : \E allowance \in Allowances : PgMutatePolicy(a, allowance)
  \/ PgTick

PgClaimsSpec == PgClaimsInit /\ [][PgClaimsNext]_pgVars

-----------------------------------------------------------------------------
(* Properties *)

\* Type correctness of the rows and the transactions.
PgClaimsTypeOK ==
  /\ pgJobs \in [PgJobs -> [state : {"queued", "running", "done"}, starts : 0..MaxPgStarts,
                            expires : 0..(MaxPgClock + PgLease)]]
  /\ \A k \in PgRateKeys : pgBuckets[k].window \in {-1} \cup PgWindows
  /\ \A s \in PgSessions : /\ pgTx[s].rows \subseteq PgJobs
                           /\ pgTx[s].next \in {"idle", "requeue", "select", "candidate",
                                               "lock", "commit"}
  /\ pgClock \in 0..MaxPgClock

\* Claims that run beside each other, each blind to what the others have not
\* committed, still never run more jobs of an app than a ceiling one of them
\* was claimed under, even while operators change the allowance.
PgCeilingsHold ==
  \A j \in PgJobs : pgJobs[j].state = "running" /\ pgCeilings[j] # {} =>
    LET held == {i \in PgJobs : pgJobs[i].state = "running" /\ PgLimits[i].app = PgLimits[j].app}
    IN  \E i \in held : \A limit \in pgCeilings[i] : Cardinality(held) <= limit

\* The attempts that consume a rate key in one window, counting each by the
\* time its own transaction goes by, stay within the declared number.
PgRateWindowHolds ==
  \A j \in PgJobs : \A k \in PgLimits[j].rateKey : \A w \in PgWindows :
    pgSpent[k][w] <= PgLimits[j].attempts
=============================================================================
