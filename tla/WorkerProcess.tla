--------------------------- MODULE WorkerProcess ---------------------------
(***************************************************************************)
(* The worker processes around one job: the poll loop, the attempt, its    *)
(* heartbeat goroutine, and the verdict that reaches the store.            *)
(*                                                                         *)
(* processOne runs the action under a context that the heartbeat goroutine *)
(* cancels; the goroutine is never joined, so a call of it may still be on *)
(* its way when the attempt has been completed.  Every call of the store   *)
(* is a remote one that may be lost on its way there or back.  Processes   *)
(* crash and restart under the same identifier.                            *)
(*                                                                         *)
(* The store's half is what HeartbeatJob, the claim and the completions do *)
(* to this job; RunQueue has the rest of it.  Registry calls of the loop   *)
(* are requests of WorkerFleet.                                            *)
(***************************************************************************)
EXTENDS Integers, FiniteSets

CONSTANTS
  Processes,          \* worker processes, by worker identifier
  MaxWorkAttempts,    \* bound on the attempts of the job
  WorkLease,          \* ticks of a lease
  MaxLostCalls        \* bound on the calls that are lost

ASSUME WorkerProcessAssumption ==
  /\ MaxWorkAttempts \in Nat
  /\ WorkLease \in Nat
  /\ MaxLostCalls \in Nat

VARIABLES
  workJob,    \* the job, as the store has it
  process,    \* the poll loop of each process
  beats,      \* the heartbeat goroutines, each with the lease it renews
  verdict,    \* the result the store keeps, with the cause of interruption
  ranOut,     \* history: <<process, attempt>> whose drain time ran out
  lostCalls   \* number of calls lost

workerVars == <<workJob, process, beats, verdict, ranOut, lostCalls>>

-----------------------------------------------------------------------------
NoOne == "none"
NoCause == "none"
NoVerdict == [outcome |-> "none", cause |-> NoCause, attempt |-> 0]

Polling == [pc |-> "poll", attempt |-> 0, why |-> NoCause, drained |-> FALSE,
            outcome |-> "none", cause |-> NoCause, stopping |-> FALSE]

WorkerInit ==
  /\ workJob = [state |-> "queued", owner |-> NoOne, attempt |-> 0, left |-> 0,
                canceled |-> FALSE]
  /\ process = [w \in Processes |-> Polling]
  /\ beats = {}
  /\ verdict = NoVerdict
  /\ ranOut = {}
  /\ lostCalls = 0

\* A call is lost before the store sees it, or its answer is.
Lost == lostCalls < MaxLostCalls /\ lostCalls' = lostCalls + 1
Delivered == UNCHANGED lostCalls

-----------------------------------------------------------------------------
(* The store's half *)

HoldsLease(w, attempt) ==
  workJob.state = "running" /\ workJob.owner = w /\ workJob.attempt = attempt

CanceledVerdict == [outcome |-> "canceled", cause |-> "run_canceled",
                    attempt |-> workJob.attempt]

\* applyCanceledJob
ApplyCanceledJob ==
  /\ workJob' = [workJob EXCEPT !.state = "settled", !.canceled = TRUE]
  /\ verdict' = CanceledVerdict

\* CancelJob asks a running attempt to stop and settles a queued job.
RequestCancel ==
  /\ ~workJob.canceled
  /\ \/ /\ workJob.state = "queued"
        /\ ApplyCanceledJob
     \/ /\ workJob.state = "running"
        /\ workJob' = [workJob EXCEPT !.canceled = TRUE]
        /\ UNCHANGED verdict
  /\ UNCHANGED <<process, beats, ranOut, lostCalls>>

\* The store gives the job out again once its lease has run out, at the
\* very instant it does.
JobOffered ==
  \/ workJob.state = "queued"
  \/ workJob.state = "running" /\ workJob.left <= 0 /\ ~workJob.canceled

\* leasedJobAndRun takes a result up to and at that instant.
LeaseAccepted(w) ==
  HoldsLease(w, process[w].attempt) /\ workJob.left >= 0

\* The three completions of the store.
AcceptVerdict(w) ==
  IF ~LeaseAccepted(w) THEN UNCHANGED <<workJob, verdict>>
  ELSE IF workJob.canceled THEN ApplyCanceledJob
  ELSE /\ workJob' = [workJob EXCEPT !.state = "settled"]
       /\ verdict' = [outcome |-> process[w].outcome, cause |-> process[w].cause,
                      attempt |-> process[w].attempt]

\* Mutant: a lease whose time is up is already lost to the heartbeat.
RenewableUnexpired(b) == HoldsLease(b.worker, b.attempt) /\ workJob.left > 0

\* HeartbeatJob renews the lease of the holder without looking at its expiry.
Renewable(b) == HoldsLease(b.worker, b.attempt)

HeartbeatAnswer(b) ==
  IF ~Renewable(b) THEN "lease_lost"
  ELSE IF workJob.canceled THEN "run_canceled" ELSE "owned"

-----------------------------------------------------------------------------
(* The poll loop *)

\* The claim of another job settles this one if it is lost and was canceled; a
\* claim that finds no other job undoes that.
SettleLostJob ==
  /\ workJob.state = "running" /\ workJob.left <= 0 /\ workJob.canceled
  /\ ApplyCanceledJob
  /\ UNCHANGED <<process, beats, ranOut, lostCalls>>

ClaimJobForWorker(w) ==
  /\ process[w].pc = "poll" /\ ~process[w].stopping
  /\ JobOffered
  /\ workJob.attempt < MaxWorkAttempts
  /\ workJob' = [workJob EXCEPT !.state = "running", !.owner = w,
                                !.attempt = @ + 1, !.left = WorkLease]
  /\ \/ /\ Delivered
        /\ process' = [process EXCEPT ![w] =
             [Polling EXCEPT !.pc = "preparing", !.attempt = workJob'.attempt]]
        /\ beats' = beats \cup {[worker |-> w, attempt |-> workJob'.attempt, answer |-> "none"]}
     \/ Lost /\ UNCHANGED <<process, beats>>
  /\ UNCHANGED <<verdict, ranOut>>

\* The process is told to stop: it claims no more, and the attempt in
\* progress may go on until the drain time is up.
Stop(w) ==
  /\ ~process[w].stopping
  /\ process' = [process EXCEPT ![w].stopping = TRUE]
  /\ UNCHANGED <<workJob, beats, verdict, ranOut, lostCalls>>

DrainTimeout(w) ==
  /\ process[w].stopping /\ process[w].pc # "poll" /\ ~process[w].drained
  /\ process' = [process EXCEPT ![w].drained = TRUE]
  /\ ranOut' = ranOut \cup {<<w, process[w].attempt>>}
  /\ UNCHANGED <<workJob, beats, verdict, lostCalls>>

\* An incompatible profile, input that cannot be decrypted or resolved, a
\* binding or the callback proxy: the attempt fails without having run.
FailPreparation(w) ==
  /\ process[w].pc = "preparing"
  /\ process' = [process EXCEPT ![w].pc = "completing", ![w].outcome = "failed"]
  /\ UNCHANGED <<workJob, beats, verdict, ranOut, lostCalls>>

StartRunner(w) ==
  /\ process[w].pc = "preparing"
  /\ process' = [process EXCEPT ![w].pc = "running"]
  /\ UNCHANGED <<workJob, beats, verdict, ranOut, lostCalls>>

\* The runner's own cause first, then the heartbeat's, then the drain's.
InterruptionCause(p, timedOut) ==
  CASE timedOut -> "action_timeout"
    [] ~timedOut /\ p.why # NoCause -> p.why
    [] OTHER -> IF p.drained THEN "worker_shutdown" ELSE NoCause

\* The runner may have finished, been killed, or noticed its timeout, in any
\* order with the cancellation of its context.
RunnerReturns(w, outcome, timedOut) ==
  /\ process[w].pc = "running"
  /\ timedOut => outcome = "failed"
  /\ process' = [process EXCEPT ![w] =
       [@ EXCEPT !.pc = "completing", !.outcome = outcome,
                 !.cause = InterruptionCause(process[w], timedOut)]]
  /\ UNCHANGED <<workJob, beats, verdict, ranOut, lostCalls>>

\* The goroutines of the attempt that wait for their ticker end; one that is
\* in a call returns from it later.
StopHeartbeat(w) ==
  beats' = {b \in beats : b.worker # w \/ b.attempt # process[w].attempt \/ b.answer # "none"}

\* completeProcessed: a refused lease counts as processed; any other error
\* is retried with another claim, never with this completion.
FinishAttempt(w) ==
  /\ process[w].pc = "completing"
  /\ \/ Delivered /\ AcceptVerdict(w)
     \/ Lost /\ (AcceptVerdict(w) \/ UNCHANGED <<workJob, verdict>>)
  /\ process' = [process EXCEPT ![w] = [Polling EXCEPT !.stopping = process[w].stopping]]
  /\ StopHeartbeat(w)
  /\ UNCHANGED ranOut

\* The process is killed, or has left its loop; it starts afresh.
Restart(w) ==
  /\ process[w] # Polling
  /\ process' = [process EXCEPT ![w] = Polling]
  /\ beats' = {b \in beats : b.worker # w}
  /\ UNCHANGED <<workJob, verdict, ranOut, lostCalls>>

-----------------------------------------------------------------------------
(* The heartbeat goroutine *)

\* The call renews the lease; its answer is used later, or is an error.
RenewJobLease(b) ==
  /\ b.answer = "none"
  /\ \/ /\ Delivered
        /\ beats' = (beats \ {b}) \cup {[b EXCEPT !.answer = HeartbeatAnswer(b)]}
     \/ Lost /\ UNCHANGED beats
  /\ workJob' = IF Renewable(b) THEN [workJob EXCEPT !.left = WorkLease] ELSE workJob
  /\ UNCHANGED <<process, verdict, ranOut>>

AttemptOf(b) ==
  process[b.worker].pc # "poll" /\ process[b.worker].attempt = b.attempt

\* heartbeatMonitor.interrupt keeps the first cause; the goroutine ends with it
\* and when its attempt has ended meanwhile.
HandleHeartbeat(b) ==
  /\ b.answer # "none"
  /\ beats' = IF b.answer = "owned" /\ AttemptOf(b)
              THEN (beats \ {b}) \cup {[b EXCEPT !.answer = "none"]}
              ELSE beats \ {b}
  /\ process' = IF b.answer # "owned" /\ AttemptOf(b) /\ process[b.worker].why = NoCause
                THEN [process EXCEPT ![b.worker].why = b.answer]
                ELSE process
  /\ UNCHANGED <<workJob, verdict, ranOut, lostCalls>>

WorkTick ==
  /\ workJob.state = "running" /\ workJob.left >= 0
  /\ workJob' = [workJob EXCEPT !.left = @ - 1]
  /\ UNCHANGED <<process, beats, verdict, ranOut, lostCalls>>

WorkerNext ==
  \/ RequestCancel \/ SettleLostJob \/ WorkTick
  \/ \E w \in Processes :
       \/ ClaimJobForWorker(w) \/ Stop(w) \/ DrainTimeout(w)
       \/ FailPreparation(w) \/ StartRunner(w) \/ FinishAttempt(w) \/ Restart(w)
       \/ \E outcome \in {"succeeded", "failed", "waiting_human"}, timedOut \in BOOLEAN :
            RunnerReturns(w, outcome, timedOut)
  \/ \E b \in beats : RenewJobLease(b) \/ HandleHeartbeat(b)

WorkerSpec == WorkerInit /\ [][WorkerNext]_workerVars

-----------------------------------------------------------------------------
Causes == {NoCause, "action_timeout", "lease_lost", "run_canceled", "worker_shutdown"}
Outcomes == {"none", "succeeded", "failed", "waiting_human", "canceled"}

\* Type correctness of the processes and of the job as the store has it.
WorkerTypeOK ==
  /\ workJob \in [state : {"queued", "running", "settled"}, owner : Processes \cup {NoOne},
                  attempt : 0..MaxWorkAttempts, left : -1..WorkLease, canceled : BOOLEAN]
  /\ process \in [Processes ->
       [pc : {"poll", "preparing", "running", "completing"}, attempt : 0..MaxWorkAttempts,
        why : Causes, drained : BOOLEAN, outcome : Outcomes, cause : Causes,
        stopping : BOOLEAN]]
  /\ beats \subseteq [worker : Processes, attempt : 1..MaxWorkAttempts,
                      answer : {"none", "owned", "lease_lost", "run_canceled"}]
  /\ verdict \in [outcome : Outcomes, cause : Causes, attempt : 0..MaxWorkAttempts]
  /\ ranOut \subseteq Processes \X (1..MaxWorkAttempts)
  /\ lostCalls \in 0..MaxLostCalls

\* What the run is said to have been interrupted by is what happened: a worker
\* that learnt it had lost the lease gets no verdict accepted, a shutdown is
\* only blamed when that worker's drain time ran out during that attempt, a job
\* ends as canceled exactly when its cancellation was asked for before a verdict
\* was accepted, and the verdict is that of the latest attempt.  This is about
\* the heartbeat goroutine, the completion and the claim of another worker in
\* any order, with calls lost on their way.
RecordedCauseIsTrue ==
  /\ workJob.state = "settled" <=> verdict # NoVerdict
  /\ verdict # NoVerdict =>
       /\ verdict.cause # "lease_lost"
       /\ verdict.cause = "worker_shutdown" => <<workJob.owner, verdict.attempt>> \in ranOut
       /\ verdict.cause = "run_canceled" <=> workJob.canceled
       /\ verdict.attempt = workJob.attempt
=============================================================================
