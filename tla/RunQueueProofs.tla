--------------------------- MODULE RunQueueProofs ---------------------------
(***************************************************************************)
(* Proofs, for every value of the constants, of the safety properties of   *)
(* RunQueue, and that the state of a run agrees with its jobs, its human   *)
(* tasks and its admission outcome.                                        *)
(***************************************************************************)
EXTENDS RunQueue, TLAPS

-----------------------------------------------------------------------------
(* The clock *)

\* AgeCap is a number above every age the retention rules look for.
LEMMA AgeCapType ==
  /\ AgeCap \in Nat
  /\ StuckAfter < AgeCap /\ SuccessRetention < AgeCap /\ FailureRetention < AgeCap
<1> DEFINE cuts == {StuckAfter, SuccessRetention, FailureRetention}
<1>1. \E n \in cuts : \A m \in cuts : m <= n
  BY TimeAssumption
<1>2. PICK n \in cuts : n = (CHOOSE k \in cuts : \A m \in cuts : m <= k)
                        /\ \A m \in cuts : m <= n
  BY <1>1
<1>3. AgeCap = 1 + n
  BY <1>2 DEF AgeCap
<1> QED
  BY <1>2, <1>3, TimeAssumption

\* A deadline that comes nearer stays in its range.
LEMMA SoonerType ==
  ASSUME NEW n \in Nat, NEW left \in NoExpiry..n
  PROVE  Sooner(left) \in NoExpiry..n
BY DEF Sooner, NoExpiry

\* An age that grows stays in its range.
LEMMA OlderType ==
  ASSUME NEW age \in 0..AgeCap
  PROVE  Older(age) \in 0..AgeCap
BY AgeCapType DEF Older

-----------------------------------------------------------------------------
(* What the operations write *)

\* x is a record with the fields of a job, and these values in them.
JobWith(x, run, state, attempt, owner, left, canceled, age) ==
  /\ DOMAIN x = {"run", "state", "attempt", "owner", "left", "canceled", "age"}
  /\ x = [i \in DOMAIN x |-> x[i]]
  /\ x.run = run
  /\ x.state = state
  /\ x.attempt = attempt
  /\ x.owner = owner
  /\ x.left = left
  /\ x.canceled = canceled
  /\ x.age = age

RunWith(x, state, task, age) ==
  /\ DOMAIN x = {"state", "task", "age"}
  /\ x = [i \in DOMAIN x |-> x[i]]
  /\ x.state = state
  /\ x.task = task
  /\ x.age = age

TaskWith(x, run, job, attempt, key, state, left) ==
  /\ DOMAIN x = {"run", "job", "attempt", "key", "state", "left"}
  /\ x = [i \in DOMAIN x |-> x[i]]
  /\ x.run = run
  /\ x.job = job
  /\ x.attempt = attempt
  /\ x.key = key
  /\ x.state = state
  /\ x.left = left

\* A record with the fields of a job, each of its type, is a job.
LEMMA JobIntro ==
  ASSUME NEW x,
         DOMAIN x = {"run", "state", "attempt", "owner", "left", "canceled", "age"},
         x = [i \in DOMAIN x |-> x[i]],
         x.run \in RunIds \cup {NoRun},
         x.state \in JobStates \cup {"absent", "deleted"},
         x.attempt \in 0..MaxAttempts,
         x.owner \in WorkerIds \cup {NoWorker},
         x.left \in NoExpiry..LeaseTTL,
         x.canceled \in BOOLEAN,
         x.age \in 0..AgeCap
  PROVE  x \in Job
BY DEF Job

\* A record with the fields of a run, each of its type, is a run.
LEMMA RunIntro ==
  ASSUME NEW x,
         DOMAIN x = {"state", "task", "age"},
         x = [i \in DOMAIN x |-> x[i]],
         x.state \in RunStates \cup {"absent"},
         x.task \in TaskIds \cup {NoTask},
         x.age \in 0..AgeCap
  PROVE  x \in Run
BY DEF Run

\* A record with the fields of a task, each of its type, is a task.
LEMMA TaskIntro ==
  ASSUME NEW x,
         DOMAIN x = {"run", "job", "attempt", "key", "state", "left"},
         x = [i \in DOMAIN x |-> x[i]],
         x.run \in RunIds \cup {NoRun},
         x.job \in JobIds \cup {NoJob},
         x.attempt \in 0..MaxAttempts,
         x.key \in HoldKeys \cup {NoKey},
         x.state \in TaskStates \cup {"absent", "deleted"},
         x.left \in NoExpiry..HoldTTL
  PROVE  x \in Task
BY DEF Task

\* applyCanceledJob
LEMMA CanceledJobFields ==
  ASSUME NEW job \in Job
  PROVE  JobWith(CanceledJob(job), job.run, "failed", job.attempt, job.owner,
                 NoExpiry, TRUE, 0)
BY DEF JobWith, CanceledJob, Job

\* A lost job that goes back to the queue.
LEMMA RequeuedJobFields ==
  ASSUME NEW job \in Job
  PROVE  JobWith(RequeuedJob(job), job.run, "queued", job.attempt, NoWorker,
                 NoExpiry, job.canceled, 0)
BY DEF JobWith, RequeuedJob, Job

\* A claim.
LEMMA ClaimedJobFields ==
  ASSUME NEW job \in Job, NEW w
  PROVE  JobWith(ClaimedJob(job, w), job.run, "running", job.attempt + 1, w,
                 LeaseTTL, job.canceled, 0)
BY DEF JobWith, ClaimedJob, Job

\* A heartbeat.
LEMMA RenewedJobFields ==
  ASSUME NEW job \in Job
  PROVE  JobWith(RenewedJob(job), job.run, job.state, job.attempt, job.owner,
                 LeaseTTL, job.canceled, 0)
BY DEF JobWith, RenewedJob, Job

\* A completion.
LEMMA SettledJobFields ==
  ASSUME NEW job \in Job, NEW state
  PROVE  JobWith(SettledJob(job, state), job.run, state, job.attempt, job.owner,
                 NoExpiry, job.canceled, 0)
BY DEF JobWith, SettledJob, Job

\* A running job that is asked to stop.
LEMMA SoftCanceledJobFields ==
  ASSUME NEW job \in Job
  PROVE  JobWith(SoftCanceledJob(job), job.run, job.state, job.attempt, job.owner,
                 job.left, TRUE, 0)
BY DEF JobWith, SoftCanceledJob, Job

\* A job of a canceled run.
LEMMA StoppedJobFields ==
  ASSUME NEW job \in Job
  PROVE  JobWith(StoppedJob(job), job.run, "failed", job.attempt, NoWorker,
                 NoExpiry, job.canceled, 0)
BY DEF JobWith, StoppedJob, Job

\* A job of a stuck run.
LEMMA ExpiredJobFields ==
  ASSUME NEW job \in Job
  PROVE  JobWith(ExpiredJob(job), job.run, "failed", job.attempt, job.owner,
                 job.left, job.canceled, 0)
BY DEF JobWith, ExpiredJob, Job

\* A queued job that moves to another tag.
LEMMA RetaggedJobFields ==
  ASSUME NEW job \in Job
  PROVE  JobWith(RetaggedJob(job), job.run, job.state, job.attempt, job.owner,
                 job.left, job.canceled, 0)
BY DEF JobWith, RetaggedJob, Job

\* A job as the clock ticks.
LEMMA AgedJobFields ==
  ASSUME NEW job \in Job
  PROVE  JobWith(AgedJob(job), job.run, job.state, job.attempt, job.owner,
                 Sooner(job.left), job.canceled, Older(job.age))
BY DEF JobWith, AgedJob, Job

\* A new job.
LEMMA NewActionJobFields ==
  ASSUME NEW r
  PROVE  JobWith(NewActionJob(r), r, "queued", 0, NoWorker, NoExpiry, FALSE, 0)
BY DEF JobWith, NewActionJob, AbsentJob

\* A pruned job.
LEMMA DeletedJobFields ==
  JobWith(DeletedJob, NoRun, "deleted", 0, NoWorker, NoExpiry, FALSE, 0)
BY DEF JobWith, DeletedJob, AbsentJob

\* A run that moves to another state.
LEMMA RunInFields ==
  ASSUME NEW run \in Run, NEW state
  PROVE  RunWith(RunIn(run, state), state, run.task, 0)
BY DEF RunWith, RunIn, Run

\* A suspend task.
LEMMA SuspendTaskFields ==
  ASSUME NEW r
  PROVE  TaskWith(SuspendTask(r), r, NoJob, 0, NoKey, "pending", NoExpiry)
BY DEF TaskWith, SuspendTask, AbsentTask

\* A pruned task.
LEMMA DeletedTaskFields ==
  TaskWith(DeletedTask, NoRun, NoJob, 0, NoKey, "deleted", NoExpiry)
BY DEF TaskWith, DeletedTask, AbsentTask

\* A task that ends.
LEMMA EndedTaskFields ==
  ASSUME NEW task \in Task, NEW state
  PROVE  TaskWith(EndedTask(task, state), task.run, task.job, task.attempt,
                  task.key, state, task.left)
BY DEF TaskWith, EndedTask, Task

-----------------------------------------------------------------------------
(* Types *)

\* Every update of a job gives a job.
LEMMA JobTypes ==
  ASSUME NEW job \in Job
  PROVE  /\ CanceledJob(job) \in Job
         /\ RequeuedJob(job) \in Job
         /\ \A w \in WorkerIds : job.attempt < MaxAttempts => ClaimedJob(job, w) \in Job
         /\ RenewedJob(job) \in Job
         /\ \A state \in JobStates : SettledJob(job, state) \in Job
         /\ SoftCanceledJob(job) \in Job
         /\ StoppedJob(job) \in Job
         /\ ExpiredJob(job) \in Job
         /\ RetaggedJob(job) \in Job
         /\ AgedJob(job) \in Job
<1>1. /\ job.run \in RunIds \cup {NoRun}
      /\ job.state \in JobStates \cup {"absent", "deleted"}
      /\ job.attempt \in 0..MaxAttempts
      /\ job.owner \in WorkerIds \cup {NoWorker}
      /\ job.left \in NoExpiry..LeaseTTL
      /\ job.canceled \in BOOLEAN
      /\ job.age \in 0..AgeCap
  BY DEF Job
<1>2. /\ "queued" \in JobStates
      /\ "running" \in JobStates
      /\ "failed" \in JobStates
      /\ NoExpiry \in NoExpiry..LeaseTTL
      /\ LeaseTTL \in NoExpiry..LeaseTTL
      /\ TRUE \in BOOLEAN
      /\ 0 \in 0..AgeCap
  BY AgeCapType, TimeAssumption DEF JobStates, NoExpiry
<1>3. /\ Sooner(job.left) \in NoExpiry..LeaseTTL
      /\ Older(job.age) \in 0..AgeCap
  BY <1>1, SoonerType, OlderType, TimeAssumption
<1>4. ASSUME NEW w \in WorkerIds, job.attempt < MaxAttempts
      PROVE  ClaimedJob(job, w) \in Job
  <2>1. job.attempt + 1 \in 0..MaxAttempts
    BY <1>1, <1>4, TimeAssumption
  <2> QED
    BY <1>1, <1>2, <2>1, ClaimedJobFields, JobIntro DEF JobWith
<1>5. CanceledJob(job) \in Job
  BY <1>1, <1>2, CanceledJobFields, JobIntro DEF JobWith
<1>6. RequeuedJob(job) \in Job
  BY <1>1, <1>2, RequeuedJobFields, JobIntro DEF JobWith
<1>7. RenewedJob(job) \in Job
  BY <1>1, <1>2, RenewedJobFields, JobIntro DEF JobWith
<1>8. ASSUME NEW state \in JobStates
      PROVE  SettledJob(job, state) \in Job
  BY <1>1, <1>2, SettledJobFields, JobIntro DEF JobWith
<1>9. SoftCanceledJob(job) \in Job
  BY <1>1, <1>2, SoftCanceledJobFields, JobIntro DEF JobWith
<1>10. StoppedJob(job) \in Job
  BY <1>1, <1>2, StoppedJobFields, JobIntro DEF JobWith
<1>11. ExpiredJob(job) \in Job
  BY <1>1, <1>2, ExpiredJobFields, JobIntro DEF JobWith
<1>12. RetaggedJob(job) \in Job
  BY <1>1, <1>2, RetaggedJobFields, JobIntro DEF JobWith
<1>13. AgedJob(job) \in Job
  BY <1>1, <1>3, AgedJobFields, JobIntro DEF JobWith
<1> QED
  BY <1>4, <1>5, <1>6, <1>7, <1>8, <1>9, <1>10, <1>11, <1>12, <1>13

\* New and pruned records have their types.
LEMMA RecordTypes ==
  /\ AbsentJob \in Job /\ DeletedJob \in Job
  /\ \A r \in RunIds : NewActionJob(r) \in Job
  /\ AbsentTask \in Task /\ DeletedTask \in Task
  /\ \A r \in RunIds \cup {NoRun} : SuspendTask(r) \in Task
  /\ AbsentRun \in Run
<1>1. /\ 0 \in 0..AgeCap
      /\ 0 \in 0..MaxAttempts
      /\ NoExpiry \in NoExpiry..LeaseTTL
      /\ NoExpiry \in NoExpiry..HoldTTL
      /\ FALSE \in BOOLEAN
  BY AgeCapType, TimeAssumption DEF NoExpiry
<1>2. DeletedJob \in Job
  BY <1>1, DeletedJobFields, JobIntro DEF JobWith
<1>3. ASSUME NEW r \in RunIds PROVE NewActionJob(r) \in Job
  BY <1>1, NewActionJobFields, JobIntro DEF JobWith, JobStates
<1>4. DeletedTask \in Task
  BY <1>1, DeletedTaskFields, TaskIntro DEF TaskWith
<1>5. ASSUME NEW r \in RunIds \cup {NoRun} PROVE SuspendTask(r) \in Task
  BY <1>1, SuspendTaskFields, TaskIntro DEF TaskWith, TaskStates
<1>6. AbsentJob \in Job
  BY <1>1 DEF AbsentJob, Job
<1>7. AbsentTask \in Task
  BY <1>1 DEF AbsentTask, Task
<1>8. AbsentRun \in Run
  BY <1>1 DEF AbsentRun, Run
<1> QED
  BY <1>2, <1>3, <1>4, <1>5, <1>6, <1>7, <1>8

\* A run that moves to another state is a run, a task that ends a task.
LEMMA UpdateTypes ==
  /\ \A run \in Run, state \in RunStates : RunIn(run, state) \in Run
  /\ \A run \in Run : CanceledRun(run) \in Run
  /\ \A task \in Task, state \in TaskStates : EndedTask(task, state) \in Task
<1>1. ASSUME NEW run \in Run, NEW state \in RunStates
      PROVE  RunIn(run, state) \in Run
  <2>1. run.task \in TaskIds \cup {NoTask} /\ 0 \in 0..AgeCap
    BY AgeCapType DEF Run
  <2> QED
    BY <2>1, RunInFields, RunIntro DEF RunWith
<1>2. "CANCELED" \in RunStates
  BY DEF RunStates, TerminalStates
<1>3. ASSUME NEW task \in Task, NEW state \in TaskStates
      PROVE  EndedTask(task, state) \in Task
  <2>1. /\ task.run \in RunIds \cup {NoRun}
        /\ task.job \in JobIds \cup {NoJob}
        /\ task.attempt \in 0..MaxAttempts
        /\ task.key \in HoldKeys \cup {NoKey}
        /\ task.left \in NoExpiry..HoldTTL
    BY DEF Task
  <2> QED
    BY <2>1, EndedTaskFields, TaskIntro DEF TaskWith
<1> QED
  BY <1>1, <1>2, <1>3 DEF CanceledRun

-----------------------------------------------------------------------------
(* The steps of one job *)

\* Everything that can happen to job j in one step of the system.
JobStep(j) ==
  \/ jobs'[j] = jobs[j]
  \/ jobs[j].state = "absent" /\ \E r \in RunIds : jobs'[j] = NewActionJob(r)
  \/ JobActive(j) /\ jobs'[j] \in {CanceledJob(jobs[j]), StoppedJob(jobs[j]),
                                   ExpiredJob(jobs[j])}
  \/ LeaseExpired(j) /\ ~jobs[j].canceled /\ jobs'[j] = RequeuedJob(jobs[j])
  \/ /\ jobs[j].attempt < MaxAttempts
     /\ \E w \in WorkerIds :
          \/ jobs[j].state = "queued" /\ jobs'[j] = ClaimedJob(jobs[j], w)
          \/ /\ LeaseExpired(j) /\ ~jobs[j].canceled
             /\ jobs'[j] = ClaimedJob(RequeuedJob(jobs[j]), w)
  \/ /\ jobs[j].state = "running"
     /\ jobs'[j] \in {RenewedJob(jobs[j]), SoftCanceledJob(jobs[j])}
  \/ /\ jobs[j].state = "running" /\ ~jobs[j].canceled
     /\ \E state \in {"succeeded", "failed"} : jobs'[j] = SettledJob(jobs[j], state)
  \/ jobs[j].state = "queued" /\ jobs'[j] = RetaggedJob(jobs[j])
  \/ jobs[j].run \in RunIds /\ jobs'[j] = DeletedJob
  \/ JobExists(j) /\ jobs'[j] = AgedJob(jobs[j])

JobsFunction == jobs' = [j \in JobIds |-> jobs'[j]]

\* A claim takes a queued or recovered job and may recover others.
LEMMA ClaimJobStep ==
  ASSUME TypeOK, NEW w \in WorkerIds, NEW k \in JobIds, ClaimJob(w, k)
  PROVE  JobsFunction /\ \A j \in JobIds : JobStep(j)
<1> DEFINE recovered == RequeueExpiredJobs
<1>1. /\ recovered[k].state = "queued"
      /\ jobs[k].attempt < MaxAttempts
      /\ jobs' = [recovered EXCEPT ![k] = ClaimedJob(@, w)]
  BY DEF ClaimJob
<1>2. recovered = [j \in JobIds |-> recovered[j]]
  BY DEF RequeueExpiredJobs
<1>3. \A j \in JobIds :
        recovered[j] = IF ~LeaseExpired(j) THEN jobs[j]
                       ELSE IF jobs[j].canceled THEN CanceledJob(jobs[j])
                       ELSE RequeuedJob(jobs[j])
  BY DEF RequeueExpiredJobs
<1> HIDE DEF recovered
<1>4. JobsFunction
  BY <1>1, <1>2 DEF JobsFunction
<1>5. jobs[k] \in Job
  BY DEF TypeOK
<1>6. CanceledJob(jobs[k]).state = "failed"
  BY <1>5, CanceledJobFields DEF JobWith
<1>7. JobStep(k)
  <2>1. jobs'[k] = ClaimedJob(recovered[k], w)
    BY <1>1, <1>2
  <2>2. CASE ~LeaseExpired(k)
    BY <1>1, <1>3, <2>1, <2>2 DEF JobStep
  <2>3. CASE LeaseExpired(k)
    <3>1. ~jobs[k].canceled /\ recovered[k] = RequeuedJob(jobs[k])
      BY <1>1, <1>3, <1>6, <2>3
    <3> QED
      BY <1>1, <2>1, <2>3, <3>1 DEF JobStep
  <2> QED
    BY <2>2, <2>3
<1>8. ASSUME NEW j \in JobIds, j # k PROVE JobStep(j)
  <2>1. jobs'[j] = recovered[j]
    BY <1>1, <1>2, <1>8
  <2> QED
    BY <1>3, <2>1 DEF JobStep, JobActive, LeaseExpired
<1> QED
  BY <1>4, <1>7, <1>8

\* Every step of the system changes each job in one of these ways.
LEMMA JobSteps ==
  ASSUME TypeOK, Next
  PROVE  JobsFunction /\ \A j \in JobIds : JobStep(j)
<1> DEFINE Goal == JobsFunction /\ \A j \in JobIds : JobStep(j)
<1>t. /\ jobs \in [JobIds -> Job]
      /\ \A l \in leases : l.job \in JobIds
  BY DEF TypeOK, Lease
<1> USE <1>t
<1>1. ASSUME NEW w \in WorkerIds, NEW j \in JobIds, ClaimJob(w, j)
      PROVE  Goal
  BY <1>1, ClaimJobStep
<1>2. ASSUME NEW l \in leases, HeartbeatJob(l)
      PROVE  Goal
  BY <1>2 DEF HeartbeatJob, OwnsJob, JobStep, JobsFunction
<1>3. ASSUME NEW l \in leases, LeasedJobAndRun(l), CompleteCanceled(l)
      PROVE  Goal
  BY <1>3 DEF LeasedJobAndRun, OwnsJob, CompleteCanceled, JobActive, JobStep, JobsFunction
<1>4. ASSUME NEW l \in leases, LeasedJobAndRun(l), NEW runState, NEW task,
             NEW jobState \in {"succeeded", "failed"},
             SettleJob(l, jobState, runState, task)
      PROVE  Goal
  BY <1>4 DEF LeasedJobAndRun, OwnsJob, SettleJob, JobStep, JobsFunction
<1>5. ASSUME NEW l \in leases, CompleteJobSucceeded(l)
      PROVE  Goal
  BY <1>3, <1>4, <1>5 DEF CompleteJobSucceeded
<1>6. ASSUME NEW l \in leases, CompleteJobFailed(l)
      PROVE  Goal
  BY <1>3, <1>4, <1>6 DEF CompleteJobFailed
<1>7. ASSUME NEW l \in leases, NEW t \in SuspendIds, CompleteJobWaitingHuman(l, t)
      PROVE  Goal
  BY <1>3, <1>4, <1>7 DEF CompleteJobWaitingHuman
<1>8. ASSUME UNCHANGED jobs
      PROVE  Goal
  BY <1>8 DEF JobStep, JobsFunction
<1>9. ASSUME NEW l \in leases, NEW k \in HoldKeys, NEW t \in HoldIds,
             CreateHeldHumanTask(l, k, t)
      PROVE  Goal
  BY <1>8, <1>9 DEF CreateHeldHumanTask
<1>10. ASSUME NEW r \in RunIds, CancelRun(r)
       PROVE  Goal
  BY <1>10 DEF CancelRun, JobStep, JobsFunction
<1>11. ASSUME NEW r \in RunIds, NEW j \in JobIds, jobs[j].state = "absent",
              jobs' = [jobs EXCEPT ![j] = NewActionJob(r)]
       PROVE  Goal
  BY <1>11 DEF JobStep, JobsFunction
<1>12. ASSUME NEW r \in RunIds, NEW j \in JobIds, CreateRunAndEnqueue(r, j)
       PROVE  Goal
  BY <1>11, <1>12 DEF CreateRunAndEnqueue
<1>13. ASSUME NEW r \in RunIds, NEW j \in JobIds, RetryRun(r, j)
       PROVE  Goal
  BY <1>11, <1>13 DEF RetryRun
<1>14. ASSUME NEW r \in TrackedIds, ResolveAdmissionOutcome(r)
       PROVE  Goal
  BY <1>8, <1>14 DEF ResolveAdmissionOutcome
<1>15. ASSUME NEW j \in JobIds, CancelJob(j)
       PROVE  Goal
  BY <1>15 DEF CancelJob, JobActive, JobStep, JobsFunction
<1>16. ASSUME NEW t \in TaskIds, NEW j \in JobIds, ResumeHumanTask(t, j)
       PROVE  Goal
  BY <1>11, <1>16 DEF ResumeHumanTask
<1>17. ASSUME NEW js \in SUBSET JobIds, RequeueQueuedJobsForApp(js)
       PROVE  Goal
  BY <1>17 DEF RequeueQueuedJobsForApp, JobStep, JobsFunction
<1>18. ASSUME TaskNext
       PROVE  Goal
  BY <1>8, <1>18 DEF TaskNext, DecideHeldHumanTask, ExpireHeldHumanTask,
       WaitForHumanTask, CancelHeldHumanTasksForJob, ExpireDueHeldHumanTasks
<1>19. ASSUME PruneSettledJobs
       PROVE  Goal
  BY <1>19 DEF PruneSettledJobs, JobStep, JobsFunction
<1>20. ASSUME ExpireStuckJobs
       PROVE  Goal
  BY <1>20 DEF ExpireStuckJobs, JobStep, JobsFunction
<1>21. ASSUME Tick
       PROVE  Goal
  BY <1>21 DEF Tick, JobStep, JobsFunction
<1> HIDE DEF Goal
<1> QED
  <2>1. CASE WorkerNext
    BY <2>1, <1>1, <1>2, <1>5, <1>6, <1>7, <1>9 DEF WorkerNext, Goal
  <2>2. CASE CallerNext
    BY <2>2, <1>10, <1>12, <1>13, <1>14, <1>15, <1>16, <1>17 DEF CallerNext, Goal
  <2> QED
    BY <2>1, <2>2, <1>18, <1>19, <1>20, <1>21 DEF Next, MaintenanceNext, Goal

\* The job a claim takes was queued or lost, and is running in its next attempt.
LEMMA ClaimedJobState ==
  ASSUME TypeOK, NEW w \in WorkerIds, NEW k \in JobIds, ClaimJob(w, k)
  PROVE  /\ jobs[k].state \in JobStates
         /\ jobs'[k].run = jobs[k].run
         /\ jobs'[k].state = "running"
         /\ jobs'[k].attempt = jobs[k].attempt + 1
<1> DEFINE recovered == RequeueExpiredJobs
<1>1. recovered[k].state = "queued" /\ jobs' = [recovered EXCEPT ![k] = ClaimedJob(@, w)]
  BY DEF ClaimJob
<1>2. /\ recovered = [j \in JobIds |-> recovered[j]]
      /\ recovered[k] = IF ~LeaseExpired(k) THEN jobs[k]
                        ELSE IF jobs[k].canceled THEN CanceledJob(jobs[k])
                        ELSE RequeuedJob(jobs[k])
  BY DEF RequeueExpiredJobs
<1> HIDE DEF recovered
<1>3. jobs[k] \in Job /\ RequeuedJob(jobs[k]) \in Job
  BY JobTypes DEF TypeOK
<1>4. jobs'[k] = ClaimedJob(recovered[k], w)
  BY <1>1, <1>2
<1>5. CanceledJob(jobs[k]).state = "failed"
  BY <1>3, CanceledJobFields DEF JobWith
<1>6. /\ recovered[k] \in Job
      /\ recovered[k].run = jobs[k].run
      /\ recovered[k].attempt = jobs[k].attempt
      /\ jobs[k].state \in JobStates
  BY <1>1, <1>2, <1>3, <1>5, RequeuedJobFields DEF JobWith, LeaseExpired, JobStates
<1> QED
  BY <1>4, <1>6, ClaimedJobFields DEF JobWith

-----------------------------------------------------------------------------
(* Type correctness *)

\* The jobs keep their type, whatever the step.
LEMMA JobsType ==
  ASSUME TypeOK, Next
  PROVE  jobs' \in [JobIds -> Job]
<1>1. ASSUME NEW j \in JobIds PROVE jobs'[j] \in Job
  <2>1. jobs[j] \in Job
    BY DEF TypeOK
  <2>2. RequeuedJob(jobs[j]) \in Job /\ RequeuedJob(jobs[j]).attempt = jobs[j].attempt
    BY <2>1, JobTypes, RequeuedJobFields DEF JobWith
  <2>3. JobStep(j)
    BY JobSteps
  <2> QED
    BY <2>1, <2>2, <2>3, JobTypes, RecordTypes DEF JobStep, JobStates
<1> QED
  BY <1>1, JobSteps DEF JobsFunction

\* The tasks keep their type, in each of the ways several of them change at once.
LEMMA TasksType ==
  ASSUME TypeOK
  PROVE  /\ \A js : CancelHeld(js) \in [TaskIds -> Task]
         /\ \A r : EndTasksOfRun(r) \in [TaskIds -> Task]
         /\ \A gone : PrunedTasks(gone) \in [TaskIds -> Task]
BY UpdateTypes, RecordTypes DEF TypeOK, CancelHeld, EndTasksOfRun, PrunedTasks, TaskStates

\* Init establishes the types.
LEMMA TypeInit == Init => TypeOK
BY RecordTypes DEF Init, TypeOK

\* Every step of the system preserves the types.
LEMMA TypeNext == TypeOK /\ Next => TypeOK'
<1> SUFFICES ASSUME TypeOK, Next PROVE TypeOK'
  OBVIOUS
<1> DEFINE RT == runs' \in [RunIds -> Run]
           TT == tasks' \in [TaskIds -> Task]
           OT == outcomes' \in [TrackedIds -> {"none", "admitted", "aborted"}]
           LT == leases' \subseteq Lease
           GT == giveUps' \subseteq HoldIds
           Goal == RT /\ TT /\ OT /\ LT /\ GT
<1>t. /\ runs \in [RunIds -> Run]
      /\ jobs \in [JobIds -> Job]
      /\ tasks \in [TaskIds -> Task]
      /\ outcomes \in [TrackedIds -> {"none", "admitted", "aborted"}]
      /\ leases \subseteq Lease
      /\ giveUps \subseteq HoldIds
      /\ \A l \in leases : l.job \in JobIds
      /\ HoldIds \subseteq TaskIds /\ SuspendIds \subseteq TaskIds
  BY DEF TypeOK, Lease, TaskIds
<1>s. /\ ActiveStates \subseteq RunStates /\ TerminalStates \subseteq RunStates
      /\ "WAITING_HUMAN" \in RunStates
      /\ 0 \in 0..AgeCap
  BY AgeCapType DEF RunStates
<1>n. \A state \in RunStates, task \in TaskIds \cup {NoTask} :
        [state |-> state, task |-> task, age |-> 0] \in Run
  BY <1>s DEF Run
<1> USE <1>t
<1>1. ASSUME NEW w \in WorkerIds, NEW j \in JobIds, ClaimJob(w, j)
      PROVE  Goal
  <2>1. RT
    BY <1>1, UpdateTypes DEF ClaimJob, RunStates, ActiveStates
  <2>2. jobs[j].attempt + 1 \in 1..MaxAttempts
    <3>1. jobs[j].attempt \in 0..MaxAttempts /\ jobs[j].attempt < MaxAttempts
      BY <1>1 DEF ClaimJob, Job
    <3> QED
      BY <3>1, TimeAssumption
  <2>3. LT
    BY <1>1, <2>2 DEF ClaimJob, Lease
  <2> QED
    BY <1>1, <2>1, <2>3 DEF ClaimJob
<1>2. ASSUME NEW l \in leases, HeartbeatJob(l)
      PROVE  Goal
  BY <1>2 DEF HeartbeatJob
<1>3. ASSUME NEW l \in leases, CompleteCanceled(l)
      PROVE  RT
  BY <1>3, UpdateTypes DEF CompleteCanceled
<1>4. ASSUME NEW l \in leases, NEW runState \in RunStates,
             NEW task \in TaskIds \cup {NoTask}, NEW jobState,
             SettleJob(l, jobState, runState, task)
      PROVE  RT
  BY <1>4, <1>n DEF SettleJob
<1>5. ASSUME NEW l \in leases, CompleteJobSucceeded(l)
      PROVE  Goal
  BY <1>3, <1>4, <1>5, TasksType DEF CompleteJobSucceeded, RunStates, TerminalStates
<1>6. ASSUME NEW l \in leases, CompleteJobFailed(l)
      PROVE  Goal
  <2>1. CASE CompleteCanceled(l)
    BY <1>3, <1>6, <2>1, TasksType DEF CompleteJobFailed
  <2>2. CASE SettleJob(l, "failed", "FAILED", runs[jobs[l.job].run].task)
    <3>1. CASE jobs[l.job].run \in RunIds
      <4>1. runs[jobs[l.job].run].task \in TaskIds \cup {NoTask}
        BY <3>1 DEF Run
      <4> QED
        BY <1>4, <1>6, <2>2, <4>1, TasksType DEF CompleteJobFailed, RunStates, TerminalStates
    <3>2. CASE jobs[l.job].run \notin RunIds
      BY <1>6, <2>2, <3>2, TasksType DEF CompleteJobFailed, SettleJob
    <3> QED
      BY <3>1, <3>2
  <2> QED
    BY <1>6, <2>1, <2>2 DEF CompleteJobFailed
<1>7. ASSUME NEW l \in leases, NEW t \in SuspendIds, CompleteJobWaitingHuman(l, t)
      PROVE  Goal
  <2>1. CASE CompleteCanceled(l) /\ UNCHANGED tasks
    BY <1>3, <1>7, <2>1 DEF CompleteJobWaitingHuman
  <2>2. CASE /\ SettleJob(l, "succeeded", "WAITING_HUMAN", t)
             /\ tasks' = [tasks EXCEPT ![t] = SuspendTask(jobs[l.job].run)]
    <3>1. jobs[l.job].run \in RunIds \cup {NoRun}
      BY DEF Job
    <3>2. SuspendTask(jobs[l.job].run) \in Task
      BY <3>1, RecordTypes
    <3> QED
      BY <1>4, <1>s, <1>7, <2>2, <3>2 DEF CompleteJobWaitingHuman
  <2> QED
    BY <1>7, <2>1, <2>2 DEF CompleteJobWaitingHuman
<1>8. ASSUME NEW l \in leases, NEW k \in HoldKeys, NEW t \in HoldIds,
             CreateHeldHumanTask(l, k, t)
      PROVE  Goal
  <2>1. /\ jobs[l.job].run \in RunIds \cup {NoRun}
        /\ l.attempt \in 0..MaxAttempts
        /\ HoldTTL \in NoExpiry..HoldTTL
    BY TimeAssumption DEF Job, Lease, NoExpiry
  <2>2. [run |-> jobs[l.job].run, job |-> l.job, attempt |-> l.attempt,
         key |-> k, state |-> "pending", left |-> HoldTTL] \in Task
    BY <2>1 DEF Task, TaskStates
  <2> QED
    BY <1>8, <2>2 DEF CreateHeldHumanTask
<1>9. ASSUME NEW r \in RunIds, CancelRun(r)
      PROVE  Goal
  BY <1>9, UpdateTypes, TasksType DEF CancelRun
<1>10. ASSUME NEW r \in RunIds, NEW j \in JobIds, CreateRunAndEnqueue(r, j)
       PROVE  Goal
  BY <1>10, <1>n, <1>s DEF CreateRunAndEnqueue, BindAdmissionOutcome, ActiveStates
<1>11. ASSUME NEW r \in RunIds, NEW j \in JobIds, RetryRun(r, j)
       PROVE  Goal
  BY <1>11, <1>n, <1>s DEF RetryRun, ActiveStates
<1>12. ASSUME NEW r \in TrackedIds, ResolveAdmissionOutcome(r)
       PROVE  Goal
  BY <1>12 DEF ResolveAdmissionOutcome
<1>13. ASSUME NEW j \in JobIds, CancelJob(j)
       PROVE  Goal
  BY <1>13, UpdateTypes DEF CancelJob
<1>14. ASSUME NEW t \in TaskIds, NEW j \in JobIds, ResumeHumanTask(t, j)
       PROVE  Goal
  BY <1>14, <1>n, <1>s, UpdateTypes DEF ResumeHumanTask, ActiveStates, TaskStates
<1>15. ASSUME NEW js \in SUBSET JobIds, RequeueQueuedJobsForApp(js)
       PROVE  Goal
  BY <1>15 DEF RequeueQueuedJobsForApp
<1>16. ASSUME NEW t \in HoldIds, DecideHeldHumanTask(t)
       PROVE  Goal
  BY <1>16, UpdateTypes DEF DecideHeldHumanTask, TaskStates
<1>17. ASSUME NEW t \in HoldIds, ExpireHeldHumanTask(t)
       PROVE  Goal
  BY <1>17, UpdateTypes DEF ExpireHeldHumanTask, TaskStates
<1>18. ASSUME NEW t \in HoldIds, WaitForHumanTask(t)
       PROVE  Goal
  BY <1>18 DEF WaitForHumanTask
<1>19. ASSUME NEW t \in HoldIds, CancelHeldHumanTasksForJob(t)
       PROVE  Goal
  BY <1>19, TasksType DEF CancelHeldHumanTasksForJob
<1>20. ASSUME ExpireDueHeldHumanTasks
       PROVE  Goal
  BY <1>20, UpdateTypes DEF ExpireDueHeldHumanTasks, TaskStates
<1>21. ASSUME PruneSettledJobs
       PROVE  Goal
  BY <1>21, RecordTypes, TasksType DEF PruneSettledJobs
<1>22. ASSUME ExpireStuckJobs
       PROVE  Goal
  BY <1>22, <1>s, UpdateTypes, TasksType DEF ExpireStuckJobs, TerminalStates
<1>23. ASSUME Tick
       PROVE  Goal
  <2>1. ASSUME NEW r \in RunIds PROVE [runs[r] EXCEPT !.age = Older(@)] \in Run
    BY OlderType DEF Run
  <2>2. ASSUME NEW t \in TaskIds PROVE [tasks[t] EXCEPT !.left = Sooner(@)] \in Task
    BY SoonerType, TimeAssumption DEF Task
  <2> QED
    BY <1>23, <2>1, <2>2 DEF Tick
<1> HIDE DEF Goal
<1>24. Goal
  <2>1. CASE WorkerNext
    BY <2>1, <1>1, <1>2, <1>5, <1>6, <1>7, <1>8 DEF WorkerNext
  <2>2. CASE CallerNext
    BY <2>2, <1>9, <1>10, <1>11, <1>12, <1>13, <1>14, <1>15 DEF CallerNext
  <2>3. CASE TaskNext
    BY <2>3, <1>16, <1>17, <1>18, <1>19, <1>20 DEF TaskNext
  <2> QED
    BY <2>1, <2>2, <2>3, <1>21, <1>22, <1>23 DEF Next, MaintenanceNext
<1> QED
  BY <1>24, JobsType DEF Goal, TypeOK

\* Every record of the snapshot keeps its Go type, for any number of runs, jobs,
\* tasks and workers.
THEOREM TypeCorrect == Spec => []TypeOK
<1>1. TypeOK /\ UNCHANGED vars => TypeOK'
  BY DEF TypeOK, vars
<1>2. TypeOK /\ [Next]_vars => TypeOK'
  BY <1>1, TypeNext
<1> QED
  BY <1>2, TypeInit, PTL DEF Spec

-----------------------------------------------------------------------------
(* What follows from the steps of one job *)

\* The steps of job j once more, by the fields that the invariants look at.
LEMMA JobStepFields ==
  ASSUME TypeOK, NEW j \in JobIds, JobStep(j)
  PROVE  LET old == jobs[j]
             new == jobs'[j]
         IN  \/ new = old
             \/ /\ old.state = "absent"
                /\ new.run \in RunIds /\ new.state = "queued" /\ ~new.canceled
             \/ /\ old.state \in {"queued", "running"}
                /\ new.run = old.run /\ new.state = "failed" /\ new.attempt = old.attempt
             \/ /\ old.state = "running" /\ ~old.canceled
                /\ new.run = old.run /\ new.state = "queued" /\ new.attempt = old.attempt
                /\ ~new.canceled
             \/ /\ old.state \in {"queued", "running"}
                /\ old.state = "running" => ~old.canceled
                /\ new.run = old.run /\ new.state = "running"
                /\ new.attempt = old.attempt + 1 /\ new.canceled = old.canceled
                /\ new.left = LeaseTTL /\ new.age = 0
             \/ /\ old.state = "running"
                /\ new.run = old.run /\ new.state = "running" /\ new.attempt = old.attempt
                /\ new.left \in {old.left, LeaseTTL} /\ new.age = 0
             \/ /\ old.state = "running" /\ ~old.canceled
                /\ new.run = old.run /\ new.state \in {"succeeded", "failed"}
                /\ new.attempt = old.attempt /\ ~new.canceled
             \/ /\ old.state = "queued"
                /\ new.run = old.run /\ new.state = "queued" /\ new.attempt = old.attempt
                /\ new.canceled = old.canceled
             \/ /\ old.run \in RunIds
                /\ new.run = NoRun /\ new.state = "deleted" /\ ~new.canceled
             \/ /\ old.state \in JobStates
                /\ new.run = old.run /\ new.state = old.state /\ new.attempt = old.attempt
                /\ new.canceled = old.canceled
                /\ new.left = Sooner(old.left) /\ new.age = Older(old.age)
<1>1. jobs[j] \in Job
  BY DEF TypeOK
<1>2. RequeuedJob(jobs[j]) \in Job
  BY <1>1, JobTypes
<1>3. CASE jobs[j].state = "absent" /\ \E r \in RunIds : jobs'[j] = NewActionJob(r)
  <2>1. PICK r \in RunIds : jobs'[j] = NewActionJob(r)
    BY <1>3
  <2>2. jobs'[j].run = r /\ jobs'[j].state = "queued" /\ ~jobs'[j].canceled
    BY <2>1, NewActionJobFields DEF JobWith
  <2> QED
    BY <1>3, <2>2
<1>4. CASE JobActive(j) /\ jobs'[j] \in {CanceledJob(jobs[j]), StoppedJob(jobs[j]),
                                         ExpiredJob(jobs[j])}
  <2>1. /\ jobs'[j].run = jobs[j].run
        /\ jobs'[j].state = "failed"
        /\ jobs'[j].attempt = jobs[j].attempt
    <3>1. CASE jobs'[j] = CanceledJob(jobs[j])
      BY <1>1, <3>1, CanceledJobFields DEF JobWith
    <3>2. CASE jobs'[j] = StoppedJob(jobs[j])
      BY <1>1, <3>2, StoppedJobFields DEF JobWith
    <3>3. CASE jobs'[j] = ExpiredJob(jobs[j])
      BY <1>1, <3>3, ExpiredJobFields DEF JobWith
    <3> QED
      BY <1>4, <3>1, <3>2, <3>3
  <2> QED
    BY <1>4, <2>1 DEF JobActive
<1>5. CASE LeaseExpired(j) /\ ~jobs[j].canceled /\ jobs'[j] = RequeuedJob(jobs[j])
  BY <1>1, <1>5, RequeuedJobFields DEF JobWith, LeaseExpired
<1>6. ASSUME NEW w \in WorkerIds,
             \/ jobs[j].state = "queued" /\ jobs'[j] = ClaimedJob(jobs[j], w)
             \/ /\ LeaseExpired(j) /\ ~jobs[j].canceled
                /\ jobs'[j] = ClaimedJob(RequeuedJob(jobs[j]), w)
      PROVE  /\ jobs[j].state \in {"queued", "running"}
             /\ jobs[j].state = "running" => ~jobs[j].canceled
             /\ jobs'[j].run = jobs[j].run /\ jobs'[j].state = "running"
             /\ jobs'[j].attempt = jobs[j].attempt + 1
             /\ jobs'[j].canceled = jobs[j].canceled
             /\ jobs'[j].left = LeaseTTL /\ jobs'[j].age = 0
  BY <1>1, <1>2, <1>6, RequeuedJobFields, ClaimedJobFields DEF JobWith, LeaseExpired
<1>7. CASE jobs[j].state = "running"
           /\ jobs'[j] \in {RenewedJob(jobs[j]), SoftCanceledJob(jobs[j])}
  BY <1>1, <1>7, RenewedJobFields, SoftCanceledJobFields DEF JobWith
<1>8. CASE /\ jobs[j].state = "running" /\ ~jobs[j].canceled
           /\ \E state \in {"succeeded", "failed"} : jobs'[j] = SettledJob(jobs[j], state)
  BY <1>1, <1>8, SettledJobFields DEF JobWith
<1>9. CASE jobs[j].state = "queued" /\ jobs'[j] = RetaggedJob(jobs[j])
  BY <1>1, <1>9, RetaggedJobFields DEF JobWith
<1>10. CASE jobs[j].run \in RunIds /\ jobs'[j] = DeletedJob
  BY <1>10, DeletedJobFields DEF JobWith
<1>11. CASE JobExists(j) /\ jobs'[j] = AgedJob(jobs[j])
  BY <1>1, <1>11, AgedJobFields DEF JobWith, JobExists
<1> QED
  BY <1>3, <1>4, <1>5, <1>6, <1>7, <1>8, <1>9, <1>10, <1>11 DEF JobStep

\* No step puts a job that was asked to stop back in the queue or lets it succeed.
LEMMA CanceledJobNext ==
  ASSUME TypeOK, CanceledJobNeverRuns, Next
  PROVE  CanceledJobNeverRuns'
<1> SUFFICES ASSUME NEW j \in JobIds
             PROVE  jobs'[j].canceled => jobs'[j].state \in {"running", "failed"}
  BY DEF CanceledJobNeverRuns
<1>1. jobs[j].canceled => jobs[j].state \in {"running", "failed"}
  BY DEF CanceledJobNeverRuns
<1>2. JobStep(j)
  BY JobSteps
<1> QED
  BY <1>1, <1>2, JobStepFields

\* No step lengthens a lease without marking its job as touched.
LEMMA LeaseAgeNext ==
  ASSUME TypeOK, LeaseAge, Next
  PROVE  LeaseAge'
<1> SUFFICES ASSUME NEW j \in JobIds, jobs'[j].state = "running"
             PROVE  /\ jobs'[j].left # NoExpiry
                    /\ jobs'[j].left >= 0 => jobs'[j].left + jobs'[j].age <= LeaseTTL
  BY DEF LeaseAge
<1>1. jobs[j].state = "running" =>
        /\ jobs[j].left # NoExpiry
        /\ jobs[j].left >= 0 => jobs[j].left + jobs[j].age <= LeaseTTL
  BY DEF LeaseAge
<1>2. jobs[j].left \in NoExpiry..LeaseTTL /\ jobs[j].age \in 0..AgeCap
  BY DEF TypeOK, Job
<1>3. LeaseTTL \in Nat /\ AgeCap \in Nat
  BY TimeAssumption, AgeCapType
<1>4. JobStep(j)
  BY JobSteps
<1> QED
  BY <1>1, <1>2, <1>3, <1>4, JobStepFields DEF Sooner, Older, NoExpiry

\* Only a claim hands out a lease.
LEMMA LeaseStep ==
  ASSUME Next
  PROVE  \/ UNCHANGED leases
         \/ \E w \in WorkerIds, j \in JobIds : ClaimJob(w, j)
<1>1. CASE WorkerNext
  BY <1>1 DEF WorkerNext, HeartbeatJob, CompleteJobSucceeded, CompleteJobFailed,
       CompleteJobWaitingHuman, CreateHeldHumanTask
<1>2. CASE CallerNext
  BY <1>2 DEF CallerNext, CancelRun, CreateRunAndEnqueue, RetryRun,
       ResolveAdmissionOutcome, CancelJob, ResumeHumanTask, RequeueQueuedJobsForApp
<1>3. CASE TaskNext
  BY <1>3 DEF TaskNext, DecideHeldHumanTask, ExpireHeldHumanTask, WaitForHumanTask,
       CancelHeldHumanTasksForJob, ExpireDueHeldHumanTasks
<1> QED
  BY <1>1, <1>2, <1>3 DEF Next, MaintenanceNext, PruneSettledJobs, ExpireStuckJobs, Tick

\* Attempts only grow while a job exists, and each claim uses a new one.
LEMMA LeaseHistoryNext ==
  ASSUME TypeOK, LeaseHistory, Next
  PROVE  LeaseHistory'
<1>1. ASSUME NEW j \in JobIds
      PROVE  /\ jobs'[j].state = "absent" => jobs[j].state = "absent"
             /\ jobs'[j].state \in JobStates /\ jobs[j].state # "absent" =>
                  jobs[j].state \in JobStates /\ jobs[j].attempt <= jobs'[j].attempt
  <2>1. JobStep(j)
    BY JobSteps
  <2>2. /\ jobs[j].attempt \in Nat
        /\ jobs[j].state \in JobStates \cup {"absent", "deleted"}
    BY TimeAssumption DEF TypeOK, Job
  <2> QED
    BY <2>1, <2>2, JobStepFields DEF JobStates
<1>2. /\ \A l \in leases : jobs[l.job].state \in JobStates => l.attempt <= jobs[l.job].attempt
      /\ \A l \in leases : jobs[l.job].state # "absent"
      /\ \A l, m \in leases : l.job = m.job /\ l.attempt = m.attempt => l = m
  BY DEF LeaseHistory, JobExists
<1>3. /\ \A l \in leases : l.job \in JobIds /\ l.attempt \in Nat
      /\ \A j \in JobIds : jobs[j].attempt \in Nat
      /\ jobs' \in [JobIds -> Job]
  BY TimeAssumption, JobsType DEF TypeOK, Job, Lease
<1>4. \A j \in JobIds : jobs'[j].attempt \in Nat
  BY <1>3, TimeAssumption DEF Job
<1>5. CASE UNCHANGED leases
  <2>1. \A l \in leases : jobs'[l.job].state \in JobStates => l.attempt <= jobs'[l.job].attempt
    BY <1>1, <1>2, <1>3, <1>4
  <2>2. \A l \in leases : jobs'[l.job].state # "absent"
    BY <1>1, <1>2, <1>3
  <2> QED
    BY <1>2, <1>5, <2>1, <2>2 DEF LeaseHistory, JobExists
<1>6. ASSUME NEW w \in WorkerIds, NEW k \in JobIds, ClaimJob(w, k)
      PROVE  LeaseHistory'
  <2> DEFINE new == [job |-> k, worker |-> w, attempt |-> jobs[k].attempt + 1]
  <2>1. leases' = leases \cup {new}
    BY <1>6 DEF ClaimJob
  <2>2. new.job = k /\ new.attempt = jobs[k].attempt + 1
    OBVIOUS
  <2> HIDE DEF new
  <2>3. /\ jobs[k].state \in JobStates
        /\ jobs'[k].state = "running" /\ jobs'[k].attempt = jobs[k].attempt + 1
    BY <1>6, ClaimedJobState
  <2>4. \A l \in leases' : jobs'[l.job].state \in JobStates => l.attempt <= jobs'[l.job].attempt
    BY <1>1, <1>2, <1>3, <1>4, <2>1, <2>2, <2>3
  <2>5. \A l \in leases' : jobs'[l.job].state # "absent"
    BY <1>1, <1>2, <1>3, <2>1, <2>2, <2>3
  <2>6. ASSUME NEW l \in leases', NEW m \in leases', l.job = m.job, l.attempt = m.attempt
        PROVE  l = m
    <3>1. \A n \in leases : n.job = k => n.attempt < new.attempt
      BY <1>2, <1>3, <2>2, <2>3
    <3> QED
      BY <1>2, <1>3, <2>1, <2>2, <2>6, <3>1
  <2> QED
    BY <2>4, <2>5, <2>6 DEF LeaseHistory, JobExists
<1> QED
  BY <1>5, <1>6, LeaseStep

\* The four invariants that concern a job and its leases.
LeaseInv == TypeOK /\ CanceledJobNeverRuns /\ LeaseAge /\ LeaseHistory

\* They hold in every reachable state.
LEMMA LeaseInvHolds == Spec => []LeaseInv
<1>1. Init => LeaseInv
  BY TypeInit DEF Init, LeaseInv, CanceledJobNeverRuns, LeaseAge, LeaseHistory, AbsentJob
<1>2. LeaseInv /\ Next => LeaseInv'
  BY TypeNext, CanceledJobNext, LeaseAgeNext, LeaseHistoryNext DEF LeaseInv
<1>3. LeaseInv /\ UNCHANGED vars => LeaseInv'
  BY DEF LeaseInv, vars, TypeOK, CanceledJobNeverRuns, LeaseAge, LeaseHistory, JobExists
<1> QED
  BY <1>1, <1>2, <1>3, PTL DEF Spec

\* CancelJob's promise, for any number of workers and retries: a job asked to stop
\* is never queued again and never succeeds.
THEOREM CanceledJobNeverRunsHolds == Spec => []CanceledJobNeverRuns
<1>1. LeaseInv => CanceledJobNeverRuns
  BY DEF LeaseInv
<1> QED
  BY <1>1, LeaseInvHolds, PTL

\* Lease fencing: only the newest lease of a job can renew or settle it.
THEOREM NewestLeaseOnlyHolds == Spec => []NewestLeaseOnly
<1>1. LeaseInv => NewestLeaseOnly
  <2> SUFFICES ASSUME LeaseInv, NEW l \in leases, NEW m \in leases, l.job = m.job, l # m
               PROVE  /\ l.attempt # m.attempt
                      /\ l.attempt < m.attempt => ~OwnsJob(l)
    BY DEF NewestLeaseOnly
  <2>1. l.attempt # m.attempt
    BY DEF LeaseInv, LeaseHistory
  <2>2. OwnsJob(l) => m.attempt <= l.attempt
    BY DEF LeaseInv, LeaseHistory, OwnsJob, JobExists, JobStates
  <2>3. l.attempt \in Int /\ m.attempt \in Int
    BY DEF LeaseInv, TypeOK, Lease
  <2> QED
    BY <2>1, <2>2, <2>3
<1> QED
  BY <1>1, LeaseInvHolds, PTL

\* ExpireStuckJobs never takes a run whose job is under a live lease, provided a
\* lease is no longer than the time after which a run counts as stuck.
THEOREM LeasedJobNotStuckHolds == Spec => []LeasedJobNotStuck
<1>1. LeaseInv => LeasedJobNotStuck
  <2> SUFFICES ASSUME LeaseInv, NEW j \in JobIds, jobs[j].state = "running",
                      jobs[j].left >= 0
               PROVE  ~Stuck(jobs[j].run)
    BY DEF LeasedJobNotStuck
  <2>1. jobs[j].left + jobs[j].age <= LeaseTTL
    BY DEF LeaseInv, LeaseAge
  <2>2. jobs[j].left \in Int /\ jobs[j].age \in Int
    BY AgeCapType, TimeAssumption DEF LeaseInv, TypeOK, Job, NoExpiry
  <2>3. StuckAfter > 0 => jobs[j].age <= StuckAfter
    BY <2>1, <2>2, TimeAssumption
  <2> QED
    BY <2>2, <2>3, TimeAssumption DEF Stuck
<1> QED
  BY <1>1, LeaseInvHolds, PTL

\* A settled job stays as it settled until it is pruned.
THEOREM SettledJobIsFinalHolds == Spec => SettledJobIsFinal
<1> DEFINE A == \A j \in JobIds :
                  jobs[j].state \in {"succeeded", "failed"} =>
                    jobs'[j].state \in {jobs[j].state, "deleted"}
<1>1. TypeOK /\ Next => A
  <2> SUFFICES ASSUME TypeOK, Next, NEW j \in JobIds,
                      jobs[j].state \in {"succeeded", "failed"}
               PROVE  jobs'[j].state \in {jobs[j].state, "deleted"}
    OBVIOUS
  <2>1. JobStep(j)
    BY JobSteps
  <2> QED
    BY <2>1, JobStepFields
<1>2. TypeOK /\ [Next]_vars => [A]_vars
  BY <1>1
<1> QED
  BY <1>2, TypeCorrect, PTL DEF Spec, SettledJobIsFinal

-----------------------------------------------------------------------------
(* The steps of one run *)

\* The suspend tasks of run r that are open stay open.
TasksStayOpen(r) ==
  \A t \in SuspendIds :
    tasks[t].run = r /\ Pending(t) => tasks'[t].run = r /\ tasks'[t].state = "pending"

\* Run r waits for a suspend task of its own.
AwaitsTask(r) ==
  \E t \in SuspendIds : runs[r].task = t /\ Pending(t) /\ tasks[t].run = r

\* Everything that can happen to run r, with its jobs and tasks, in one step.
RunStep(r) ==
  LET old == runs[r].state
      new == runs'[r].state
  IN  \/ /\ new = old /\ runs'[r].task = runs[r].task
         /\ ActiveJobs(r)' = ActiveJobs(r)
         /\ TasksStayOpen(r)
      \/ /\ <<old, new>> \in ({"absent", "FAILED", "CANCELED", "EXPIRED"} \X {"QUEUED"})
                               \cup {<<"WAITING_HUMAN", "RESUMING">>}
         /\ \E j \in JobIds : jobs[j].state = "absent" /\ ActiveJobs(r)' = {j}
      \/ /\ old \in {"QUEUED", "RESUMING"} /\ new = "RUNNING"
         /\ ActiveJobs(r)' = ActiveJobs(r)
      \/ /\ <<old, new>> \in (ActiveStates \X {"CANCELED", "EXPIRED"})
                               \cup ({"RUNNING"} \X {"SUCCEEDED", "FAILED"})
                               \cup {<<"WAITING_HUMAN", "CANCELED">>}
         /\ ActiveJobs(r)' = {}
      \/ /\ old = "RUNNING" /\ new = "WAITING_HUMAN"
         /\ ActiveJobs(r)' = {}
         /\ AwaitsTask(r)'
      \/ /\ old \in TerminalStates /\ new = "absent"
         /\ \A j \in JobIds : jobs'[j].run # r
         /\ \A t \in TaskIds : tasks'[t].run # r

\* The part of the invariant that the steps of a run rely on.
RunInv ==
  TypeOK /\ AbsentHasNoRun /\ NoOrphans /\ OneActiveJob /\ RunFollowsJob
    /\ SuspendedRunHasItsTask

\* A step that leaves the run, its suspend tasks and the activity of its jobs alone.
LEMMA QuietStep ==
  ASSUME NEW r \in RunIds,
         runs'[r].state = runs[r].state, runs'[r].task = runs[r].task,
         \A j \in JobIds : /\ jobs'[j].run = jobs[j].run
                           /\ JobActive(j)' <=> JobActive(j),
         TasksStayOpen(r)
  PROVE  RunStep(r)
<1>1. ActiveJobs(r)' = ActiveJobs(r)
  BY DEF ActiveJobs
<1> QED
  BY <1>1 DEF RunStep

\* The steps that change human tasks or admission outcomes only.
LEMMA TaskNextRunStep ==
  ASSUME TypeOK, TaskNext, NEW r \in RunIds
  PROVE  RunStep(r)
<1>1. UNCHANGED <<runs, jobs>>
  BY DEF TaskNext, DecideHeldHumanTask, ExpireHeldHumanTask, WaitForHumanTask,
       CancelHeldHumanTasksForJob, ExpireDueHeldHumanTasks
<1>2. \A t \in SuspendIds : tasks'[t] = tasks[t]
  BY IdentifierAssumption DEF TypeOK, TaskIds, TaskNext, DecideHeldHumanTask,
       ExpireHeldHumanTask, WaitForHumanTask, CancelHeldHumanTasksForJob,
       ExpireDueHeldHumanTasks, CancelHeld
<1>3. TasksStayOpen(r)
  BY <1>2 DEF TasksStayOpen, Pending
<1> QED
  BY <1>1, <1>3, QuietStep DEF JobActive

\* The facts about run r that its steps start from.
LEMMA RunFacts ==
  ASSUME RunInv, NEW j \in JobIds, JobActive(j)
  PROVE  /\ jobs[j].run \in RunIds
         /\ runs[jobs[j].run].state \in ActiveStates
         /\ ActiveJobs(jobs[j].run) = {j}
         /\ jobs[j].state = "running" => runs[jobs[j].run].state = "RUNNING"
<1>1. jobs[j].run \in RunIds
  BY DEF RunInv, NoOrphans, JobExists, JobStates, JobActive
<1>2. j \in ActiveJobs(jobs[j].run)
  BY DEF ActiveJobs
<1> QED
  BY <1>1, <1>2 DEF RunInv, OneActiveJob, RunFollowsJob

\* A run that gets a fresh job.
LEMMA StartStep ==
  ASSUME RunInv, NEW r \in RunIds, NEW j \in JobIds, NEW s,
         <<runs[r].state, s>> \in ({"absent", "FAILED", "CANCELED", "EXPIRED"} \X {"QUEUED"})
                                    \cup {<<"WAITING_HUMAN", "RESUMING">>},
         jobs[j].state = "absent",
         runs' = [runs EXCEPT ![r] = [state |-> s, task |-> NoTask, age |-> 0]],
         jobs' = [jobs EXCEPT ![j] = NewActionJob(r)],
         \A q \in RunIds : q # r => TasksStayOpen(q)
  PROVE  \A q \in RunIds : RunStep(q)
<1>t. runs \in [RunIds -> Run] /\ jobs \in [JobIds -> Job]
  BY DEF RunInv, TypeOK
<1>1. jobs'[j].run = r /\ jobs'[j].state = "queued"
  BY <1>t, NewActionJobFields DEF JobWith
<1>2. \A k \in JobIds : k # j => jobs'[k] = jobs[k]
  BY <1>t
<1>3. jobs[j].run = NoRun /\ NoRun \notin RunIds
  BY IdentifierAssumption DEF RunInv, AbsentHasNoRun, JobExists, JobStates
<1>4. ActiveJobs(r) = {}
  BY DEF RunInv, OneActiveJob, ActiveStates
<1>5. RunStep(r)
  <2>1. ActiveJobs(r)' = {j}
    BY <1>1, <1>2, <1>4 DEF ActiveJobs, JobActive
  <2>2. runs'[r].state = s
    BY <1>t
  <2> QED
    BY <2>1, <2>2 DEF RunStep
<1>6. ASSUME NEW q \in RunIds, q # r PROVE RunStep(q)
  <2>1. ActiveJobs(q)' = ActiveJobs(q)
    BY <1>1, <1>2, <1>3, <1>6 DEF ActiveJobs, JobActive
  <2>2. runs'[q] = runs[q]
    BY <1>t, <1>6
  <2> QED
    BY <1>6, <2>1, <2>2 DEF RunStep
<1> QED
  BY <1>5, <1>6

\* A run whose one active job ends.
LEMMA EndStep ==
  ASSUME RunInv, NEW j \in JobIds, JobActive(j), NEW s, NEW job,
         LET r == jobs[j].run
         IN  /\ <<runs[r].state, s>> \in (ActiveStates \X {"CANCELED"})
                                           \cup ({"RUNNING"} \X {"SUCCEEDED", "FAILED"})
             /\ runs'[r].state = s
             /\ \A q \in RunIds : q # r => runs'[q] = runs[q],
         job.run = jobs[j].run, job.state \in {"succeeded", "failed"},
         jobs' = [jobs EXCEPT ![j] = job],
         \A t \in SuspendIds : tasks'[t] = tasks[t]
  PROVE  \A q \in RunIds : RunStep(q)
<1> DEFINE r == jobs[j].run
<1>t. jobs \in [JobIds -> Job] /\ r \in RunIds
  BY RunFacts DEF RunInv, TypeOK
<1>1. jobs'[j] = job /\ \A k \in JobIds : k # j => jobs'[k] = jobs[k]
  BY <1>t
<1>2. ActiveJobs(r) = {j}
  BY RunFacts
<1>3. RunStep(r)
  <2>1. ActiveJobs(r)' = {}
    BY <1>1, <1>2 DEF ActiveJobs, JobActive
  <2> QED
    BY <2>1 DEF RunStep, ActiveStates
<1>4. ASSUME NEW q \in RunIds, q # r PROVE RunStep(q)
  <2>1. ActiveJobs(q)' = ActiveJobs(q)
    BY <1>1, <1>4 DEF ActiveJobs, JobActive
  <2>2. TasksStayOpen(q)
    BY DEF TasksStayOpen, Pending
  <2> QED
    BY <1>4, <2>1, <2>2 DEF RunStep
<1> QED
  BY <1>3, <1>4

\* A lost or finished job that was asked to stop, and its run.
LEMMA CompleteCanceledStep ==
  ASSUME RunInv, NEW l \in leases, LeasedJobAndRun(l), CompleteCanceled(l),
         \A t \in SuspendIds : tasks'[t] = tasks[t]
  PROVE  \A q \in RunIds : RunStep(q)
<1> DEFINE r == jobs[l.job].run
<1>1. /\ runs \in [RunIds -> Run] /\ jobs \in [JobIds -> Job]
      /\ l.job \in JobIds /\ JobActive(l.job)
  BY DEF RunInv, TypeOK, Lease, LeasedJobAndRun, OwnsJob, JobActive
<1>2. r \in RunIds /\ runs[r].state \in ActiveStates
  BY <1>1, RunFacts
<1>3. /\ CanceledJob(jobs[l.job]).run = r
      /\ CanceledJob(jobs[l.job]).state = "failed"
  BY <1>1, CanceledJobFields DEF JobWith
<1>4. runs'[r].state = "CANCELED" /\ \A q \in RunIds : q # r => runs'[q] = runs[q]
  BY <1>1, <1>2, RunInFields DEF CompleteCanceled, CanceledRun, RunWith
<1>5. jobs' = [jobs EXCEPT ![l.job] = CanceledJob(jobs[l.job])]
  BY DEF CompleteCanceled
<1> QED
  BY <1>1, <1>2, <1>3, <1>4, <1>5, EndStep

\* A job that succeeds or fails, and its run.
LEMMA SettleStep ==
  ASSUME RunInv, NEW l \in leases, LeasedJobAndRun(l),
         NEW s \in {"SUCCEEDED", "FAILED"}, NEW state \in {"succeeded", "failed"}, NEW task,
         SettleJob(l, state, s, task),
         \A t \in SuspendIds : tasks'[t] = tasks[t]
  PROVE  \A q \in RunIds : RunStep(q)
<1> DEFINE r == jobs[l.job].run
<1>1. /\ runs \in [RunIds -> Run] /\ jobs \in [JobIds -> Job]
      /\ l.job \in JobIds /\ JobActive(l.job) /\ jobs[l.job].state = "running"
  BY DEF RunInv, TypeOK, Lease, LeasedJobAndRun, OwnsJob, JobActive
<1>2. r \in RunIds /\ runs[r].state = "RUNNING"
  BY <1>1, RunFacts
<1>3. /\ SettledJob(jobs[l.job], state).run = r
      /\ SettledJob(jobs[l.job], state).state = state
  BY <1>1, SettledJobFields DEF JobWith
<1>4. runs'[r].state = s /\ \A q \in RunIds : q # r => runs'[q] = runs[q]
  BY <1>1, <1>2 DEF SettleJob
<1>5. jobs' = [jobs EXCEPT ![l.job] = SettledJob(jobs[l.job], state)]
  BY DEF SettleJob
<1> QED
  BY <1>1, <1>2, <1>3, <1>4, <1>5, EndStep

\* A job that suspends its run.
LEMMA SuspendStep ==
  ASSUME RunInv, NEW l \in leases, LeasedJobAndRun(l), NEW t \in SuspendIds,
         tasks[t].state = "absent",
         SettleJob(l, "succeeded", "WAITING_HUMAN", t),
         tasks' = [tasks EXCEPT ![t] = SuspendTask(jobs[l.job].run)]
  PROVE  \A q \in RunIds : RunStep(q)
<1> DEFINE r == jobs[l.job].run
<1>1. /\ runs \in [RunIds -> Run] /\ jobs \in [JobIds -> Job] /\ tasks \in [TaskIds -> Task]
      /\ l.job \in JobIds /\ JobActive(l.job) /\ jobs[l.job].state = "running"
      /\ SuspendIds \subseteq TaskIds
  BY DEF RunInv, TypeOK, Lease, LeasedJobAndRun, OwnsJob, JobActive, TaskIds
<1>2. r \in RunIds /\ runs[r].state = "RUNNING" /\ ActiveJobs(r) = {l.job}
  BY <1>1, RunFacts
<1>3. /\ SettledJob(jobs[l.job], "succeeded").run = r
      /\ SettledJob(jobs[l.job], "succeeded").state = "succeeded"
  BY <1>1, SettledJobFields DEF JobWith
<1>4. /\ runs'[r].state = "WAITING_HUMAN" /\ runs'[r].task = t
      /\ \A q \in RunIds : q # r => runs'[q] = runs[q]
  BY <1>1, <1>2 DEF SettleJob
<1>5. /\ jobs'[l.job].run = r /\ jobs'[l.job].state = "succeeded"
      /\ \A k \in JobIds : k # l.job => jobs'[k] = jobs[k]
  BY <1>1, <1>3 DEF SettleJob
<1>6. /\ tasks'[t].run = r /\ tasks'[t].state = "pending"
      /\ \A u \in SuspendIds : u # t => tasks'[u] = tasks[u]
  BY <1>1, SuspendTaskFields DEF TaskWith
<1>7. RunStep(r)
  <2>1. ActiveJobs(r)' = {}
    BY <1>2, <1>5 DEF ActiveJobs, JobActive
  <2>2. AwaitsTask(r)'
    BY <1>4, <1>5, <1>6 DEF AwaitsTask, Pending
  <2> QED
    BY <1>2, <1>4, <2>1, <2>2 DEF RunStep
<1>8. ASSUME NEW q \in RunIds, q # r PROVE RunStep(q)
  <2>1. ActiveJobs(q)' = ActiveJobs(q)
    BY <1>5, <1>8 DEF ActiveJobs, JobActive
  <2>2. TasksStayOpen(q)
    BY <1>6 DEF TasksStayOpen, Pending
  <2> QED
    BY <1>4, <1>8, <2>1, <2>2 DEF RunStep
<1> QED
  BY <1>7, <1>8

\* A claim starts the run of its job and ends the runs of lost jobs asked to stop.
LEMMA ClaimRunStep ==
  ASSUME RunInv, NEW w \in WorkerIds, NEW k \in JobIds, ClaimJob(w, k)
  PROVE  /\ \A q \in RunIds : RunStep(q)
         /\ runs'[jobs[k].run].state = "RUNNING"
         /\ \A q \in RunIds : runs[q].state = "absent" => runs'[q] = runs[q]
<1> DEFINE recovered == RequeueExpiredJobs
           r == jobs[k].run
<1>t. /\ runs \in [RunIds -> Run] /\ jobs \in [JobIds -> Job]
  BY DEF RunInv, TypeOK
<1>1. /\ recovered[k].state = "queued"
      /\ jobs' = [recovered EXCEPT ![k] = ClaimedJob(@, w)]
      /\ runs' = [q \in RunIds |->
                    IF q \in RunsOfLostCanceledJobs THEN CanceledRun(runs[q])
                    ELSE IF q = r /\ runs[q].state \in {"QUEUED", "RESUMING"}
                    THEN RunIn(runs[q], "RUNNING")
                    ELSE runs[q]]
      /\ UNCHANGED tasks
  BY DEF ClaimJob
<1>2. recovered = [j \in JobIds |-> recovered[j]]
  BY DEF RequeueExpiredJobs
<1>3. \A j \in JobIds :
        recovered[j] = IF ~LeaseExpired(j) THEN jobs[j]
                       ELSE IF jobs[j].canceled THEN CanceledJob(jobs[j])
                       ELSE RequeuedJob(jobs[j])
  BY DEF RequeueExpiredJobs
<1> HIDE DEF recovered
<1>4. ASSUME NEW j \in JobIds
      PROVE  /\ CanceledJob(jobs[j]).run = jobs[j].run /\ CanceledJob(jobs[j]).state = "failed"
             /\ RequeuedJob(jobs[j]).run = jobs[j].run /\ RequeuedJob(jobs[j]).state = "queued"
  BY <1>t, CanceledJobFields, RequeuedJobFields DEF JobWith
<1>5. /\ jobs[k].state \in {"queued", "running"}
      /\ jobs'[k].run = r /\ jobs'[k].state = "running"
      /\ LeaseExpired(k) => ~jobs[k].canceled
  <2>1. jobs[k].state \in {"queued", "running"} /\ (LeaseExpired(k) => ~jobs[k].canceled)
    BY <1>1, <1>3, <1>4 DEF LeaseExpired
  <2> QED
    BY <2>1, ClaimedJobState DEF RunInv
<1>6. \A j \in JobIds : j # k => jobs'[j] = recovered[j]
  BY <1>1, <1>2
<1>7. r \in RunIds /\ runs[r].state \in ActiveStates /\ ActiveJobs(r) = {k}
  BY <1>5, RunFacts DEF JobActive
<1>8. ASSUME NEW q \in RunIds, q \in RunsOfLostCanceledJobs
      PROVE  RunStep(q) /\ q # r /\ runs[q].state # "absent"
  <2>1. PICK j \in JobIds : LeaseExpired(j) /\ jobs[j].canceled /\ jobs[j].run = q
    BY <1>8 DEF RunsOfLostCanceledJobs
  <2>2. jobs[j].state = "running" /\ j # k
    BY <1>5, <2>1 DEF LeaseExpired
  <2>3. runs[q].state = "RUNNING" /\ ActiveJobs(q) = {j}
    BY <2>1, <2>2, RunFacts DEF JobActive
  <2>4. q # r
    BY <1>7, <2>2, <2>3
  <2>5. jobs'[j].run = q /\ jobs'[j].state = "failed"
    BY <1>3, <1>4, <1>6, <2>1, <2>2
  <2>6. ActiveJobs(q)' = {}
    <3> SUFFICES ASSUME NEW i \in ActiveJobs(q)' PROVE FALSE
      OBVIOUS
    <3>1. i \in JobIds /\ jobs'[i].run = q /\ jobs'[i].state \in {"queued", "running"}
      BY DEF ActiveJobs, JobActive
    <3>2. i # k /\ i # j
      BY <1>5, <2>4, <2>5, <3>1
    <3>3. jobs[i].run = q /\ jobs[i].state \in {"queued", "running"}
      BY <1>3, <1>4, <1>6, <3>1, <3>2 DEF LeaseExpired
    <3> QED
      BY <2>3, <3>1, <3>2, <3>3 DEF ActiveJobs, JobActive
  <2>7. runs'[q].state = "CANCELED"
    BY <1>t, <1>1, <1>8, RunInFields DEF CanceledRun, RunWith
  <2> QED
    BY <2>3, <2>4, <2>6, <2>7 DEF RunStep, ActiveStates
<1>9. runs'[r] = IF runs[r].state \in {"QUEUED", "RESUMING"}
                 THEN RunIn(runs[r], "RUNNING") ELSE runs[r]
  BY <1>1, <1>7, <1>8
<1>10. runs'[r].state = "RUNNING"
  BY <1>t, <1>7, <1>9, RunInFields DEF RunWith, ActiveStates
<1>11. ASSUME NEW q \in RunIds, q \notin RunsOfLostCanceledJobs
       PROVE  ActiveJobs(q)' = ActiveJobs(q) /\ TasksStayOpen(q)
  <2>1. ASSUME NEW j \in JobIds
        PROVE  /\ jobs'[j].run = q /\ jobs'[j].state \in {"queued", "running"}
                  <=> jobs[j].run = q /\ jobs[j].state \in {"queued", "running"}
    <3>1. CASE j = k
      BY <1>5, <3>1
    <3>2. CASE j # k /\ LeaseExpired(j) /\ jobs[j].canceled
      <4>1. jobs[j].run # q
        BY <1>11, <3>2 DEF RunsOfLostCanceledJobs
      <4> QED
        BY <1>3, <1>4, <1>6, <3>2, <4>1
    <3>3. CASE j # k /\ ~(LeaseExpired(j) /\ jobs[j].canceled)
      BY <1>3, <1>4, <1>6, <3>3 DEF LeaseExpired
    <3> QED
      BY <3>1, <3>2, <3>3
  <2>2. ActiveJobs(q)' = ActiveJobs(q)
    BY <2>1 DEF ActiveJobs, JobActive
  <2> QED
    BY <1>1, <2>2 DEF TasksStayOpen, Pending
<1>12. ASSUME NEW q \in RunIds PROVE RunStep(q)
  <2>1. CASE q \in RunsOfLostCanceledJobs
    BY <1>8, <2>1
  <2>2. CASE q \notin RunsOfLostCanceledJobs /\ q = r
    <3>1. CASE runs[r].state \in {"QUEUED", "RESUMING"}
      BY <1>10, <1>11, <2>2, <3>1 DEF RunStep
    <3>2. CASE runs[r].state \notin {"QUEUED", "RESUMING"}
      BY <1>9, <1>11, <2>2, <3>2 DEF RunStep
    <3> QED
      BY <3>1, <3>2
  <2>3. CASE q \notin RunsOfLostCanceledJobs /\ q # r
    <3>1. runs'[q] = runs[q]
      BY <1>1, <2>3
    <3> QED
      BY <1>11, <2>3, <3>1 DEF RunStep
  <2> QED
    BY <2>1, <2>2, <2>3
<1>13. ASSUME NEW q \in RunIds, runs[q].state = "absent" PROVE runs'[q] = runs[q]
  BY <1>1, <1>7, <1>8, <1>13 DEF ActiveStates
<1> QED
  BY <1>10, <1>12, <1>13

\* Cancelling held tasks leaves the suspend tasks alone.
LEMMA CancelHeldKeepsSuspended ==
  ASSUME NEW js, tasks' = CancelHeld(js)
  PROVE  \A t \in SuspendIds : tasks'[t] = tasks[t]
BY IdentifierAssumption DEF CancelHeld, TaskIds

\* CancelRun ends the run, its active job and its open tasks, and no other.
LEMMA CancelRunStep ==
  ASSUME RunInv, NEW r \in RunIds, CancelRun(r)
  PROVE  \A q \in RunIds : RunStep(q)
<1>t. /\ runs \in [RunIds -> Run] /\ jobs \in [JobIds -> Job]
      /\ SuspendIds \subseteq TaskIds
  BY DEF RunInv, TypeOK, TaskIds
<1>1. runs[r].state \in ActiveStates \cup {"WAITING_HUMAN"}
  BY <1>t DEF CancelRun, RunExists, IsTerminal, Run, RunStates
<1>2. runs'[r].state = "CANCELED" /\ \A q \in RunIds : q # r => runs'[q] = runs[q]
  BY <1>t, RunInFields DEF CancelRun, CanceledRun, RunWith
<1>3. ASSUME NEW j \in JobIds
      PROVE  /\ jobs[j].run = r /\ jobs[j].state \in {"queued", "running"} =>
                  jobs'[j].run = r /\ jobs'[j].state = "failed"
             /\ ~(jobs[j].run = r /\ jobs[j].state \in {"queued", "running"}) =>
                  jobs'[j] = jobs[j]
  BY <1>t, StoppedJobFields DEF CancelRun, JobActive, JobWith
<1>4. ActiveJobs(r)' = {}
  BY <1>3 DEF ActiveJobs, JobActive
<1>5. RunStep(r)
  BY <1>1, <1>2, <1>4 DEF RunStep, ActiveStates
<1>6. ASSUME NEW q \in RunIds, q # r PROVE RunStep(q)
  <2>1. ActiveJobs(q)' = ActiveJobs(q)
    BY <1>3, <1>6 DEF ActiveJobs, JobActive
  <2>2. TasksStayOpen(q)
    BY <1>t, <1>6 DEF TasksStayOpen, Pending, CancelRun, EndTasksOfRun
  <2> QED
    BY <1>2, <1>6, <2>1, <2>2 DEF RunStep
<1> QED
  BY <1>5, <1>6

\* PruneSettledJobs takes settled runs with all their jobs and tasks.
LEMMA PruneRunStep ==
  ASSUME RunInv, PruneSettledJobs
  PROVE  \A q \in RunIds : RunStep(q)
<1> DEFINE gone == {r \in RunIds : Prunable(r)}
<1>t. /\ runs \in [RunIds -> Run] /\ jobs \in [JobIds -> Job]
      /\ SuspendIds \subseteq TaskIds /\ NoRun \notin RunIds
  BY IdentifierAssumption DEF RunInv, TypeOK, TaskIds
<1>1. /\ runs' = [r \in RunIds |-> IF r \in gone THEN AbsentRun ELSE runs[r]]
      /\ jobs' = [j \in JobIds |-> IF jobs[j].run \in gone THEN DeletedJob ELSE jobs[j]]
      /\ tasks' = [t \in TaskIds |->
                     IF tasks[t].run \in gone THEN DeletedTask ELSE tasks[t]]
  BY DEF PruneSettledJobs, PrunedTasks
<1>2. \A q \in gone : runs[q].state \in TerminalStates
  BY DEF Prunable, IsTerminal
<1> HIDE DEF gone
<1>3. /\ DeletedJob.run = NoRun /\ DeletedJob.state = "deleted"
      /\ DeletedTask.run = NoRun /\ AbsentRun.state = "absent"
  BY DeletedJobFields, DeletedTaskFields DEF JobWith, TaskWith, AbsentRun
<1>4. ASSUME NEW q \in RunIds, q \in gone PROVE RunStep(q)
  <2>1. runs'[q].state = "absent"
    BY <1>1, <1>3, <1>4
  <2>2. \A j \in JobIds : jobs'[j].run # q
    BY <1>t, <1>1, <1>3, <1>4
  <2>3. \A t \in TaskIds : tasks'[t].run # q
    BY <1>t, <1>1, <1>3, <1>4
  <2> QED
    BY <1>2, <1>4, <2>1, <2>2, <2>3 DEF RunStep
<1>5. ASSUME NEW q \in RunIds, q \notin gone PROVE RunStep(q)
  <2>1. runs'[q] = runs[q]
    BY <1>1, <1>5
  <2>2. \A j \in JobIds : IF jobs[j].run \in gone
                          THEN jobs'[j].run = NoRun ELSE jobs'[j] = jobs[j]
    BY <1>1, <1>3
  <2>3. ActiveJobs(q)' = ActiveJobs(q)
    BY <1>t, <1>5, <2>2 DEF ActiveJobs, JobActive
  <2>4. TasksStayOpen(q)
    BY <1>t, <1>1, <1>5 DEF TasksStayOpen, Pending
  <2> QED
    BY <2>1, <2>3, <2>4 DEF RunStep
<1> QED
  BY <1>4, <1>5

\* ExpireStuckJobs ends stuck runs with their active jobs.
LEMMA ExpireRunStep ==
  ASSUME RunInv, ExpireStuckJobs
  PROVE  \A q \in RunIds : RunStep(q)
<1> DEFINE stuck == {r \in RunIds : Stuck(r)}
           dead == {j \in JobIds : jobs[j].run \in stuck /\ JobActive(j)}
<1>t. runs \in [RunIds -> Run] /\ jobs \in [JobIds -> Job]
  BY DEF RunInv, TypeOK
<1>1. /\ runs' = [r \in RunIds |->
                    IF r \in stuck THEN RunIn(runs[r], "EXPIRED") ELSE runs[r]]
      /\ jobs' = [j \in JobIds |-> IF j \in dead THEN ExpiredJob(jobs[j]) ELSE jobs[j]]
      /\ tasks' = CancelHeld(dead)
  BY DEF ExpireStuckJobs
<1>2. \A q \in stuck : runs[q].state \in ActiveStates
  BY DEF Stuck
<1> HIDE DEF stuck
<1>3. ASSUME NEW j \in JobIds
      PROVE  /\ jobs'[j].run = jobs[j].run
             /\ jobs[j].run \in stuck /\ jobs[j].state \in {"queued", "running"} =>
                  jobs'[j].state = "failed"
             /\ jobs[j].run \notin stuck \/ jobs[j].state \notin {"queued", "running"} =>
                  jobs'[j].state = jobs[j].state
  BY <1>t, <1>1, ExpiredJobFields DEF JobWith, JobActive
<1>4. \A t \in SuspendIds : tasks'[t] = tasks[t]
  BY <1>1, CancelHeldKeepsSuspended
<1>5. ASSUME NEW q \in RunIds, q \in stuck PROVE RunStep(q)
  <2>1. runs'[q].state = "EXPIRED"
    BY <1>t, <1>1, <1>5, RunInFields DEF RunWith
  <2>2. ActiveJobs(q)' = {}
    BY <1>3, <1>5 DEF ActiveJobs, JobActive
  <2> QED
    BY <1>2, <1>5, <2>1, <2>2 DEF RunStep
<1>6. ASSUME NEW q \in RunIds, q \notin stuck PROVE RunStep(q)
  <2>1. runs'[q] = runs[q]
    BY <1>1, <1>6
  <2>2. ActiveJobs(q)' = ActiveJobs(q)
    BY <1>3, <1>6 DEF ActiveJobs, JobActive
  <2>3. TasksStayOpen(q)
    BY <1>4 DEF TasksStayOpen, Pending
  <2> QED
    BY <2>1, <2>2, <2>3 DEF RunStep
<1> QED
  BY <1>5, <1>6

\* Resuming a task starts the run that waits for it, and no other.
LEMMA ResumeRunStep ==
  ASSUME RunInv, NEW t \in TaskIds, NEW j \in JobIds, ResumeHumanTask(t, j)
  PROVE  \A q \in RunIds : RunStep(q)
<1>1. PICK r \in RunIds : r = tasks[t].run
  BY DEF ResumeHumanTask
<1>2. /\ runs[r].state = "WAITING_HUMAN" /\ jobs[j].state = "absent"
      /\ runs' = [runs EXCEPT ![r] = [state |-> "RESUMING", task |-> NoTask, age |-> 0]]
      /\ jobs' = [jobs EXCEPT ![j] = NewActionJob(r)]
      /\ tasks' = [tasks EXCEPT ![t] = EndedTask(tasks[t], "completed")]
  BY <1>1 DEF ResumeHumanTask
<1>3. tasks \in [TaskIds -> Task] /\ SuspendIds \subseteq TaskIds
  BY DEF RunInv, TypeOK, TaskIds
<1>4. \A q \in RunIds : q # r => TasksStayOpen(q)
  BY <1>1, <1>2, <1>3 DEF TasksStayOpen, Pending
<1> QED
  BY <1>2, <1>4, StartStep

\* The clock changes no state and no relation between records.
LEMMA TickRunStep ==
  ASSUME RunInv, Tick, NEW q \in RunIds
  PROVE  RunStep(q)
<1>t. /\ runs \in [RunIds -> Run] /\ jobs \in [JobIds -> Job] /\ tasks \in [TaskIds -> Task]
      /\ SuspendIds \subseteq TaskIds
  BY DEF RunInv, TypeOK, TaskIds
<1>1. runs'[q].state = runs[q].state /\ runs'[q].task = runs[q].task
  BY <1>t DEF Tick, Run
<1>2. \A j \in JobIds : jobs'[j].run = jobs[j].run /\ jobs'[j].state = jobs[j].state
  BY <1>t, AgedJobFields DEF Tick, JobWith
<1>3. ASSUME NEW t \in TaskIds
      PROVE  tasks'[t].run = tasks[t].run /\ tasks'[t].state = tasks[t].state
  BY <1>t DEF Tick, Task
<1>4. TasksStayOpen(q)
  BY <1>t, <1>3 DEF TasksStayOpen, Pending
<1> QED
  BY <1>1, <1>2, <1>4, QuietStep DEF JobActive

\* Every step of the system moves every run in one of the ways of RunStep.
LEMMA RunSteps ==
  ASSUME RunInv, Next
  PROVE  \A q \in RunIds : RunStep(q)
<1> DEFINE Goal == \A q \in RunIds : RunStep(q)
<1>t. /\ runs \in [RunIds -> Run] /\ jobs \in [JobIds -> Job] /\ tasks \in [TaskIds -> Task]
      /\ \A l \in leases : l.job \in JobIds
      /\ SuspendIds \subseteq TaskIds /\ SuspendIds \cap HoldIds = {}
  BY IdentifierAssumption DEF RunInv, TypeOK, Lease, TaskIds
<1>q. ASSUME UNCHANGED runs, \A t \in SuspendIds : tasks'[t] = tasks[t],
             \A j \in JobIds : jobs'[j].run = jobs[j].run /\ jobs'[j].state = jobs[j].state
      PROVE  Goal
  <2>1. \A q \in RunIds : TasksStayOpen(q)
    BY <1>q DEF TasksStayOpen, Pending
  <2> QED
    BY <1>q, <2>1, QuietStep DEF JobActive
<1>1. ASSUME NEW w \in WorkerIds, NEW j \in JobIds, ClaimJob(w, j)
      PROVE  Goal
  BY <1>1, ClaimRunStep
<1>2. ASSUME NEW l \in leases, HeartbeatJob(l)
      PROVE  Goal
  <2>1. \A j \in JobIds : jobs'[j].run = jobs[j].run /\ jobs'[j].state = jobs[j].state
    BY <1>t, <1>2, RenewedJobFields DEF HeartbeatJob, JobWith
  <2> QED
    BY <1>2, <1>q, <2>1 DEF HeartbeatJob
<1>3. ASSUME NEW l \in leases, CompleteJobSucceeded(l)
      PROVE  Goal
  <2>1. \A t \in SuspendIds : tasks'[t] = tasks[t]
    BY <1>3, CancelHeldKeepsSuspended DEF CompleteJobSucceeded
  <2> QED
    BY <1>3, <2>1, CompleteCanceledStep, SettleStep DEF CompleteJobSucceeded
<1>4. ASSUME NEW l \in leases, CompleteJobFailed(l)
      PROVE  Goal
  <2>1. \A t \in SuspendIds : tasks'[t] = tasks[t]
    BY <1>4, CancelHeldKeepsSuspended DEF CompleteJobFailed
  <2> QED
    BY <1>4, <2>1, CompleteCanceledStep, SettleStep DEF CompleteJobFailed
<1>5. ASSUME NEW l \in leases, NEW t \in SuspendIds, CompleteJobWaitingHuman(l, t)
      PROVE  Goal
  BY <1>5, CompleteCanceledStep, SuspendStep DEF CompleteJobWaitingHuman
<1>6. ASSUME NEW l \in leases, NEW k \in HoldKeys, NEW t \in HoldIds,
             CreateHeldHumanTask(l, k, t)
      PROVE  Goal
  BY <1>t, <1>6, <1>q DEF CreateHeldHumanTask
<1>7. ASSUME NEW r \in RunIds, NEW j \in JobIds, CreateRunAndEnqueue(r, j)
      PROVE  Goal
  <2>1. \A q \in RunIds : TasksStayOpen(q)
    BY <1>7 DEF CreateRunAndEnqueue, TasksStayOpen, Pending
  <2> QED
    BY <1>7, <2>1, StartStep DEF CreateRunAndEnqueue, RunExists
<1>8. ASSUME NEW r \in RunIds, NEW j \in JobIds, RetryRun(r, j)
      PROVE  Goal
  <2>1. \A q \in RunIds : TasksStayOpen(q)
    BY <1>8 DEF RetryRun, TasksStayOpen, Pending
  <2> QED
    BY <1>8, <2>1, StartStep DEF RetryRun
<1>9. ASSUME NEW r \in TrackedIds, ResolveAdmissionOutcome(r)
      PROVE  Goal
  BY <1>9, <1>q DEF ResolveAdmissionOutcome
<1>10. ASSUME NEW j \in JobIds, CancelJob(j)
       PROVE  Goal
  <2>1. CASE /\ jobs[j].state = "running" /\ UNCHANGED <<runs, tasks>>
             /\ jobs' = [jobs EXCEPT ![j] = SoftCanceledJob(@)]
    <3>1. \A i \in JobIds : jobs'[i].run = jobs[i].run /\ jobs'[i].state = jobs[i].state
      BY <1>t, <2>1, SoftCanceledJobFields DEF JobWith
    <3> QED
      BY <1>q, <2>1, <3>1
  <2>2. CASE /\ jobs[j].state = "queued" /\ UNCHANGED tasks
             /\ jobs' = [jobs EXCEPT ![j] = CanceledJob(@)]
             /\ runs' = [runs EXCEPT ![jobs[j].run] = CanceledRun(@)]
    <3>1. JobActive(j)
      BY <2>2 DEF JobActive
    <3>2. jobs[j].run \in RunIds /\ runs[jobs[j].run].state \in ActiveStates
      BY <3>1, RunFacts
    <3>3. /\ CanceledJob(jobs[j]).run = jobs[j].run
          /\ CanceledJob(jobs[j]).state = "failed"
      BY <1>t, CanceledJobFields DEF JobWith
    <3>4. /\ runs'[jobs[j].run].state = "CANCELED"
          /\ \A q \in RunIds : q # jobs[j].run => runs'[q] = runs[q]
      BY <1>t, <2>2, <3>2, RunInFields DEF CanceledRun, RunWith
    <3>5. /\ jobs' = [jobs EXCEPT ![j] = CanceledJob(jobs[j])]
          /\ \A t \in SuspendIds : tasks'[t] = tasks[t]
      BY <2>2
    <3> QED
      BY <3>1, <3>2, <3>3, <3>4, <3>5, EndStep
  <2> QED
    BY <1>10, <2>1, <2>2 DEF CancelJob
<1>11. ASSUME NEW js \in SUBSET JobIds, RequeueQueuedJobsForApp(js)
       PROVE  Goal
  <2>1. \A j \in JobIds : jobs'[j].run = jobs[j].run /\ jobs'[j].state = jobs[j].state
    BY <1>t, <1>11, RetaggedJobFields DEF RequeueQueuedJobsForApp, JobWith
  <2> QED
    BY <1>11, <1>q, <2>1 DEF RequeueQueuedJobsForApp
<1>12. ASSUME TaskNext PROVE Goal
  BY <1>12, TaskNextRunStep DEF RunInv
<1>13. ASSUME Tick PROVE Goal
  BY <1>13, TickRunStep
<1> HIDE DEF Goal
<1>14. CASE WorkerNext
  BY <1>14, <1>1, <1>2, <1>3, <1>4, <1>5, <1>6 DEF WorkerNext, Goal
<1>15. CASE CallerNext
  BY <1>15, <1>7, <1>8, <1>9, <1>10, <1>11, CancelRunStep, ResumeRunStep
    DEF CallerNext, Goal
<1> QED
  BY <1>12, <1>13, <1>14, <1>15, PruneRunStep, ExpireRunStep
    DEF Next, MaintenanceNext, Goal

-----------------------------------------------------------------------------
(* The steps of one human task *)

\* Everything that can happen to task t in one step.
TaskStep(t) ==
  LET old == tasks[t]
      new == tasks'[t]
  IN  \/ new.run = old.run /\ new.state = old.state
      \/ /\ old.state = "pending" /\ new.run = old.run
         /\ new.state \in TaskStates \ {"pending"}
      \/ /\ old.state = "absent" /\ new.state = "pending"
         /\ new.run \in RunIds /\ runs'[new.run].state # "absent"
      \/ old.run \in RunIds /\ new.run = NoRun /\ new.state = "deleted"

\* Every step of the system moves every task in one of the ways of TaskStep.
LEMMA TaskSteps ==
  ASSUME RunInv, Next
  PROVE  \A t \in TaskIds : TaskStep(t)
<1> DEFINE Goal == \A t \in TaskIds : TaskStep(t)
<1>t. /\ runs \in [RunIds -> Run] /\ jobs \in [JobIds -> Job] /\ tasks \in [TaskIds -> Task]
      /\ \A l \in leases : l.job \in JobIds
      /\ SuspendIds \subseteq TaskIds /\ HoldIds \subseteq TaskIds
  BY DEF RunInv, TypeOK, Lease, TaskIds
<1>e. ASSUME NEW t \in TaskIds, NEW state
      PROVE  /\ EndedTask(tasks[t], state).run = tasks[t].run
             /\ EndedTask(tasks[t], state).state = state
  BY <1>t, EndedTaskFields DEF TaskWith
<1>j. ASSUME NEW l \in leases, jobs[l.job].state = "running"
      PROVE  jobs[l.job].run \in RunIds /\ runs[jobs[l.job].run].state = "RUNNING"
  BY <1>t, <1>j, RunFacts DEF JobActive
<1>q. ASSUME UNCHANGED tasks PROVE Goal
  BY <1>q DEF TaskStep
<1>h. ASSUME NEW js, tasks' = CancelHeld(js) PROVE Goal
  BY <1>e, <1>h DEF CancelHeld, Pending, TaskStep, TaskStates
<1>1. ASSUME NEW l \in leases, NEW t \in SuspendIds, CompleteJobWaitingHuman(l, t)
      PROVE  Goal
  <2>1. CASE UNCHANGED tasks
    BY <1>q, <2>1
  <2>2. CASE /\ tasks[t].state = "absent"
             /\ SettleJob(l, "succeeded", "WAITING_HUMAN", t)
             /\ tasks' = [tasks EXCEPT ![t] = SuspendTask(jobs[l.job].run)]
    <3>1. jobs[l.job].run \in RunIds
      BY <1>1, <1>j DEF CompleteJobWaitingHuman, LeasedJobAndRun, OwnsJob
    <3>2. runs'[jobs[l.job].run].state = "WAITING_HUMAN"
      BY <1>t, <2>2, <3>1 DEF SettleJob
    <3>3. /\ tasks'[t].run = jobs[l.job].run /\ tasks'[t].state = "pending"
          /\ \A u \in TaskIds : u # t => tasks'[u] = tasks[u]
      BY <1>t, <2>2, SuspendTaskFields DEF TaskWith
    <3> QED
      BY <2>2, <3>1, <3>2, <3>3 DEF TaskStep
  <2> QED
    BY <1>1, <2>1, <2>2 DEF CompleteJobWaitingHuman
<1>2. ASSUME NEW l \in leases, NEW k \in HoldKeys, NEW t \in HoldIds,
             CreateHeldHumanTask(l, k, t)
      PROVE  Goal
  <2>1. jobs[l.job].run \in RunIds /\ runs'[jobs[l.job].run].state = "RUNNING"
    BY <1>2, <1>j DEF CreateHeldHumanTask, ActivelyLeased
  <2>2. /\ tasks'[t].run = jobs[l.job].run /\ tasks'[t].state = "pending"
        /\ \A u \in TaskIds : u # t => tasks'[u] = tasks[u]
        /\ tasks[t].state = "absent"
    BY <1>t, <1>2 DEF CreateHeldHumanTask
  <2> QED
    BY <2>1, <2>2 DEF TaskStep
<1>3. ASSUME NEW t \in TaskIds, NEW state \in TaskStates \ {"pending"}, Pending(t),
             tasks' = [tasks EXCEPT ![t] = EndedTask(@, state)]
      PROVE  Goal
  BY <1>t, <1>e, <1>3 DEF TaskStep, Pending
<1>4. ASSUME NEW t \in TaskIds, NEW j \in JobIds, ResumeHumanTask(t, j)
      PROVE  Goal
  BY <1>4, <1>3 DEF ResumeHumanTask, TaskStates
<1>5. ASSUME NEW r \in RunIds, CancelRun(r)
      PROVE  Goal
  BY <1>5, <1>e DEF CancelRun, EndTasksOfRun, Pending, TaskStep, TaskStates
<1>6. ASSUME NEW t \in HoldIds, DecideHeldHumanTask(t) \/ ExpireHeldHumanTask(t)
      PROVE  Goal
  BY <1>t, <1>6, <1>3 DEF DecideHeldHumanTask, ExpireHeldHumanTask, TaskStates
<1>7. ASSUME ExpireDueHeldHumanTasks
      PROVE  Goal
  BY <1>7, <1>e DEF ExpireDueHeldHumanTasks, Pending, TaskStep, TaskStates
<1>8. ASSUME PruneSettledJobs
      PROVE  Goal
  BY <1>8, DeletedTaskFields DEF PruneSettledJobs, PrunedTasks, TaskWith, TaskStep
<1>9. ASSUME ExpireStuckJobs
      PROVE  Goal
  BY <1>9, <1>h DEF ExpireStuckJobs
<1>10. ASSUME Tick
       PROVE  Goal
  <2>1. ASSUME NEW t \in TaskIds
        PROVE  tasks'[t].run = tasks[t].run /\ tasks'[t].state = tasks[t].state
    BY <1>t, <1>10 DEF Tick, Task
  <2> QED
    BY <2>1 DEF TaskStep
<1> HIDE DEF Goal
<1>11. CASE WorkerNext
  BY <1>11, <1>q, <1>h, <1>1, <1>2 DEF WorkerNext, ClaimJob, HeartbeatJob,
       CompleteJobSucceeded, CompleteJobFailed, Goal
<1>12. CASE CallerNext
  BY <1>12, <1>q, <1>4, <1>5 DEF CallerNext, CreateRunAndEnqueue, RetryRun,
       ResolveAdmissionOutcome, CancelJob, RequeueQueuedJobsForApp, Goal
<1>13. CASE TaskNext
  BY <1>13, <1>q, <1>h, <1>6, <1>7 DEF TaskNext, WaitForHumanTask,
       CancelHeldHumanTasksForJob, Goal
<1> QED
  BY <1>8, <1>9, <1>10, <1>11, <1>12, <1>13 DEF Next, MaintenanceNext, Goal

-----------------------------------------------------------------------------
(* The steps of one admission identity *)

\* Everything that can happen to the admission of run r in one step.
AdmissionStep(r) ==
  \/ /\ outcomes'[r] = outcomes[r]
     /\ runs[r].state = "absent" => runs'[r] = runs[r]
  \/ outcomes[r] = "none" /\ outcomes'[r] = "admitted" /\ runs'[r].state # "absent"
  \/ /\ outcomes[r] = "none" /\ outcomes'[r] = "aborted"
     /\ runs[r].state = "absent" /\ runs'[r] = runs[r]

\* Every step of the system moves every admission in one of these ways.
LEMMA AdmissionSteps ==
  ASSUME RunInv, Next
  PROVE  \A r \in TrackedIds : AdmissionStep(r)
<1> DEFINE Goal == \A r \in TrackedIds : AdmissionStep(r)
<1>t. /\ runs \in [RunIds -> Run] /\ TrackedIds \subseteq RunIds
      /\ outcomes \in [TrackedIds -> {"none", "admitted", "aborted"}]
  BY IdentifierAssumption DEF RunInv, TypeOK
<1>q. ASSUME UNCHANGED outcomes,
             \A r \in RunIds : runs[r].state = "absent" => runs'[r] = runs[r]
      PROVE  Goal
  BY <1>t, <1>q DEF AdmissionStep
<1>1. ASSUME NEW w \in WorkerIds, NEW j \in JobIds, ClaimJob(w, j)
      PROVE  Goal
  BY <1>1, <1>q, ClaimRunStep DEF ClaimJob
<1>2. ASSUME NEW l \in leases, LeasedJobAndRun(l), CompleteCanceled(l), UNCHANGED outcomes
      PROVE  Goal
  BY <1>t, <1>2, <1>q DEF LeasedJobAndRun, RunExists, CompleteCanceled
<1>3. ASSUME NEW l \in leases, NEW s, NEW u, NEW v, LeasedJobAndRun(l),
             SettleJob(l, s, u, v), UNCHANGED outcomes
      PROVE  Goal
  BY <1>t, <1>3, <1>q DEF LeasedJobAndRun, RunExists, SettleJob
<1>4. ASSUME NEW r \in RunIds, NEW j \in JobIds, CreateRunAndEnqueue(r, j)
      PROVE  Goal
  <2>1. /\ runs'[r].state = "QUEUED"
        /\ \A q \in RunIds : q # r => runs'[q] = runs[q]
    BY <1>t, <1>4 DEF CreateRunAndEnqueue
  <2>2. /\ r \in TrackedIds => outcomes[r] = "none" /\ outcomes'[r] = "admitted"
        /\ \A q \in TrackedIds : q # r => outcomes'[q] = outcomes[q]
    BY <1>t, <1>4 DEF CreateRunAndEnqueue, BindAdmissionOutcome
  <2> QED
    BY <1>t, <2>1, <2>2 DEF AdmissionStep
<1>5. ASSUME NEW r \in TrackedIds, ResolveAdmissionOutcome(r)
      PROVE  Goal
  BY <1>t, <1>5 DEF ResolveAdmissionOutcome, RunExists, AdmissionStep
<1>6. ASSUME NEW r \in RunIds, CancelRun(r) \/ \E j \in JobIds : RetryRun(r, j)
      PROVE  Goal
  BY <1>t, <1>6, <1>q DEF CancelRun, RetryRun, RunExists
<1>7. ASSUME NEW j \in JobIds, CancelJob(j) \/ \E t \in TaskIds : ResumeHumanTask(t, j)
      PROVE  Goal
  BY <1>t, <1>7, <1>q DEF CancelJob, ResumeHumanTask, RunExists
<1>8. ASSUME PruneSettledJobs \/ ExpireStuckJobs \/ Tick
      PROVE  Goal
  BY <1>t, <1>8, <1>q DEF PruneSettledJobs, Prunable, IsTerminal, TerminalStates,
       ExpireStuckJobs, Stuck, ActiveStates, Tick, RunExists
<1> HIDE DEF Goal
<1>9. CASE WorkerNext
  BY <1>9, <1>q, <1>1, <1>2, <1>3 DEF WorkerNext, HeartbeatJob, CompleteJobSucceeded,
       CompleteJobFailed, CompleteJobWaitingHuman, CreateHeldHumanTask, Goal
<1>10. CASE CallerNext
  BY <1>10, <1>q, <1>4, <1>5, <1>6, <1>7 DEF CallerNext, RequeueQueuedJobsForApp, Goal
<1>11. CASE TaskNext
  BY <1>11, <1>q DEF TaskNext, DecideHeldHumanTask, ExpireHeldHumanTask, WaitForHumanTask,
       CancelHeldHumanTasksForJob, ExpireDueHeldHumanTasks, Goal
<1> QED
  BY <1>8, <1>9, <1>10, <1>11 DEF Next, MaintenanceNext, Goal

-----------------------------------------------------------------------------
(* The invariant, part by part *)

\* A run stays without a job, or with one, as its state says.
LEMMA OneActiveJobNext ==
  ASSUME RunInv, Next
  PROVE  OneActiveJob'
<1> SUFFICES ASSUME NEW r \in RunIds
             PROVE  /\ \A i, j \in ActiveJobs(r)' : i = j
                    /\ runs'[r].state \in ActiveStates <=> ActiveJobs(r)' # {}
  BY DEF OneActiveJob
<1>1. /\ \A i, j \in ActiveJobs(r) : i = j
      /\ runs[r].state \in ActiveStates <=> ActiveJobs(r) # {}
  BY DEF RunInv, OneActiveJob
<1>2. (\A j \in JobIds : jobs'[j].run # r) => ActiveJobs(r)' = {}
  BY DEF ActiveJobs
<1>3. RunStep(r)
  BY RunSteps
<1> QED
  BY <1>1, <1>2, <1>3 DEF RunStep, ActiveStates, TerminalStates

\* Only a claim makes a job run that did not run before.
LEMMA OnlyClaimStarts ==
  ASSUME TypeOK, Next, NEW j \in JobIds,
         jobs[j].state # "running", jobs'[j].state = "running"
  PROVE  \E w \in WorkerIds : ClaimJob(w, j)
<1>t. /\ jobs \in [JobIds -> Job]
      /\ \A l \in leases : l.job \in JobIds
  BY DEF TypeOK, Lease
<1>f. ASSUME NEW k \in JobIds
      PROVE  /\ CanceledJob(jobs[k]).state = "failed"
             /\ RequeuedJob(jobs[k]).state = "queued"
             /\ RenewedJob(jobs[k]).state = jobs[k].state
             /\ \A s : SettledJob(jobs[k], s).state = s
             /\ SoftCanceledJob(jobs[k]).state = jobs[k].state
             /\ StoppedJob(jobs[k]).state = "failed"
             /\ ExpiredJob(jobs[k]).state = "failed"
             /\ RetaggedJob(jobs[k]).state = jobs[k].state
             /\ AgedJob(jobs[k]).state = jobs[k].state
  <2>1. jobs[k] \in Job
    BY <1>t
  <2>2. /\ CanceledJob(jobs[k]).state = "failed"
        /\ RequeuedJob(jobs[k]).state = "queued"
        /\ RenewedJob(jobs[k]).state = jobs[k].state
    BY <2>1, CanceledJobFields, RequeuedJobFields, RenewedJobFields DEF JobWith
  <2>3. \A s : SettledJob(jobs[k], s).state = s
    BY <2>1, SettledJobFields DEF JobWith
  <2>4. /\ SoftCanceledJob(jobs[k]).state = jobs[k].state
        /\ StoppedJob(jobs[k]).state = "failed"
        /\ ExpiredJob(jobs[k]).state = "failed"
    BY <2>1, SoftCanceledJobFields, StoppedJobFields, ExpiredJobFields DEF JobWith
  <2>5. /\ RetaggedJob(jobs[k]).state = jobs[k].state
        /\ AgedJob(jobs[k]).state = jobs[k].state
    BY <2>1, RetaggedJobFields, AgedJobFields DEF JobWith
  <2> QED
    BY <2>2, <2>3, <2>4, <2>5
<1>n. /\ \A r : NewActionJob(r).state = "queued"
      /\ DeletedJob.state = "deleted"
  BY NewActionJobFields, DeletedJobFields DEF JobWith
<1>1. ASSUME NEW w \in WorkerIds, NEW k \in JobIds, ClaimJob(w, k)
      PROVE  k = j
  BY <1>t, <1>f, <1>1 DEF ClaimJob, RequeueExpiredJobs, LeaseExpired
<1>2. ASSUME NEW l \in leases,
             \/ HeartbeatJob(l) \/ CompleteJobSucceeded(l) \/ CompleteJobFailed(l)
             \/ \E t \in SuspendIds : CompleteJobWaitingHuman(l, t)
             \/ \E k \in HoldKeys, t \in HoldIds : CreateHeldHumanTask(l, k, t)
      PROVE  FALSE
  <2>1. ASSUME HeartbeatJob(l) PROVE FALSE
    BY <1>t, <1>f, <2>1 DEF HeartbeatJob
  <2>2. ASSUME CompleteCanceled(l) PROVE FALSE
    BY <1>t, <1>f, <2>2 DEF CompleteCanceled
  <2>3. ASSUME NEW s \in {"succeeded", "failed"}, NEW u, NEW v, SettleJob(l, s, u, v)
        PROVE  FALSE
    BY <1>t, <1>f, <2>3 DEF SettleJob
  <2> QED
    BY <1>2, <2>1, <2>2, <2>3 DEF CompleteJobSucceeded, CompleteJobFailed,
         CompleteJobWaitingHuman, CreateHeldHumanTask
<1>3. ASSUME CallerNext PROVE FALSE
  BY <1>t, <1>f, <1>n, <1>3 DEF CallerNext, CancelRun, CreateRunAndEnqueue, RetryRun,
       ResolveAdmissionOutcome, CancelJob, ResumeHumanTask, RequeueQueuedJobsForApp
<1>4. ASSUME TaskNext PROVE FALSE
  BY <1>4 DEF TaskNext, DecideHeldHumanTask, ExpireHeldHumanTask, WaitForHumanTask,
       CancelHeldHumanTasksForJob, ExpireDueHeldHumanTasks
<1>5. ASSUME PruneSettledJobs \/ ExpireStuckJobs \/ Tick PROVE FALSE
  BY <1>t, <1>f, <1>n, <1>5 DEF PruneSettledJobs, ExpireStuckJobs, Tick
<1> QED
  BY <1>1, <1>2, <1>3, <1>4, <1>5 DEF Next, WorkerNext, MaintenanceNext

\* The run of a running job says that it runs.
LEMMA RunFollowsJobNext ==
  ASSUME RunInv, Next
  PROVE  RunFollowsJob'
<1> SUFFICES ASSUME NEW j \in JobIds, jobs'[j].state = "running"
             PROVE  runs'[jobs'[j].run].state = "RUNNING"
  BY DEF RunFollowsJob
<1>1. CASE jobs[j].state = "running"
  <2>1. PICK r \in RunIds : r = jobs[j].run
    BY <1>1, RunFacts DEF JobActive
  <2>2. runs[r].state = "RUNNING"
    BY <1>1, <2>1 DEF RunInv, RunFollowsJob
  <2>3. jobs'[j].run = r
    BY <1>1, <2>1, JobSteps, JobStepFields DEF RunInv
  <2>4. j \in ActiveJobs(r)'
    BY <2>3 DEF ActiveJobs, JobActive
  <2>5. RunStep(r)
    BY RunSteps
  <2> QED
    BY <1>1, <2>2, <2>3, <2>4, <2>5 DEF RunStep, TerminalStates
<1>2. CASE jobs[j].state # "running"
  <2>1. PICK w \in WorkerIds : ClaimJob(w, j)
    BY <1>2, OnlyClaimStarts DEF RunInv
  <2>2. jobs'[j].run = jobs[j].run
    BY <2>1, ClaimedJobState DEF RunInv
  <2> QED
    BY <2>1, <2>2, ClaimRunStep
<1> QED
  BY <1>1, <1>2

\* A suspended run keeps the task it waits for.
LEMMA SuspendedNext ==
  ASSUME RunInv, Next
  PROVE  SuspendedRunHasItsTask'
<1> SUFFICES ASSUME NEW r \in RunIds, runs'[r].state = "WAITING_HUMAN"
             PROVE  \E t \in SuspendIds : /\ runs'[r].task = t
                                          /\ tasks'[t].state = "pending"
                                          /\ tasks'[t].run = r
  BY DEF SuspendedRunHasItsTask, Pending
<1>1. RunStep(r)
  BY RunSteps
<1>2. CASE /\ runs[r].state = "WAITING_HUMAN" /\ runs'[r].task = runs[r].task
           /\ TasksStayOpen(r)
  BY <1>2 DEF RunInv, SuspendedRunHasItsTask, TasksStayOpen, Pending
<1>3. CASE AwaitsTask(r)'
  BY <1>3 DEF AwaitsTask, Pending
<1> QED
  BY <1>1, <1>2, <1>3 DEF RunStep

\* A job or task that is there has its run, one that is not has none.
LEMMA OrphansNext ==
  ASSUME RunInv, Next
  PROVE  NoOrphans' /\ AbsentHasNoRun'
<1>r. ASSUME NEW r \in RunIds, runs[r].state # "absent", runs'[r].state = "absent"
      PROVE  /\ \A j \in JobIds : jobs'[j].run # r
             /\ \A t \in TaskIds : tasks'[t].run # r
  <2>1. RunStep(r)
    BY RunSteps
  <2> QED
    BY <1>r, <2>1 DEF RunStep
<1>1. ASSUME NEW j \in JobIds
      PROVE  /\ jobs'[j].state \in JobStates =>
                  jobs'[j].run \in RunIds /\ runs'[jobs'[j].run].state # "absent"
             /\ jobs'[j].state \notin JobStates => jobs'[j].run = NoRun
  <2>1. /\ jobs[j].state \in JobStates =>
             jobs[j].run \in RunIds /\ runs[jobs[j].run].state # "absent"
        /\ jobs[j].state \notin JobStates => jobs[j].run = NoRun
        /\ jobs[j].state \in JobStates \cup {"absent", "deleted"}
    BY DEF RunInv, NoOrphans, AbsentHasNoRun, JobExists, RunExists, TypeOK, Job
  <2>2. \/ jobs[j].state \in JobStates /\ jobs'[j].run = jobs[j].run
             /\ jobs'[j].state \in JobStates
        \/ jobs[j].state \notin JobStates /\ jobs'[j] = jobs[j]
        \/ jobs'[j].run \in RunIds /\ jobs'[j].state = "queued"
        \/ jobs'[j].run = NoRun /\ jobs'[j].state = "deleted"
    BY <2>1, JobSteps, JobStepFields DEF RunInv, JobStates
  <2>3. ASSUME jobs'[j].run \in RunIds, jobs'[j].state = "queued"
        PROVE  runs'[jobs'[j].run].state # "absent"
    <3>1. PICK r \in RunIds : r = jobs'[j].run
      BY <2>3
    <3>2. j \in ActiveJobs(r)'
      BY <2>3, <3>1 DEF ActiveJobs, JobActive
    <3>3. runs'[r].state \in ActiveStates
      BY <3>2, OneActiveJobNext DEF OneActiveJob
    <3> QED
      BY <3>1, <3>3 DEF ActiveStates
  <2> QED
    BY <1>r, <2>1, <2>2, <2>3 DEF JobStates
<1>2. ASSUME NEW t \in TaskIds
      PROVE  /\ tasks'[t].state \in TaskStates =>
                  tasks'[t].run \in RunIds /\ runs'[tasks'[t].run].state # "absent"
             /\ tasks'[t].state \in {"absent", "deleted"} => tasks'[t].run = NoRun
  <2>1. /\ tasks[t].state \in TaskStates =>
             tasks[t].run \in RunIds /\ runs[tasks[t].run].state # "absent"
        /\ tasks[t].state \in {"absent", "deleted"} => tasks[t].run = NoRun
    BY DEF RunInv, NoOrphans, AbsentHasNoRun, RunExists
  <2>2. TaskStep(t)
    BY TaskSteps
  <2> QED
    BY <1>r, <2>1, <2>2 DEF TaskStep, TaskStates
<1> QED
  BY <1>1, <1>2 DEF NoOrphans, AbsentHasNoRun, JobExists, RunExists

\* The outcome of an admission agrees with what became of its run.
LEMMA AdmissionNext ==
  ASSUME RunInv, AdmissionFence, Next
  PROVE  AdmissionFence'
<1>1. ASSUME NEW r \in TrackedIds
      PROVE  /\ outcomes'[r] = "aborted" => runs'[r].state = "absent"
             /\ runs'[r].state # "absent" => outcomes'[r] = "admitted"
  <2>1. /\ outcomes[r] = "aborted" => runs[r].state = "absent"
        /\ runs[r].state # "absent" => outcomes[r] = "admitted"
    BY DEF AdmissionFence, RunExists
  <2>2. AdmissionStep(r)
    BY AdmissionSteps
  <2> QED
    BY <2>1, <2>2 DEF AdmissionStep
<1> QED
  BY <1>1 DEF AdmissionFence, RunExists

\* Every step of the system preserves the inductive invariant.
LEMMA IndInvNext == IndInv /\ Next => IndInv'
<1> SUFFICES ASSUME IndInv, Next PROVE IndInv'
  OBVIOUS
<1>1. RunInv /\ CanceledJobNeverRuns /\ LeaseAge /\ LeaseHistory /\ AdmissionFence /\ TypeOK
  BY DEF IndInv, RunInv
<1>2. TypeOK' /\ CanceledJobNeverRuns' /\ LeaseAge' /\ LeaseHistory'
  BY <1>1, TypeNext, CanceledJobNext, LeaseAgeNext, LeaseHistoryNext
<1>3. /\ OneActiveJob' /\ RunFollowsJob' /\ SuspendedRunHasItsTask'
      /\ NoOrphans' /\ AbsentHasNoRun' /\ AdmissionFence'
  BY <1>1, OneActiveJobNext, RunFollowsJobNext, SuspendedNext, OrphansNext, AdmissionNext
<1> QED
  BY <1>2, <1>3 DEF IndInv

\* The empty store satisfies the inductive invariant.
LEMMA IndInvInit == Init => IndInv
<1> SUFFICES ASSUME Init PROVE IndInv
  OBVIOUS
<1>1. TypeOK
  BY TypeInit
<1>2. /\ \A r \in RunIds : runs[r].state = "absent"
      /\ \A j \in JobIds : jobs[j].run = NoRun /\ jobs[j].state = "absent" /\ ~jobs[j].canceled
      /\ \A t \in TaskIds : tasks[t].run = NoRun /\ tasks[t].state = "absent"
      /\ \A r \in TrackedIds : outcomes[r] = "none"
      /\ leases = {} /\ TrackedIds \subseteq RunIds
  BY IdentifierAssumption DEF Init, AbsentRun, AbsentJob, AbsentTask
<1>3. AbsentHasNoRun /\ NoOrphans /\ RunFollowsJob /\ CanceledJobNeverRuns
  BY <1>2 DEF AbsentHasNoRun, NoOrphans, RunFollowsJob, CanceledJobNeverRuns, JobExists,
       JobStates, TaskStates
<1>4. OneActiveJob
  BY <1>2 DEF OneActiveJob, ActiveJobs, JobActive, ActiveStates
<1>5. LeaseHistory /\ LeaseAge /\ SuspendedRunHasItsTask /\ AdmissionFence
  BY <1>2 DEF LeaseHistory, LeaseAge, SuspendedRunHasItsTask, AdmissionFence, RunExists
<1> QED
  BY <1>1, <1>3, <1>4, <1>5 DEF IndInv

-----------------------------------------------------------------------------
(* The theorems *)

\* The store's records agree in every reachable state: the conjunction of all the
\* relations between runs, jobs, tasks, leases and outcomes that the operations
\* rely on is inductive.
THEOREM IndInvHolds == Spec => []IndInv
<1>1. IndInv /\ UNCHANGED vars => IndInv'
  BY DEF IndInv, vars, TypeOK, AbsentHasNoRun, NoOrphans, OneActiveJob, ActiveJobs,
       RunFollowsJob, CanceledJobNeverRuns, LeaseHistory, LeaseAge,
       SuspendedRunHasItsTask, AdmissionFence, JobExists, RunExists, JobActive, Pending
<1>2. IndInv /\ [Next]_vars => IndInv'
  BY <1>1, IndInvNext
<1> QED
  BY <1>2, IndInvInit, PTL DEF Spec

\* Whatever mix of completions, cancellations, retries, resumes and expiries ran,
\* a run that waits for execution has exactly one job and no other run has any.
THEOREM OneActiveJobHolds == Spec => []OneActiveJob
<1>1. IndInv => OneActiveJob
  BY DEF IndInv
<1> QED
  BY <1>1, IndInvHolds, PTL

\* PruneSettledJobs and the other operations never leave a job or a task without
\* its run.
THEOREM NoOrphansHolds == Spec => []NoOrphans
<1>1. IndInv => NoOrphans
  BY DEF IndInv
<1> QED
  BY <1>1, IndInvHolds, PTL

\* A run that CompleteJobWaitingHuman suspended can be resumed: the task it waits
\* for is its own and still pending.
THEOREM SuspendedRunHasItsTaskHolds == Spec => []SuspendedRunHasItsTask
<1>1. IndInv => SuspendedRunHasItsTask
  BY DEF IndInv
<1> QED
  BY <1>1, IndInvHolds, PTL

\* An identity that ResolveAdmissionOutcome aborted never has a run, and one with
\* a run is recorded as admitted.
THEOREM AdmissionFenceHolds == Spec => []AdmissionFence
<1>1. IndInv => AdmissionFence
  BY DEF IndInv
<1> QED
  BY <1>1, IndInvHolds, PTL

\* An admission outcome is never rewritten, and an identity that has one is never
\* admitted again, not even after retention removed its run.
THEOREM OutcomeIsFinalHolds == Spec => OutcomeIsFinal
<1> DEFINE A == \A r \in TrackedIds :
                  outcomes[r] # "none" => /\ outcomes'[r] = outcomes[r]
                                          /\ ~RunExists(r) => runs'[r] = runs[r]
<1>1. IndInv /\ Next => A
  <2> SUFFICES ASSUME IndInv, Next, NEW r \in TrackedIds, outcomes[r] # "none"
               PROVE  /\ outcomes'[r] = outcomes[r]
                      /\ ~RunExists(r) => runs'[r] = runs[r]
    OBVIOUS
  <2>1. AdmissionStep(r)
    BY AdmissionSteps DEF IndInv, RunInv
  <2> QED
    BY <2>1 DEF AdmissionStep, RunExists
<1>2. IndInv /\ [Next]_vars => [A]_vars
  BY <1>1
<1> QED
  BY <1>2, IndInvHolds, PTL DEF Spec, OutcomeIsFinal

\* Decision, deadline, resume, cancellation and worker loss never overwrite one
\* another on a human task: the first of them stays.
THEOREM FirstTerminalWriterWinsHolds == Spec => FirstTerminalWriterWins
<1> DEFINE A == \A t \in TaskIds :
                  tasks[t].state \in TaskStates \ {"pending"} =>
                    tasks'[t].state \in {tasks[t].state, "deleted"}
<1>1. IndInv /\ Next => A
  <2> SUFFICES ASSUME IndInv, Next, NEW t \in TaskIds,
                      tasks[t].state \in TaskStates \ {"pending"}
               PROVE  tasks'[t].state \in {tasks[t].state, "deleted"}
    OBVIOUS
  <2>1. TaskStep(t)
    BY TaskSteps DEF IndInv, RunInv
  <2> QED
    BY <2>1 DEF TaskStep, TaskStates
<1>2. IndInv /\ [Next]_vars => [A]_vars
  BY <1>1
<1> QED
  BY <1>2, IndInvHolds, PTL DEF Spec, FirstTerminalWriterWins

\* The store implements the run lifecycle: every transaction moves each run along
\* one edge of RunLifecycle or leaves it where it is.
THEOREM FollowsLifecycleHolds == Spec => FollowsLifecycle
<1> DEFINE phase == [r \in RunIds |-> runs[r].state]
<1>1. Init => Lifecycle!Init
  BY DEF Init, AbsentRun, Lifecycle!Init
<1>2. IndInv /\ Next => Lifecycle!Next
  <2> SUFFICES ASSUME IndInv, Next, NEW r \in RunIds
               PROVE  \/ runs'[r].state = runs[r].state
                      \/ <<runs[r].state, runs'[r].state>> \in Lifecycle!Edges
    BY DEF Lifecycle!Next
  <2>1. RunStep(r)
    BY RunSteps DEF IndInv, RunInv
  <2> QED
    BY <2>1 DEF RunStep, Lifecycle!Edges, ActiveStates, TerminalStates
<1>3. UNCHANGED vars => UNCHANGED phase
  BY DEF vars
<1>4. IndInv /\ [Next]_vars => [Lifecycle!Next]_phase
  BY <1>2, <1>3
<1> QED
  BY <1>1, <1>4, IndInvHolds, PTL DEF Spec, FollowsLifecycle, Lifecycle!Spec
=============================================================================
