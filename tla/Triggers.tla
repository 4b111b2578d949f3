------------------------------- MODULE Triggers -------------------------------
(***************************************************************************)
(* One trigger and its events: the servers' trigger managers run an        *)
(* adapter for the trigger's definition; a message of the source (RabbitMQ *)
(* here; the sender of a webhook that repeats what was not answered acts   *)
(* alike) is handed to an adapter, admitted as a run, recorded as a        *)
(* TriggerDelivery and acknowledged; when the run has ended, completion    *)
(* dispatchers send its result by the policy pinned to the delivery.       *)
(*                                                                         *)
(* The identity of the run is derived from the trigger and the delivery    *)
(* identifier, so a message has at most one run; its fingerprint covers    *)
(* the target.  Callback and publish completions differ only in how they   *)
(* are sent.  Times are due or not, leases have run out or not.            *)
(***************************************************************************)
EXTENDS Integers, FiniteSets

CONSTANTS
  Messages,         \* messages of the source, each with its delivery identifier
  Servers,          \* server processes, each with one consumer of the queue
  Answerers,        \* completion dispatchers
  Targets,          \* actions the trigger may be pointed at
  Policies,         \* completion policies the trigger may be given
  AdmissionFaults,  \* what may go wrong: "unavailable", "refused"
  MaxCallbacks,     \* MaxAttempts of the completion dispatcher
  MaxAnswers,       \* bound on the attempts of a completion, lost ones included
  MaxEdits,         \* bound on the edits of the trigger
  MaxRedeliveries   \* bound on the losses of a consumer

ASSUME TriggersAssumption ==
  /\ "none" \notin Targets
  /\ Policies \subseteq {"none", "poll", "callback"}
  /\ AdmissionFaults \subseteq {"unavailable", "refused"}
  /\ {MaxCallbacks, MaxAnswers, MaxEdits, MaxRedeliveries} \subseteq Nat

VARIABLES
  trigger,     \* the stored definition
  adapter,     \* per server: the definition its adapter runs, or NoAdapter
  source,      \* per message: "queued", "out" (unacknowledged) or "gone"
  consumer,    \* per server: the message it handles
  triggerRun,  \* per message: its run
  record,      \* TriggerDeliveries
  answerer,    \* per completion dispatcher: the lease it holds
  refused,     \* history: the messages an admission refused for good
  losses       \* consumers lost so far

triggerVars ==
  <<trigger, adapter, source, consumer, triggerRun, record, answerer, refused, losses>>

-----------------------------------------------------------------------------
NoAdapter == [version |-> 0]
NoRun == [target |-> "none", ended |-> FALSE]
\* accepted is history: the event was once recorded as admitted.
NoRecord == [state |-> "absent", accepted |-> FALSE, policy |-> "none",
             completion |-> "waiting", attempt |-> 0, due |-> FALSE, lapsed |-> FALSE]
Waiting == [phase |-> "idle"]

SettledCompletion == {"ignored", "available", "succeeded", "failed"}

TriggersInit ==
  /\ trigger \in [version : {1}, target : Targets, policy : Policies,
                  enabled : BOOLEAN, deleted : {FALSE}]
  /\ adapter = [v \in Servers |-> NoAdapter]
  /\ source = [m \in Messages |-> "queued"]
  /\ consumer = [v \in Servers |-> Waiting]
  /\ triggerRun = [m \in Messages |-> NoRun]
  /\ record = [m \in Messages |-> NoRecord]
  /\ answerer = [p \in Answerers |-> Waiting]
  /\ refused = {}
  /\ losses = 0

-----------------------------------------------------------------------------
(* Operators *)

UpdateTrigger(target, policy) ==
  /\ ~trigger.deleted /\ trigger.version <= MaxEdits
  /\ trigger' = [trigger EXCEPT !.version = @ + 1, !.target = target, !.policy = policy]
  /\ UNCHANGED <<adapter, source, consumer, triggerRun, record, answerer, refused, losses>>

SetTriggerEnabled(enabled) ==
  /\ ~trigger.deleted /\ trigger.version <= MaxEdits
  /\ trigger' = [trigger EXCEPT !.version = @ + 1, !.enabled = enabled]
  /\ UNCHANGED <<adapter, source, consumer, triggerRun, record, answerer, refused, losses>>

DeleteTrigger ==
  /\ ~trigger.deleted
  /\ trigger' = [trigger EXCEPT !.version = @ + 1, !.enabled = FALSE, !.deleted = TRUE]
  /\ UNCHANGED <<adapter, source, consumer, triggerRun, record, answerer, refused, losses>>

\* The manager stops an adapter whose definition is gone, disabled or changed,
\* waiting for the message it handles, and starts the one that is wanted.
Reconcile(v) ==
  LET wanted == IF trigger.enabled
                THEN [version |-> trigger.version, target |-> trigger.target,
                      policy |-> trigger.policy]
                ELSE NoAdapter
  IN  /\ adapter[v].version # wanted.version
      /\ consumer[v] = Waiting
      /\ adapter' = [adapter EXCEPT ![v] = wanted]
      /\ UNCHANGED <<trigger, source, consumer, triggerRun, record, answerer, refused, losses>>

-----------------------------------------------------------------------------
(* An event: received, submitted, recorded, acknowledged *)

ReceiveMessage(v, m) ==
  /\ adapter[v] # NoAdapter
  /\ consumer[v] = Waiting
  /\ source[m] = "queued"
  /\ source' = [source EXCEPT ![m] = "out"]
  /\ consumer' = [consumer EXCEPT ![v] = [phase |-> "received", message |-> m, mine |-> TRUE]]
  /\ UNCHANGED <<trigger, adapter, triggerRun, record, answerer, refused, losses>>

\* CreateRun, as far as a trigger can tell: the run of an earlier delivery is
\* found first and replayed if the request is the same; a new one may be
\* refused for good or fail for now.
CreateRun(v, outcome) ==
  LET m == consumer[v].message
      found == triggerRun[m] # NoRun
  IN  /\ \/ outcome = "retryable" /\ "unavailable" \in AdmissionFaults
         \/ outcome = "terminal" /\ \/ ~found /\ "refused" \in AdmissionFaults
                                    \/ found /\ triggerRun[m].target # adapter[v].target
         \/ outcome = "admitted" /\ (found => triggerRun[m].target = adapter[v].target)
      /\ triggerRun' = IF outcome = "admitted" /\ ~found
                       THEN [triggerRun EXCEPT ![m].target = adapter[v].target]
                       ELSE triggerRun

Submit(v, outcome) ==
  /\ consumer[v].phase = "received"
  /\ CreateRun(v, outcome)
  /\ consumer' = [consumer EXCEPT ![v] = [phase |-> "submitted", message |-> @.message,
                                          mine |-> @.mine, result |-> outcome]]
  /\ refused' = IF outcome = "terminal" THEN refused \cup {consumer[v].message} ELSE refused
  /\ UNCHANGED <<trigger, adapter, source, record, answerer, losses>>

InitialTriggerCompletionState(policy) == IF policy = "none" THEN "ignored" ELSE "waiting"

\* Mutant: the completion starts again with every record.
UpsertFreshDelivery(m, result, policy) ==
  [record EXCEPT ![m] =
     [NoRecord EXCEPT !.state = result, !.policy = policy,
                      !.accepted = record[m].accepted \/ result = "admitted",
                      !.completion = InitialTriggerCompletionState(policy)]]

\* What the store makes of the record of a message: the policy and the
\* completion of an existing one are kept, the state and the run are
\* not: a record that is not admitted has no run.
UpsertTriggerDelivery(m, result, policy) ==
  [record EXCEPT ![m] =
     IF @ = NoRecord
     THEN [NoRecord EXCEPT !.state = result, !.accepted = (result = "admitted"),
                           !.policy = policy,
                           !.completion = InitialTriggerCompletionState(policy)]
     ELSE [@ EXCEPT !.state = result,
                    !.accepted = record[m].accepted \/ result = "admitted"]]

\* An admitted event that cannot be recorded is to be delivered again; the
\* failure of a submission outweighs the failure to record it.
RecordDelivery(v, stored) ==
  LET m == consumer[v].message
      result == consumer[v].result
  IN  /\ consumer[v].phase = "submitted"
      /\ stored \/ "unavailable" \in AdmissionFaults
      /\ record' = IF stored THEN UpsertTriggerDelivery(m, result, adapter[v].policy) ELSE record
      /\ consumer' = [consumer EXCEPT ![v] = [@ EXCEPT !.phase = "recorded",
           !.result = IF stored \/ result # "admitted" THEN result ELSE "retryable"]]
      /\ UNCHANGED <<trigger, adapter, source, triggerRun, answerer, refused, losses>>

\* Mutant: what failed for now is not requeued either.
NeverRequeued(result) == FALSE

\* Nack with requeue, rather than Ack or Reject.
Requeued(result) == result = "retryable"

\* Ack, Nack with requeue, or Reject.  The broker ignores a consumer it has
\* lost.
Acknowledge(v) ==
  /\ consumer[v].phase = "recorded"
  /\ source' = IF ~consumer[v].mine THEN source
               ELSE [source EXCEPT ![consumer[v].message] =
                       IF Requeued(consumer[v].result) THEN "queued" ELSE "gone"]
  /\ consumer' = [consumer EXCEPT ![v] = Waiting]
  /\ UNCHANGED <<trigger, adapter, triggerRun, record, answerer, refused, losses>>

\* The connection is lost: the broker requeues the message, the consumer goes
\* on with the copy it has.  Or the server is lost, and the copy with it.
ConnectionLost(v) ==
  /\ consumer[v] # Waiting /\ consumer[v].mine
  /\ losses < MaxRedeliveries
  /\ losses' = losses + 1
  /\ source' = [source EXCEPT ![consumer[v].message] = "queued"]
  /\ consumer' = [consumer EXCEPT ![v].mine = FALSE]
  /\ UNCHANGED <<trigger, adapter, triggerRun, record, answerer, refused>>

ServerCrash(v) ==
  /\ consumer[v] # Waiting
  /\ losses < MaxRedeliveries
  /\ losses' = losses + 1
  /\ source' = IF consumer[v].mine
               THEN [source EXCEPT ![consumer[v].message] = "queued"] ELSE source
  /\ consumer' = [consumer EXCEPT ![v] = Waiting]
  /\ adapter' = [adapter EXCEPT ![v] = NoAdapter]
  /\ UNCHANGED <<trigger, triggerRun, record, answerer, refused>>

RunEnds(m) ==
  /\ triggerRun[m] # NoRun /\ ~triggerRun[m].ended
  /\ triggerRun' = [triggerRun EXCEPT ![m].ended = TRUE]
  /\ UNCHANGED <<trigger, adapter, source, consumer, record, answerer, refused, losses>>

-----------------------------------------------------------------------------
(* Completion *)

\* A claim first moves every completion whose run has ended out of waiting.
Materialized ==
  [m \in Messages |->
     IF /\ record[m].state = "admitted"
        /\ triggerRun[m].ended
        /\ record[m].completion = "waiting"
     THEN [record[m] EXCEPT
             !.completion = CASE record[m].policy = "none" -> "ignored"
                              [] record[m].policy = "poll" -> "available"
                              [] OTHER -> "pending",
             !.due = TRUE]
     ELSE record[m]]

triggerCompletionEligible(r) ==
  \/ r.completion \in {"pending", "retrying"} /\ r.due
  \/ r.completion = "delivering" /\ r.lapsed

ClaimTriggerCompletion(p, m) ==
  /\ answerer[p] = Waiting
  /\ record[m].state = "admitted" /\ triggerRun[m].ended
  /\ triggerCompletionEligible(Materialized[m])
  /\ record[m].attempt < MaxAnswers
  /\ record' = [Materialized EXCEPT
       ![m] = [Materialized[m] EXCEPT !.completion = "delivering",
                                      !.attempt = @ + 1, !.lapsed = FALSE]]
  /\ answerer' = [answerer EXCEPT ![p] = [phase |-> "sending", message |-> m,
                                          attempt |-> record[m].attempt + 1]]
  /\ UNCHANGED <<trigger, adapter, source, consumer, triggerRun, refused, losses>>

\* A claim that finds nothing to send.
NoCompletion(p) ==
  /\ answerer[p] = Waiting
  /\ record # Materialized
  /\ ~\E m \in Messages : /\ record[m].state = "admitted" /\ triggerRun[m].ended
                          /\ triggerCompletionEligible(Materialized[m])
  /\ record' = Materialized
  /\ UNCHANGED <<trigger, adapter, source, consumer, triggerRun, answerer, refused, losses>>

AnswerResult(outcome, attempt) ==
  CASE outcome = "succeeded" -> "succeeded"
    [] outcome = "retry" -> IF attempt >= MaxCallbacks THEN "failed" ELSE "retrying"
    [] OTHER -> "failed"

SendCompletion(p, outcome) ==
  /\ answerer[p].phase = "sending"
  /\ answerer' = [answerer EXCEPT ![p].phase = AnswerResult(outcome, answerer[p].attempt)]
  /\ UNCHANGED <<trigger, adapter, source, consumer, triggerRun, record, refused, losses>>

validateTriggerCompletionLease(held) ==
  /\ record[held.message].completion = "delivering"
  /\ record[held.message].attempt = held.attempt
  /\ ~record[held.message].lapsed

CompleteTriggerCompletion(p) ==
  /\ answerer[p].phase \notin {"idle", "sending"}
  /\ record' = IF validateTriggerCompletionLease(answerer[p])
               THEN [record EXCEPT ![answerer[p].message] =
                       [@ EXCEPT !.completion = answerer[p].phase, !.due = FALSE]]
               ELSE record
  /\ answerer' = [answerer EXCEPT ![p] = Waiting]
  /\ UNCHANGED <<trigger, adapter, source, consumer, triggerRun, refused, losses>>

AnswererCrash(p) ==
  /\ answerer[p] # Waiting
  /\ answerer' = [answerer EXCEPT ![p] = Waiting]
  /\ UNCHANGED <<trigger, adapter, source, consumer, triggerRun, record, refused, losses>>

\* The lease of a completion runs out, or its backoff ends.
CompletionTimePasses(m) ==
  /\ \/ record[m].completion = "delivering" /\ ~record[m].lapsed
     \/ record[m].completion = "retrying" /\ ~record[m].due
  /\ record' = [record EXCEPT ![m].lapsed = (record[m].completion = "delivering"),
                              ![m].due = (record[m].completion = "retrying")]
  /\ UNCHANGED <<trigger, adapter, source, consumer, triggerRun, answerer, refused, losses>>

TriggersNext ==
  \/ \E target \in Targets, policy \in Policies : UpdateTrigger(target, policy)
  \/ \E enabled \in BOOLEAN : SetTriggerEnabled(enabled)
  \/ DeleteTrigger
  \/ \E v \in Servers : Reconcile(v) \/ Acknowledge(v) \/ ConnectionLost(v) \/ ServerCrash(v)
  \/ \E v \in Servers, m \in Messages : ReceiveMessage(v, m)
  \/ \E v \in Servers, outcome \in {"admitted", "retryable", "terminal"} : Submit(v, outcome)
  \/ \E v \in Servers, stored \in BOOLEAN : RecordDelivery(v, stored)
  \/ \E m \in Messages : RunEnds(m) \/ CompletionTimePasses(m)
  \/ \E p \in Answerers, m \in Messages : ClaimTriggerCompletion(p, m)
  \/ \E p \in Answerers : NoCompletion(p) \/ CompleteTriggerCompletion(p) \/ AnswererCrash(p)
  \/ \E p \in Answerers, outcome \in {"succeeded", "retry", "terminal"} :
       SendCompletion(p, outcome)

-----------------------------------------------------------------------------
(* Properties *)

\* Type correctness of the trigger, its messages and their records.
TriggersTypeOK ==
  /\ \A m \in Messages :
       /\ source[m] \in {"queued", "out", "gone"}
       /\ record[m].state \in {"absent", "admitted", "retryable", "terminal"}
       /\ record[m].completion \in
            SettledCompletion \cup {"waiting", "pending", "delivering", "retrying"}
       /\ record[m].attempt \in 0..MaxAnswers
  /\ refused \subseteq Messages
  /\ losses \in 0..MaxRedeliveries

\* The source lets go of a message only when its run exists or it was refused
\* for good, however consumers, connections and the store fail on the way.
NoEventLost ==
  \A m \in Messages : source[m] = "gone" => triggerRun[m] # NoRun \/ m \in refused

\* A completion that has settled stays as it is: an event that is delivered
\* again, an edit of the trigger or the late answer of a lost dispatcher does
\* not open it again, and nothing is sent for it afterwards.
SettledCompletionIsFinal ==
  [][\A m \in Messages : record[m] # NoRecord /\ record[m].completion \in SettledCompletion =>
       /\ record'[m].completion = record[m].completion
       /\ record'[m].attempt = record[m].attempt]_triggerVars

\* An event that was recorded as accepted stays accepted, with its run: what
\* happens to the trigger later does not take its completion away.
AcceptedEventIsAnswered ==
  \A m \in Messages : record[m].accepted => record[m].state = "admitted"

TriggersSpec == TriggersInit /\ [][TriggersNext]_triggerVars
===============================================================================
