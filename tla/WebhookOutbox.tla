---------------------------- MODULE WebhookOutbox ----------------------------
(***************************************************************************)
(* Webhooks: a change of the control plane (a release, a rollback, a step  *)
(* of a held human task) writes its event and one delivery per matching    *)
(* subscription in the transaction of the change; dispatchers lease        *)
(* deliveries, send them and record the answer, while operators edit and   *)
(* delete subscriptions, ask for tests and retries, and a retention loop   *)
(* removes what is old.                                                    *)
(*                                                                         *)
(* Times are only ever compared with the present: a delivery is due or     *)
(* not, a lease has run out or not.  Which of the due deliveries is taken  *)
(* first (the one that waits longest) is left open.                        *)
(***************************************************************************)
EXTENDS Integers, FiniteSets

CONSTANTS
  Hooks,            \* identifiers of subscriptions
  Changes,          \* changes of the control plane, each with an event
  Dispatchers,      \* webhook dispatcher processes
  MaxTries,         \* MaxAttempts of the dispatcher
  MaxSends          \* bound on the attempts of one delivery, lost ones included

ASSUME WebhookAssumption == MaxTries \in Nat \ {0} /\ MaxSends \in Nat

VARIABLES
  hook,         \* per subscription: "absent", "enabled", "disabled" or "deleted"
  event,        \* ControlPlaneEvents: "none", "stored" or "pruned"
  delivery,     \* WebhookDeliveries, by event and subscription
  dispatcher    \* what each dispatcher has in hand

webhookVars == <<hook, event, delivery, dispatcher>>

-----------------------------------------------------------------------------
NoDelivery == [state |-> "absent", attempt |-> 0, due |-> FALSE, lapsed |-> FALSE]

\* A fresh delivery is due at once.
newWebhookDelivery == [NoDelivery EXCEPT !.state = "pending", !.due = TRUE]

Idle == [phase |-> "idle"]

Live == {"enabled", "disabled"}

TerminalDelivery == {"succeeded", "failed", "canceled"}

WebhookInit ==
  /\ hook = [s \in Hooks |-> "absent"]
  /\ event = [e \in Changes |-> "none"]
  /\ delivery = [k \in Changes \X Hooks |-> NoDelivery]
  /\ dispatcher = [p \in Dispatchers |-> Idle]

-----------------------------------------------------------------------------
(* Subscriptions *)

CreateSubscription(s, enabled) ==
  /\ hook[s] = "absent"
  /\ hook' = [hook EXCEPT ![s] = IF enabled THEN "enabled" ELSE "disabled"]
  /\ UNCHANGED <<event, delivery, dispatcher>>

UpdateSubscription(s, enabled) ==
  /\ hook[s] \in Live
  /\ hook' = [hook EXCEPT ![s] = IF enabled THEN "enabled" ELSE "disabled"]
  /\ UNCHANGED <<event, delivery, dispatcher>>

\* A delivery that is being sent is left to its dispatcher.
DeleteSubscription(s) ==
  /\ hook[s] \in Live
  /\ hook' = [hook EXCEPT ![s] = "deleted"]
  /\ delivery' = [k \in Changes \X Hooks |->
       IF k[2] = s /\ delivery[k].state \in {"pending", "retrying"}
       THEN [delivery[k] EXCEPT !.state = "canceled"]
       ELSE delivery[k]]
  /\ UNCHANGED <<event, dispatcher>>

\* The change and its deliveries are one transaction.  Which of the enabled
\* subscriptions the filters on event type and app select is left open.
PublishEvent(e) ==
  \E matching \in SUBSET {s \in Hooks : hook[s] = "enabled"} :
    /\ event[e] = "none"
    /\ event' = [event EXCEPT ![e] = "stored"]
    /\ delivery' = [k \in Changes \X Hooks |->
         IF k[1] = e /\ k[2] \in matching THEN newWebhookDelivery ELSE delivery[k]]
    /\ UNCHANGED <<hook, dispatcher>>

CreateTestDelivery(e, s) ==
  /\ hook[s] = "enabled"
  /\ event[e] = "none"
  /\ event' = [event EXCEPT ![e] = "stored"]
  /\ delivery' = [delivery EXCEPT ![<<e, s>>] = newWebhookDelivery]
  /\ UNCHANGED <<hook, dispatcher>>

RetryDelivery(k) ==
  /\ delivery[k].state = "failed"
  /\ hook[k[2]] = "enabled"
  /\ delivery' = [delivery EXCEPT ![k].state = "retrying", ![k].due = TRUE]
  /\ UNCHANGED <<hook, event, dispatcher>>

-----------------------------------------------------------------------------
(* Dispatchers *)

deliveryEligible(k) ==
  /\ hook[k[2]] = "enabled"
  /\ \/ delivery[k].state \in {"pending", "retrying"} /\ delivery[k].due
     \/ delivery[k].state = "delivering" /\ delivery[k].lapsed

\* Each claim counts an attempt, so the attempt identifies the lease.
ClaimDelivery(p, k) ==
  /\ dispatcher[p] = Idle
  /\ deliveryEligible(k)
  /\ event[k[1]] = "stored"
  /\ delivery[k].attempt < MaxSends
  /\ delivery' = [delivery EXCEPT ![k] = [state |-> "delivering", attempt |-> @.attempt + 1,
                                          due |-> FALSE, lapsed |-> FALSE]]
  /\ dispatcher' = [dispatcher EXCEPT
       ![p] = [phase |-> "sending", key |-> k, attempt |-> delivery[k].attempt + 1]]
  /\ UNCHANGED <<hook, event>>

\* What the attempt makes of the delivery: a 2xx answer, one worth a retry
\* (a timeout, a network error, 429, 5xx), or one that is not.
deliveryResult(outcome, attempt) ==
  CASE outcome = "succeeded" -> "succeeded"
    [] outcome = "retry"     -> IF attempt >= MaxTries THEN "failed" ELSE "retrying"
    [] OTHER                 -> "failed"

Send(p, outcome) ==
  /\ dispatcher[p].phase = "sending"
  /\ dispatcher' = [dispatcher EXCEPT
       ![p] = [@ EXCEPT !.phase = deliveryResult(outcome, dispatcher[p].attempt)]]
  /\ UNCHANGED <<hook, event, delivery>>

validateDeliveryLease(k, attempt) ==
  delivery[k].state = "delivering" /\ delivery[k].attempt = attempt

\* Mutant: the answer decides alone.
AnswerAlone(k, result) == result

\* The retry of a deleted subscription is canceled instead.
CompletedState(k, result) ==
  IF hook[k[2]] = "deleted" /\ result = "retrying" THEN "canceled" ELSE result

\* A lease that has run out still counts while nobody has taken it over.  A
\* refused answer is dropped.
CompleteDelivery(p) ==
  LET held == dispatcher[p]
  IN  /\ held.phase \in {"succeeded", "failed", "retrying"}
      /\ dispatcher' = [dispatcher EXCEPT ![p] = Idle]
      /\ IF validateDeliveryLease(held.key, held.attempt)
         THEN delivery' = [delivery EXCEPT ![held.key] =
                [@ EXCEPT !.state = CompletedState(held.key, held.phase), !.lapsed = FALSE]]
         ELSE UNCHANGED delivery
      /\ UNCHANGED <<hook, event>>

\* A dispatcher is stopped or loses its connection to the store.
DispatcherCrash(p) ==
  /\ dispatcher[p] # Idle
  /\ dispatcher' = [dispatcher EXCEPT ![p] = Idle]
  /\ UNCHANGED <<hook, event, delivery>>

BackoffEnds(k) ==
  /\ delivery[k].state = "retrying" /\ ~delivery[k].due
  /\ delivery' = [delivery EXCEPT ![k].due = TRUE]
  /\ UNCHANGED <<hook, event, dispatcher>>

DeliveryLeaseEnds(k) ==
  /\ delivery[k].state = "delivering" /\ ~delivery[k].lapsed
  /\ delivery' = [delivery EXCEPT ![k].lapsed = TRUE]
  /\ UNCHANGED <<hook, event, dispatcher>>

-----------------------------------------------------------------------------
(* Retention: deliveries, then events nobody refers to, then subscriptions  *)
(* nobody refers to.  How much of each the cut-off dates and the batch size *)
(* allow is left open.                                                      *)

Prune(expired, orphans, gone) ==
  LET kept == {k \in Changes \X Hooks : delivery[k] # NoDelivery} \ expired
  IN  /\ expired \cup orphans \cup gone # {}
      /\ \A k \in expired : delivery[k].state \in TerminalDelivery
      /\ \A e \in orphans : event[e] = "stored" /\ e \notin {k[1] : k \in kept}
      /\ \A s \in gone : hook[s] = "deleted" /\ s \notin {k[2] : k \in kept}
      /\ delivery' = [k \in Changes \X Hooks |->
           IF k \in expired THEN NoDelivery ELSE delivery[k]]
      /\ event' = [e \in Changes |-> IF e \in orphans THEN "pruned" ELSE event[e]]
      /\ hook' = [s \in Hooks |-> IF s \in gone THEN "absent" ELSE hook[s]]
      /\ UNCHANGED dispatcher

PruneWebhookData ==
  \E expired \in SUBSET {k \in Changes \X Hooks : delivery[k].state \in TerminalDelivery} :
    \E orphans \in SUBSET {e \in Changes : event[e] = "stored"},
       gone \in SUBSET {s \in Hooks : hook[s] = "deleted"} :
      Prune(expired, orphans, gone)

WebhookNext ==
  \/ \E s \in Hooks : \E enabled \in BOOLEAN :
       CreateSubscription(s, enabled) \/ UpdateSubscription(s, enabled)
  \/ \E s \in Hooks : DeleteSubscription(s)
  \/ \E e \in Changes : PublishEvent(e)
  \/ \E e \in Changes, s \in Hooks : CreateTestDelivery(e, s)
  \/ \E k \in Changes \X Hooks :
       RetryDelivery(k) \/ BackoffEnds(k) \/ DeliveryLeaseEnds(k)
  \/ \E p \in Dispatchers : \E k \in Changes \X Hooks : ClaimDelivery(p, k)
  \/ \E p \in Dispatchers : \E outcome \in {"succeeded", "retry", "terminal"} : Send(p, outcome)
  \/ \E p \in Dispatchers : CompleteDelivery(p) \/ DispatcherCrash(p)
  \/ PruneWebhookData

WebhookSpec == WebhookInit /\ [][WebhookNext]_webhookVars

-----------------------------------------------------------------------------
(* Properties *)

\* Type correctness of subscriptions, events and deliveries.
WebhookTypeOK ==
  /\ hook \in [Hooks -> Live \cup {"absent", "deleted"}]
  /\ event \in [Changes -> {"none", "stored", "pruned"}]
  /\ delivery \in [Changes \X Hooks ->
       [state : TerminalDelivery \cup {"absent", "pending", "delivering", "retrying"},
        attempt : 0..MaxSends, due : BOOLEAN, lapsed : BOOLEAN]]

\* Whatever the order of deletion, answers, crashes, retries and retention:
\* nothing waits to be sent for a deleted subscription, and a delivery that
\* is not over still has its event and its subscription.
DeletedSubscriptionLetsGo ==
  \A k \in Changes \X Hooks :
    /\ hook[k[2]] = "deleted" => delivery[k].state \notin {"pending", "retrying"}
    /\ delivery[k] # NoDelivery => event[k[1]] = "stored" /\ hook[k[2]] # "absent"
=============================================================================
