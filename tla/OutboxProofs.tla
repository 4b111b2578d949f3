---------------------------- MODULE OutboxProofs ----------------------------
(***************************************************************************)
(* Proofs about the two outboxes: WebhookOutbox, for every number of       *)
(* subscriptions, events and dispatchers, and Triggers, for every number   *)
(* of messages, servers and completion dispatchers.                        *)
(***************************************************************************)
EXTENDS WebhookOutbox, Triggers, TLAPS

-----------------------------------------------------------------------------
(* WebhookOutbox: the inductive invariant *)

Keys == Changes \X Hooks

DeliveryRecord ==
  [state : TerminalDelivery \cup {"absent", "pending", "delivering", "retrying"},
   attempt : 0..MaxSends, due : BOOLEAN, lapsed : BOOLEAN]

\* What one delivery owes to its event and its subscription.
DeliveryOK(h, e, d) ==
  /\ h = "deleted" => d.state \notin {"pending", "retrying"}
  /\ d # NoDelivery => e = "stored" /\ h # "absent"

\* A dispatcher that is not idle holds a delivery, and nothing but the answer
\* it received.
DispatcherOK(held) ==
  held = Idle \/ held \in [phase : {"sending", "succeeded", "failed", "retrying"},
                           key : Keys, attempt : 0..MaxSends]

WebhookInv ==
  /\ hook \in [Hooks -> Live \cup {"absent", "deleted"}]
  /\ event \in [Changes -> {"none", "stored", "pruned"}]
  /\ delivery \in [Keys -> DeliveryRecord]
  /\ dispatcher = [p \in Dispatchers |-> dispatcher[p]]
  /\ \A p \in Dispatchers : DispatcherOK(dispatcher[p])
  /\ \A k \in Keys : DeliveryOK(hook[k[2]], event[k[1]], delivery[k])

\* The parts of a key.
LEMMA KeyParts ==
  ASSUME NEW k \in Keys
  PROVE  k[1] \in Changes /\ k[2] \in Hooks
BY DEF Keys

\* The invariant is type correctness and the property that the runs check.
LEMMA WebhookInvMeans ==
  ASSUME WebhookInv
  PROVE  WebhookTypeOK /\ DeletedSubscriptionLetsGo
BY DEF WebhookInv, WebhookTypeOK, DeletedSubscriptionLetsGo, Keys, DeliveryRecord, DeliveryOK

\* The records deliveries are made of.
LEMMA DeliveryRecords ==
  /\ NoDelivery \in DeliveryRecord /\ newWebhookDelivery \in DeliveryRecord
  /\ newWebhookDelivery.state = "pending" /\ NoDelivery.state = "absent"
<1>1. 0 \in 0..MaxSends
  BY WebhookAssumption
<1>. QED
  BY <1>1 DEF NoDelivery, newWebhookDelivery, DeliveryRecord, TerminalDelivery

-----------------------------------------------------------------------------
(* Every step keeps it *)

LEMMA WebhookInvInit ==
  ASSUME WebhookInit
  PROVE  WebhookInv
<1>1. \A k \in Keys : delivery[k] = NoDelivery /\ hook[k[2]] = "absent"
  BY KeyParts DEF WebhookInit, Keys
<1>2. \A k \in Keys : DeliveryOK(hook[k[2]], event[k[1]], delivery[k])
  BY <1>1, DeliveryRecords DEF DeliveryOK
<1>3. delivery \in [Keys -> DeliveryRecord]
  BY DeliveryRecords DEF WebhookInit, Keys
<1>. QED
  BY <1>2, <1>3 DEF WebhookInit, WebhookInv, DispatcherOK

\* Operators create and edit subscriptions.
LEMMA SubscriptionEdits ==
  ASSUME WebhookInv, NEW s \in Hooks, NEW enabled \in BOOLEAN,
         CreateSubscription(s, enabled) \/ UpdateSubscription(s, enabled)
  PROVE  WebhookInv'
<1>1. /\ hook' \in [Hooks -> Live \cup {"absent", "deleted"}]
      /\ \A t \in Hooks : hook'[t] = hook[t] \/ (t = s /\ hook'[t] \in Live /\ hook[t] # "deleted")
  BY DEF WebhookInv, CreateSubscription, UpdateSubscription, Live
<1>2. UNCHANGED <<event, delivery, dispatcher>>
  BY DEF CreateSubscription, UpdateSubscription
<1>3. \A k \in Keys : DeliveryOK(hook'[k[2]], event'[k[1]], delivery'[k])
  BY <1>1, <1>2, KeyParts DEF WebhookInv, DeliveryOK, Live
<1>. QED
  BY <1>1, <1>2, <1>3 DEF WebhookInv

\* A deletion cancels what waits.
LEMMA SubscriptionDeletion ==
  ASSUME WebhookInv, NEW s \in Hooks, DeleteSubscription(s)
  PROVE  WebhookInv'
<1>1. /\ hook' \in [Hooks -> Live \cup {"absent", "deleted"}]
      /\ \A t \in Hooks : hook'[t] = IF t = s THEN "deleted" ELSE hook[t]
      /\ hook[s] \in Live
      /\ UNCHANGED <<event, dispatcher>>
  BY DEF WebhookInv, DeleteSubscription
<1>2. ASSUME NEW k \in Keys
      PROVE  /\ delivery'[k] \in DeliveryRecord
             /\ DeliveryOK(hook'[k[2]], event[k[1]], delivery'[k])
  <2>1. delivery[k] \in DeliveryRecord /\ DeliveryOK(hook[k[2]], event[k[1]], delivery[k])
    BY DEF WebhookInv
  <2>2. CASE k[2] = s /\ delivery[k].state \in {"pending", "retrying"}
    <3>1. delivery'[k] = [delivery[k] EXCEPT !.state = "canceled"]
      BY <2>2 DEF DeleteSubscription, Keys
    <3>2. delivery'[k] \in DeliveryRecord /\ delivery'[k].state = "canceled"
      BY <3>1, <2>1 DEF DeliveryRecord, TerminalDelivery
    <3>3. delivery[k] # NoDelivery
      BY <2>2, DeliveryRecords
    <3>. QED
      BY <1>1, <2>1, <2>2, <3>2, <3>3 DEF DeliveryOK
  <2>3. CASE ~(k[2] = s /\ delivery[k].state \in {"pending", "retrying"})
    <3>1. delivery'[k] = delivery[k]
      BY <2>3 DEF DeleteSubscription, Keys
    <3>. QED
      BY <1>1, <2>1, <2>3, <3>1, KeyParts DEF DeliveryOK, Live
  <2>. QED
    BY <2>2, <2>3
<1>3. delivery' = [k \in Keys |-> delivery'[k]]
  BY DEF DeleteSubscription, Keys
<1>4. delivery' \in [Keys -> DeliveryRecord]
  BY <1>2, <1>3
<1>. QED
  BY <1>1, <1>2, <1>4 DEF WebhookInv

\* A change, or a test, writes its event and the deliveries of enabled
\* subscriptions.
LEMMA NewEvents ==
  ASSUME WebhookInv, NEW e \in Changes,
         PublishEvent(e) \/ \E s \in Hooks : CreateTestDelivery(e, s)
  PROVE  WebhookInv'
<1>1. PICK to \in SUBSET {s \in Hooks : hook[s] = "enabled"} :
        /\ event[e] = "none"
        /\ event' = [event EXCEPT ![e] = "stored"]
        /\ delivery' = [k \in Keys |->
             IF k[1] = e /\ k[2] \in to THEN newWebhookDelivery ELSE delivery[k]]
        /\ UNCHANGED <<hook, dispatcher>>
  <2>1. CASE PublishEvent(e)
    BY <2>1 DEF PublishEvent, Keys
  <2>2. ASSUME NEW s \in Hooks, CreateTestDelivery(e, s)
        PROVE  /\ {s} \in SUBSET {t \in Hooks : hook[t] = "enabled"}
               /\ event[e] = "none"
               /\ event' = [event EXCEPT ![e] = "stored"]
               /\ delivery' = [k \in Keys |->
                    IF k[1] = e /\ k[2] \in {s} THEN newWebhookDelivery ELSE delivery[k]]
               /\ UNCHANGED <<hook, dispatcher>>
    <3>1. <<e, s>> \in Keys /\ \A k \in Keys : k = <<e, s>> <=> (k[1] = e /\ k[2] = s)
      BY DEF Keys
    <3>2. delivery' = [delivery EXCEPT ![<<e, s>>] = newWebhookDelivery]
          /\ delivery = [k \in Keys |-> delivery[k]]
      BY <2>2 DEF CreateTestDelivery, WebhookInv
    <3>3. delivery' = [k \in Keys |->
                    IF k[1] = e /\ k[2] \in {s} THEN newWebhookDelivery ELSE delivery[k]]
      BY <3>1, <3>2
    <3>. QED
      BY <2>2, <3>3 DEF CreateTestDelivery
  <2>. QED
    BY <2>1, <2>2
<1>2. /\ event' \in [Changes -> {"none", "stored", "pruned"}]
      /\ \A f \in Changes : event'[f] = IF f = e THEN "stored" ELSE event[f]
  BY <1>1 DEF WebhookInv
<1>3. ASSUME NEW k \in Keys
      PROVE  /\ delivery'[k] \in DeliveryRecord
             /\ DeliveryOK(hook[k[2]], event'[k[1]], delivery'[k])
  <2>1. delivery[k] \in DeliveryRecord /\ DeliveryOK(hook[k[2]], event[k[1]], delivery[k])
    BY DEF WebhookInv
  <2>2. delivery'[k] = IF k[1] = e /\ k[2] \in to THEN newWebhookDelivery ELSE delivery[k]
    BY <1>1
  <2>. QED
    BY <1>1, <1>2, <2>1, <2>2, KeyParts, DeliveryRecords DEF DeliveryOK
<1>4. delivery' = [k \in Keys |-> delivery'[k]]
  BY <1>1
<1>5. delivery' \in [Keys -> DeliveryRecord]
  BY <1>3, <1>4
<1>. QED
  BY <1>1, <1>2, <1>3, <1>5 DEF WebhookInv

\* A step that moves one delivery which exists keeps the invariant when the
\* delivery does not start to wait for a deleted subscription.
LEMMA OneDeliveryMoves ==
  ASSUME WebhookInv, NEW k \in Keys, NEW d \in DeliveryRecord,
         delivery[k] # NoDelivery,
         hook[k[2]] = "deleted" => d.state \notin {"pending", "retrying"},
         delivery' = [delivery EXCEPT ![k] = d],
         UNCHANGED <<hook, event>>,
         dispatcher' = [p \in Dispatchers |-> dispatcher'[p]],
         \A p \in Dispatchers : DispatcherOK(dispatcher'[p])
  PROVE  WebhookInv'
<1>1. /\ delivery' \in [Keys -> DeliveryRecord]
      /\ \A j \in Keys : delivery'[j] = IF j = k THEN d ELSE delivery[j]
  BY DEF WebhookInv
<1>2. \A j \in Keys : DeliveryOK(hook[j[2]], event[j[1]], delivery'[j])
  BY <1>1 DEF WebhookInv, DeliveryOK
<1>. QED
  BY <1>1, <1>2 DEF WebhookInv

\* An operator retries, a backoff ends, a lease runs out.
LEMMA DeliveryTimes ==
  ASSUME WebhookInv, NEW k \in Keys,
         RetryDelivery(k) \/ BackoffEnds(k) \/ DeliveryLeaseEnds(k)
  PROVE  WebhookInv'
<1>1. /\ delivery \in [Keys -> DeliveryRecord] /\ delivery[k] \in DeliveryRecord
      /\ DeliveryOK(hook[k[2]], event[k[1]], delivery[k])
      /\ dispatcher = [p \in Dispatchers |-> dispatcher[p]]
      /\ \A p \in Dispatchers : DispatcherOK(dispatcher[p])
  BY DEF WebhookInv
<1>2. delivery[k] # NoDelivery
  BY DeliveryRecords DEF RetryDelivery, BackoffEnds, DeliveryLeaseEnds
<1>3. UNCHANGED <<hook, event, dispatcher>>
  BY DEF RetryDelivery, BackoffEnds, DeliveryLeaseEnds
<1>4. CASE RetryDelivery(k)
  <2>. DEFINE d == [delivery[k] EXCEPT !.state = "retrying", !.due = TRUE]
  <2>1. d \in DeliveryRecord
    BY <1>1 DEF DeliveryRecord
  <2>2. delivery' = [delivery EXCEPT ![k] = d]
    BY <1>4, <1>1 DEF RetryDelivery
  <2>3. hook[k[2]] # "deleted"
    BY <1>4 DEF RetryDelivery
  <2>. HIDE DEF d
  <2>. QED
    BY <2>1, <2>2, <2>3, <1>1, <1>2, <1>3, OneDeliveryMoves
<1>5. CASE BackoffEnds(k)
  <2>. DEFINE d == [delivery[k] EXCEPT !.due = TRUE]
  <2>1. d \in DeliveryRecord /\ d.state = delivery[k].state
    BY <1>1 DEF DeliveryRecord
  <2>2. delivery' = [delivery EXCEPT ![k] = d]
    BY <1>5, <1>1 DEF BackoffEnds
  <2>. HIDE DEF d
  <2>3. hook[k[2]] = "deleted" => d.state \notin {"pending", "retrying"}
    BY <2>1, <1>1 DEF DeliveryOK
  <2>. QED
    BY <2>1, <2>2, <2>3, <1>1, <1>2, <1>3, OneDeliveryMoves
<1>6. CASE DeliveryLeaseEnds(k)
  <2>. DEFINE d == [delivery[k] EXCEPT !.lapsed = TRUE]
  <2>1. d \in DeliveryRecord /\ d.state = delivery[k].state
    BY <1>1 DEF DeliveryRecord
  <2>2. delivery' = [delivery EXCEPT ![k] = d]
    BY <1>6, <1>1 DEF DeliveryLeaseEnds
  <2>. HIDE DEF d
  <2>3. hook[k[2]] = "deleted" => d.state \notin {"pending", "retrying"}
    BY <2>1, <1>1 DEF DeliveryOK
  <2>. QED
    BY <2>1, <2>2, <2>3, <1>1, <1>2, <1>3, OneDeliveryMoves
<1>. QED
  BY <1>4, <1>5, <1>6

\* A dispatcher takes a delivery of an enabled subscription.
LEMMA DeliveryClaims ==
  ASSUME WebhookInv, NEW p \in Dispatchers, NEW k \in Keys, ClaimDelivery(p, k)
  PROVE  WebhookInv'
<1>1. /\ delivery \in [Keys -> DeliveryRecord] /\ delivery[k] \in DeliveryRecord
      /\ dispatcher = [q \in Dispatchers |-> dispatcher[q]]
      /\ \A q \in Dispatchers : DispatcherOK(dispatcher[q])
  BY DEF WebhookInv
<1>. DEFINE d == [state |-> "delivering", attempt |-> delivery[k].attempt + 1,
                  due |-> FALSE, lapsed |-> FALSE]
            h == [phase |-> "sending", key |-> k, attempt |-> delivery[k].attempt + 1]
<1>2. delivery[k].attempt + 1 \in 0..MaxSends
  BY <1>1, WebhookAssumption DEF ClaimDelivery, DeliveryRecord
<1>3. d \in DeliveryRecord /\ d.state = "delivering"
  BY <1>2 DEF DeliveryRecord
<1>4. delivery' = [delivery EXCEPT ![k] = d]
  BY <1>1 DEF ClaimDelivery
<1>5. dispatcher' = [dispatcher EXCEPT ![p] = h] /\ DispatcherOK(h)
  BY <1>2 DEF ClaimDelivery, DispatcherOK
<1>6. delivery[k] # NoDelivery /\ UNCHANGED <<hook, event>>
  BY DeliveryRecords DEF ClaimDelivery, deliveryEligible
<1>. HIDE DEF d, h
<1>7. dispatcher' = [q \in Dispatchers |-> dispatcher'[q]]
      /\ \A q \in Dispatchers : DispatcherOK(dispatcher'[q])
  BY <1>1, <1>5
<1>. QED
  BY <1>1, <1>3, <1>4, <1>6, <1>7, OneDeliveryMoves

\* Every answer has one of the three results.
LEMMA DeliveryResults ==
  ASSUME NEW outcome, NEW attempt
  PROVE  deliveryResult(outcome, attempt) \in {"succeeded", "failed", "retrying"}
BY DEF deliveryResult

\* A dispatcher sends, records the answer, or is lost.
LEMMA DispatcherSteps ==
  ASSUME WebhookInv, NEW p \in Dispatchers,
         \/ \E outcome \in {"succeeded", "retry", "terminal"} : Send(p, outcome)
         \/ CompleteDelivery(p)
         \/ DispatcherCrash(p)
  PROVE  WebhookInv'
<1>1. /\ delivery \in [Keys -> DeliveryRecord]
      /\ dispatcher = [q \in Dispatchers |-> dispatcher[q]]
      /\ \A q \in Dispatchers : DispatcherOK(dispatcher[q])
      /\ \A k \in Keys : delivery[k] \in DeliveryRecord
      /\ \A k \in Keys : DeliveryOK(hook[k[2]], event[k[1]], delivery[k])
  BY DEF WebhookInv
<1>2. ASSUME NEW held, DispatcherOK(held), dispatcher' = [dispatcher EXCEPT ![p] = held]
      PROVE  dispatcher' = [q \in Dispatchers |-> dispatcher'[q]]
             /\ \A q \in Dispatchers : DispatcherOK(dispatcher'[q])
  BY <1>1, <1>2
<1>3. ASSUME NEW outcome, Send(p, outcome)
      PROVE  WebhookInv'
  <2>. DEFINE held == [dispatcher[p] EXCEPT !.phase = deliveryResult(outcome, dispatcher[p].attempt)]
  <2>1. DispatcherOK(dispatcher[p]) /\ dispatcher[p] # Idle
    BY <1>1, <1>3 DEF Send, Idle
  <2>2. dispatcher[p] \in [phase : {"sending", "succeeded", "failed", "retrying"},
                           key : Keys, attempt : 0..MaxSends]
    BY <2>1 DEF DispatcherOK
  <2>3. dispatcher' = [dispatcher EXCEPT ![p] = held]
    BY <1>3 DEF Send
  <2>4. DispatcherOK(held)
    BY <2>2, DeliveryResults DEF DispatcherOK
  <2>5. UNCHANGED <<hook, event, delivery>>
    BY <1>3 DEF Send
  <2>. HIDE DEF held
  <2>. QED
    BY <2>3, <2>4, <2>5, <1>2 DEF WebhookInv
<1>4. CASE DispatcherCrash(p)
  <2>1. DispatcherOK(Idle)
    BY DEF DispatcherOK
  <2>2. dispatcher' = [dispatcher EXCEPT ![p] = Idle] /\ UNCHANGED <<hook, event, delivery>>
    BY <1>4 DEF DispatcherCrash
  <2>. QED
    BY <2>1, <2>2, <1>2 DEF WebhookInv
<1>5. CASE CompleteDelivery(p)
  <2>. DEFINE k == dispatcher[p].key
              phase == dispatcher[p].phase
  <2>1. DispatcherOK(dispatcher[p]) /\ phase \in {"succeeded", "failed", "retrying"}
    BY <1>1, <1>5 DEF CompleteDelivery
  <2>2. k \in Keys
    BY <2>1 DEF DispatcherOK, Idle
  <2>3. DispatcherOK(Idle) /\ dispatcher' = [dispatcher EXCEPT ![p] = Idle]
        /\ UNCHANGED <<hook, event>>
    BY <1>5 DEF DispatcherOK, CompleteDelivery
  <2>4. dispatcher' = [q \in Dispatchers |-> dispatcher'[q]]
        /\ \A q \in Dispatchers : DispatcherOK(dispatcher'[q])
    BY <2>3, <1>2
  <2>5. CASE ~validateDeliveryLease(k, dispatcher[p].attempt)
    <3>1. delivery' = delivery
      BY <1>5, <2>5 DEF CompleteDelivery
    <3>. QED
      BY <3>1, <2>3, <2>4 DEF WebhookInv
  <2>6. CASE validateDeliveryLease(k, dispatcher[p].attempt)
    <3>. DEFINE st == CompletedState(k, phase)
                d == [delivery[k] EXCEPT !.state = st, !.lapsed = FALSE]
    <3>1. delivery' = [delivery EXCEPT ![k] = d]
      BY <1>5, <2>6 DEF CompleteDelivery
    <3>2. st \in {"succeeded", "failed", "retrying", "canceled"}
          /\ (hook[k[2]] = "deleted" => st # "retrying")
      BY <2>1 DEF CompletedState
    <3>3. delivery[k] # NoDelivery
      BY <2>6, DeliveryRecords DEF validateDeliveryLease
    <3>. HIDE DEF st, k
    <3>4. d \in DeliveryRecord /\ d.state = st
      BY <1>1, <2>2, <3>2 DEF DeliveryRecord, TerminalDelivery
    <3>. HIDE DEF d
    <3>. QED
      BY <3>1, <3>2, <3>3, <3>4, <2>2, <2>3, <2>4, OneDeliveryMoves
  <2>. QED
    BY <2>5, <2>6
<1>. QED
  BY <1>3, <1>4, <1>5

\* Retention removes deliveries first, and keeps what they refer to.
LEMMA Retention ==
  ASSUME WebhookInv, PruneWebhookData
  PROVE  WebhookInv'
<1>1. PICK expired \in SUBSET Keys, orphans \in SUBSET Changes, gone \in SUBSET Hooks :
        Prune(expired, orphans, gone)
  BY DEF PruneWebhookData, Keys
<1>2. ASSUME NEW k \in Keys, delivery[k] # NoDelivery, k \notin expired
      PROVE  k[1] \notin orphans /\ k[2] \notin gone
  BY <1>1, <1>2 DEF Prune, Keys
<1>3. /\ delivery' = [k \in Keys |-> IF k \in expired THEN NoDelivery ELSE delivery[k]]
      /\ event' = [e \in Changes |-> IF e \in orphans THEN "pruned" ELSE event[e]]
      /\ hook' = [s \in Hooks |-> IF s \in gone THEN "absent" ELSE hook[s]]
      /\ UNCHANGED dispatcher
  BY <1>1 DEF Prune, Keys
<1>4. ASSUME NEW k \in Keys
      PROVE  DeliveryOK(hook'[k[2]], event'[k[1]], delivery'[k])
  <2>1. k[1] \in Changes /\ k[2] \in Hooks
    BY KeyParts
  <2>2. DeliveryOK(hook[k[2]], event[k[1]], delivery[k])
    BY DEF WebhookInv
  <2>3. CASE k \in expired
    BY <2>3, <1>3, DeliveryRecords DEF DeliveryOK
  <2>4. CASE k \notin expired /\ delivery[k] = NoDelivery
    BY <2>4, <1>3, DeliveryRecords DEF DeliveryOK
  <2>5. CASE k \notin expired /\ delivery[k] # NoDelivery
    BY <2>5, <1>2, <1>3, <2>1, <2>2 DEF DeliveryOK
  <2>. QED
    BY <2>3, <2>4, <2>5
<1>5. delivery' \in [Keys -> DeliveryRecord]
  BY <1>3, DeliveryRecords DEF WebhookInv
<1>6. event' \in [Changes -> {"none", "stored", "pruned"}]
      /\ hook' \in [Hooks -> Live \cup {"absent", "deleted"}]
  BY <1>3 DEF WebhookInv
<1>. QED
  BY <1>3, <1>4, <1>5, <1>6 DEF WebhookInv

\* The inductive invariant holds for every instance of the outbox.
THEOREM WebhookInvHolds == WebhookSpec => []WebhookInv
<1>1. ASSUME WebhookInv, WebhookNext
      PROVE  WebhookInv'
  <2>1. ASSUME NEW s \in Hooks, NEW enabled \in BOOLEAN,
               CreateSubscription(s, enabled) \/ UpdateSubscription(s, enabled)
        PROVE  WebhookInv'
    BY <1>1, <2>1, SubscriptionEdits
  <2>2. ASSUME NEW s \in Hooks, DeleteSubscription(s)
        PROVE  WebhookInv'
    BY <1>1, <2>2, SubscriptionDeletion
  <2>3. ASSUME NEW e \in Changes, PublishEvent(e) \/ \E s \in Hooks : CreateTestDelivery(e, s)
        PROVE  WebhookInv'
    BY <1>1, <2>3, NewEvents
  <2>4. ASSUME NEW k \in Keys, RetryDelivery(k) \/ BackoffEnds(k) \/ DeliveryLeaseEnds(k)
        PROVE  WebhookInv'
    BY <1>1, <2>4, DeliveryTimes
  <2>5. ASSUME NEW p \in Dispatchers, NEW k \in Keys, ClaimDelivery(p, k)
        PROVE  WebhookInv'
    BY <1>1, <2>5, DeliveryClaims
  <2>6. ASSUME NEW p \in Dispatchers,
               \/ \E outcome \in {"succeeded", "retry", "terminal"} : Send(p, outcome)
               \/ CompleteDelivery(p)
               \/ DispatcherCrash(p)
        PROVE  WebhookInv'
    BY <1>1, <2>6, DispatcherSteps
  <2>7. CASE PruneWebhookData
    BY <1>1, <2>7, Retention
  <2>. QED
    BY <1>1, <2>1, <2>2, <2>3, <2>4, <2>5, <2>6, <2>7 DEF WebhookNext, Keys
<1>2. WebhookInv /\ UNCHANGED webhookVars => WebhookInv'
  BY DEF WebhookInv, webhookVars
<1>. QED
  BY <1>1, <1>2, WebhookInvInit, PTL DEF WebhookSpec

\* However deletions, answers, crashes, retries and retention interleave:
\* nothing waits to be sent for a deleted subscription, and what is not over
\* has its event and its subscription.
THEOREM DeletedSubscriptionLetsGoHolds == WebhookSpec => []DeletedSubscriptionLetsGo
BY WebhookInvHolds, WebhookInvMeans, PTL

-----------------------------------------------------------------------------
(* Triggers: the inductive invariant *)

Results == {"admitted", "retryable", "terminal"}

RunOf == [target : Targets \cup {"none"}, ended : BOOLEAN]

RecordOfDelivery ==
  [state : Results \cup {"absent"}, accepted : BOOLEAN, policy : {"none", "poll", "callback"},
   completion : SettledCompletion \cup {"waiting", "pending", "delivering", "retrying"},
   attempt : 0..MaxAnswers, due : BOOLEAN, lapsed : BOOLEAN]

Received == [phase : {"received"}, message : Messages, mine : BOOLEAN]

Answered == [phase : {"submitted", "recorded"}, message : Messages, mine : BOOLEAN,
             result : Results]

DefinitionOK(t) ==
  /\ t = [version |-> t.version, target |-> t.target, policy |-> t.policy,
          enabled |-> t.enabled, deleted |-> t.deleted]
  /\ t.target \in Targets /\ t.policy \in Policies

AdapterOK(a) == a = NoAdapter \/ (a.target \in Targets /\ a.policy \in Policies)

\* What a consumer knows of its message is true: it has a definition, and an
\* answer that lets the source go stands for a run or a refusal.
ConsumerOK(c, a, rs, no) ==
  \/ c = Waiting
  \/ /\ a.target \in Targets /\ a.policy \in Policies
     /\ \/ c \in Received
        \/ /\ c \in Answered
           /\ c.result = "admitted" => rs[c.message] # NoRun
           /\ c.result = "terminal" => c.message \in no

AnswererOK(h) ==
  h = Waiting \/ h \in [phase : {"sending", "succeeded", "failed", "retrying"},
                        message : Messages, attempt : 0..MaxAnswers]

TriggersTypes ==
  /\ DefinitionOK(trigger)
  /\ adapter = [v \in Servers |-> adapter[v]]
  /\ source \in [Messages -> {"queued", "out", "gone"}]
  /\ consumer = [v \in Servers |-> consumer[v]]
  /\ triggerRun \in [Messages -> RunOf]
  /\ record \in [Messages -> RecordOfDelivery]
  /\ answerer = [p \in Answerers |-> answerer[p]]
  /\ refused \subseteq Messages
  /\ losses \in 0..MaxRedeliveries

TriggersInv ==
  /\ TriggersTypes
  /\ \A v \in Servers : AdapterOK(adapter[v])
  /\ \A v \in Servers : ConsumerOK(consumer[v], adapter[v], triggerRun, refused)
  /\ \A p \in Answerers : AnswererOK(answerer[p])
  /\ NoEventLost

\* The bounds, one by one.
LEMMA TriggerBounds ==
  /\ MaxAnswers \in Nat /\ MaxRedeliveries \in Nat
  /\ 0 \in 0..MaxAnswers /\ 0 \in 0..MaxRedeliveries
  /\ "none" \notin Targets /\ Policies \subseteq {"none", "poll", "callback"}
<1>1. MaxAnswers \in Nat /\ MaxRedeliveries \in Nat
  BY TriggersAssumption
<1>. QED
  BY <1>1, TriggersAssumption

(* No message was consumed and no completion is due at the start. *)
LEMMA TriggersInvInit ==
  ASSUME TriggersInit
  PROVE  TriggersInv
<1>1. NoRun \in RunOf /\ NoRecord \in RecordOfDelivery
  BY TriggerBounds DEF NoRun, RunOf, NoRecord, RecordOfDelivery, Results, SettledCompletion
<1>2. TriggersTypes
  <2>1. DefinitionOK(trigger)
    BY DEF TriggersInit, DefinitionOK
  <2>2. losses \in 0..MaxRedeliveries
    BY TriggerBounds DEF TriggersInit
  <2>3. triggerRun \in [Messages -> RunOf] /\ record \in [Messages -> RecordOfDelivery]
    BY <1>1 DEF TriggersInit
  <2>. QED
    BY <2>1, <2>2, <2>3 DEF TriggersInit, TriggersTypes
<1>. QED
  BY <1>2 DEF TriggersInit, TriggersInv, AdapterOK, ConsumerOK, AnswererOK, NoEventLost

-----------------------------------------------------------------------------
(* Every step keeps it *)

\* Operators edit the definition; nothing else moves.
LEMMA DefinitionEdits ==
  ASSUME TriggersInv,
         \/ \E target \in Targets, policy \in Policies : UpdateTrigger(target, policy)
         \/ \E enabled \in BOOLEAN : SetTriggerEnabled(enabled)
         \/ DeleteTrigger
  PROVE  TriggersInv'
<1>1. DefinitionOK(trigger')
  <2>1. DefinitionOK(trigger)
    BY DEF TriggersInv, TriggersTypes
  <2>2. ASSUME NEW target \in Targets, NEW policy \in Policies, UpdateTrigger(target, policy)
        PROVE  DefinitionOK(trigger')
    BY <2>1, <2>2 DEF UpdateTrigger, DefinitionOK
  <2>3. ASSUME NEW enabled \in BOOLEAN, SetTriggerEnabled(enabled)
        PROVE  DefinitionOK(trigger')
    BY <2>1, <2>3 DEF SetTriggerEnabled, DefinitionOK
  <2>4. CASE DeleteTrigger
    BY <2>1, <2>4 DEF DeleteTrigger, DefinitionOK
  <2>. QED
    BY <2>2, <2>3, <2>4
<1>2. UNCHANGED <<adapter, source, consumer, triggerRun, record, answerer, refused, losses>>
  BY DEF UpdateTrigger, SetTriggerEnabled, DeleteTrigger
<1>. QED
  BY <1>1, <1>2 DEF TriggersInv, TriggersTypes, NoEventLost

\* The manager replaces the adapter of a server that handles no message.
LEMMA Reconciliation ==
  ASSUME TriggersInv, NEW v \in Servers, Reconcile(v)
  PROVE  TriggersInv'
<1>. DEFINE a == IF trigger.enabled
                 THEN [version |-> trigger.version, target |-> trigger.target,
                       policy |-> trigger.policy]
                 ELSE NoAdapter
<1>1. AdapterOK(a)
  BY DEF TriggersInv, TriggersTypes, AdapterOK, DefinitionOK
<1>2. adapter' = [adapter EXCEPT ![v] = a] /\ consumer[v] = Waiting
      /\ UNCHANGED <<trigger, source, consumer, triggerRun, record, answerer, refused, losses>>
  BY DEF Reconcile
<1>. HIDE DEF a
<1>3. adapter' = [u \in Servers |-> adapter'[u]] /\ \A u \in Servers : AdapterOK(adapter'[u])
  BY <1>1, <1>2 DEF TriggersInv, TriggersTypes
<1>4. \A u \in Servers : ConsumerOK(consumer[u], adapter'[u], triggerRun, refused)
  <2>1. ASSUME NEW u \in Servers
        PROVE  ConsumerOK(consumer[u], adapter'[u], triggerRun, refused)
    <3>1. CASE u = v
      BY <3>1, <1>2 DEF ConsumerOK
    <3>2. CASE u # v
      <4>1. adapter'[u] = adapter[u]
        BY <3>2, <1>2 DEF TriggersInv, TriggersTypes
      <4>. QED
        BY <4>1 DEF TriggersInv
    <3>. QED
      BY <3>1, <3>2
  <2>. QED
    BY <2>1
<1>. QED
  BY <1>2, <1>3, <1>4 DEF TriggersInv, TriggersTypes, NoEventLost

\* A step of one consumer keeps what the others know.
LEMMA OneConsumerMoves ==
  ASSUME TriggersInv, NEW v \in Servers, NEW c,
         consumer' = [consumer EXCEPT ![v] = c],
         ConsumerOK(c, adapter[v], triggerRun', refused'),
         \A m \in Messages : triggerRun[m] # NoRun => triggerRun'[m] # NoRun,
         refused \subseteq refused', refused' \subseteq Messages,
         triggerRun' \in [Messages -> RunOf],
         record' \in [Messages -> RecordOfDelivery],
         source' \in [Messages -> {"queued", "out", "gone"}],
         \A m \in Messages : source'[m] = "gone" =>
           source[m] = "gone" \/ triggerRun[m] # NoRun \/ m \in refused,
         losses' \in 0..MaxRedeliveries,
         UNCHANGED <<trigger, adapter, answerer>>
  PROVE  TriggersInv'
<1>1. consumer' = [u \in Servers |-> consumer'[u]]
      /\ \A u \in Servers : consumer'[u] = IF u = v THEN c ELSE consumer[u]
  BY DEF TriggersInv, TriggersTypes
<1>2. ASSUME NEW u \in Servers
      PROVE  ConsumerOK(consumer'[u], adapter[u], triggerRun', refused')
  <2>1. CASE u = v
    BY <2>1, <1>1
  <2>2. CASE u # v
    <3>1. consumer'[u] = consumer[u] /\ ConsumerOK(consumer[u], adapter[u], triggerRun, refused)
      BY <2>2, <1>1 DEF TriggersInv
    <3>. QED
      BY <3>1 DEF ConsumerOK, Answered
  <2>. QED
    BY <2>1, <2>2
<1>3. NoEventLost'
  BY DEF TriggersInv, NoEventLost
<1>4. TriggersTypes'
  BY <1>1 DEF TriggersInv, TriggersTypes
<1>5. (\A u \in Servers : AdapterOK(adapter[u]))' /\ (\A p \in Answerers : AnswererOK(answerer[p]))'
  BY DEF TriggersInv
<1>. QED
  BY <1>2, <1>3, <1>4, <1>5 DEF TriggersInv

(* A server takes a message: it has no answer for it yet. *)
LEMMA Receptions ==
  ASSUME TriggersInv, NEW v \in Servers, NEW m \in Messages, ReceiveMessage(v, m)
  PROVE  TriggersInv'
<1>. DEFINE c == [phase |-> "received", message |-> m, mine |-> TRUE]
<1>1. consumer' = [consumer EXCEPT ![v] = c]
      /\ UNCHANGED <<trigger, adapter, triggerRun, record, answerer, refused, losses>>
  BY DEF ReceiveMessage
<1>2. ConsumerOK(c, adapter[v], triggerRun', refused')
  BY DEF ConsumerOK, TriggersInv, AdapterOK, ReceiveMessage, Received
<1>3. source' \in [Messages -> {"queued", "out", "gone"}]
      /\ \A n \in Messages : source'[n] = "gone" => source[n] = "gone"
  BY DEF TriggersInv, TriggersTypes, ReceiveMessage
<1>4. /\ triggerRun' \in [Messages -> RunOf] /\ record' \in [Messages -> RecordOfDelivery]
      /\ refused \subseteq refused' /\ refused' \subseteq Messages
      /\ losses' \in 0..MaxRedeliveries
      /\ \A n \in Messages : triggerRun[n] # NoRun => triggerRun'[n] # NoRun
  BY <1>1 DEF TriggersInv, TriggersTypes
<1>. HIDE DEF c
<1>. QED
  BY <1>1, <1>2, <1>3, <1>4, OneConsumerMoves

\* A run that an admission found or made stays.
LEMMA Submissions ==
  ASSUME TriggersInv, NEW v \in Servers, NEW outcome \in Results, Submit(v, outcome)
  PROVE  TriggersInv'
<1>. DEFINE m == consumer[v].message
            c == [phase |-> "submitted", message |-> m, mine |-> consumer[v].mine,
                  result |-> outcome]
<1>1. consumer[v] # Waiting /\ consumer[v].phase = "received"
  BY DEF Submit, Waiting
<1>2. /\ m \in Messages /\ consumer[v].mine \in BOOLEAN
      /\ adapter[v].target \in Targets /\ adapter[v].policy \in Policies
  BY <1>1 DEF TriggersInv, ConsumerOK, Received, Answered
<1>3. consumer' = [consumer EXCEPT ![v] = c]
      /\ UNCHANGED <<trigger, adapter, source, record, answerer, losses>>
      /\ refused' = IF outcome = "terminal" THEN refused \cup {m} ELSE refused
  BY DEF Submit
<1>4. triggerRun \in [Messages -> RunOf] /\ triggerRun[m] \in RunOf
  BY <1>2 DEF TriggersInv, TriggersTypes
<1>5. /\ triggerRun' \in [Messages -> RunOf]
      /\ \A n \in Messages : triggerRun[n] # NoRun => triggerRun'[n] # NoRun
      /\ outcome = "admitted" => triggerRun'[m] # NoRun
  <2>1. CASE outcome = "admitted" /\ triggerRun[m] = NoRun
    <3>. DEFINE r == [triggerRun[m] EXCEPT !.target = adapter[v].target]
    <3>1. triggerRun' = [triggerRun EXCEPT ![m] = r]
      BY <2>1, <1>4 DEF Submit, CreateRun
    <3>2. r \in RunOf /\ r.target # "none"
      BY <1>2, <1>4, TriggerBounds DEF RunOf
    <3>3. r # NoRun
      BY <3>2 DEF NoRun
    <3>. HIDE DEF r, m
    <3>. QED
      BY <3>1, <3>2, <3>3, <1>2, <1>4
  <2>2. CASE ~(outcome = "admitted" /\ triggerRun[m] = NoRun)
    <3>1. triggerRun' = triggerRun
      BY <2>2 DEF Submit, CreateRun
    <3>. QED
      BY <2>2, <3>1, <1>4
  <2>. QED
    BY <2>1, <2>2
<1>6. ConsumerOK(c, adapter[v], triggerRun', refused')
  BY <1>2, <1>3, <1>5 DEF ConsumerOK, Answered
<1>7. /\ source' \in [Messages -> {"queued", "out", "gone"}]
      /\ record' \in [Messages -> RecordOfDelivery]
      /\ refused \subseteq refused' /\ refused' \subseteq Messages
      /\ losses' \in 0..MaxRedeliveries
      /\ \A n \in Messages : source'[n] = "gone" => source[n] = "gone"
  BY <1>2, <1>3 DEF TriggersInv, TriggersTypes
<1>. HIDE DEF c, m
<1>. QED
  BY <1>3, <1>5, <1>6, <1>7, OneConsumerMoves

\* What the store makes of a record.
LEMMA Upserts ==
  ASSUME TriggersTypes, NEW m \in Messages, NEW result \in Results, NEW policy \in Policies
  PROVE  /\ UpsertTriggerDelivery(m, result, policy) \in [Messages -> RecordOfDelivery]
         /\ \A n \in Messages : record[n] # NoRecord =>
              /\ UpsertTriggerDelivery(m, result, policy)[n].completion = record[n].completion
              /\ UpsertTriggerDelivery(m, result, policy)[n].attempt = record[n].attempt
<1>1. record \in [Messages -> RecordOfDelivery] /\ record[m] \in RecordOfDelivery
  BY DEF TriggersTypes
<1>. DEFINE yes == result = "admitted"
            kept == record[m].accepted \/ result = "admitted"
            opening == InitialTriggerCompletionState(policy)
            new == [NoRecord EXCEPT !.state = result, !.accepted = yes, !.policy = policy,
                                    !.completion = opening]
            old == [record[m] EXCEPT !.state = result, !.accepted = kept]
<1>2. UpsertTriggerDelivery(m, result, policy) =
        [record EXCEPT ![m] = IF record[m] = NoRecord THEN new ELSE old]
  BY DEF UpsertTriggerDelivery
<1>3. yes \in BOOLEAN /\ kept \in BOOLEAN /\ opening \in {"ignored", "waiting"}
      /\ policy \in {"none", "poll", "callback"}
  BY TriggerBounds DEF InitialTriggerCompletionState
<1>. HIDE DEF yes, kept, opening
<1>4. new \in RecordOfDelivery
  BY <1>3, TriggerBounds DEF NoRecord, RecordOfDelivery, SettledCompletion
<1>5. old \in RecordOfDelivery /\ old.completion = record[m].completion
      /\ old.attempt = record[m].attempt
  BY <1>1, <1>3 DEF RecordOfDelivery
<1>. HIDE DEF new, old
<1>. QED
  BY <1>1, <1>2, <1>4, <1>5

(* The record of the delivery is written, or the write fails and the message is
   not acknowledged. *)
LEMMA Recordings ==
  ASSUME TriggersInv, NEW v \in Servers, NEW stored \in BOOLEAN, RecordDelivery(v, stored)
  PROVE  TriggersInv'
<1>. DEFINE m == consumer[v].message
            result == consumer[v].result
            res == IF stored \/ result # "admitted" THEN result ELSE "retryable"
            c == [consumer[v] EXCEPT !.phase = "recorded", !.result = res]
<1>1. consumer[v] # Waiting /\ consumer[v] \notin Received /\ consumer[v].phase = "submitted"
  BY DEF RecordDelivery, Waiting, Received
<1>2. /\ m \in Messages /\ adapter[v].target \in Targets /\ adapter[v].policy \in Policies
      /\ consumer[v] \in Answered /\ result \in Results
      /\ result = "admitted" => triggerRun[m] # NoRun
      /\ result = "terminal" => m \in refused
  BY <1>1 DEF TriggersInv, ConsumerOK, Answered
<1>3. consumer' = [consumer EXCEPT ![v] = c]
      /\ UNCHANGED <<trigger, adapter, source, triggerRun, answerer, refused, losses>>
  BY DEF RecordDelivery
<1>4. res \in Results /\ (res # "retryable" => res = result)
  BY <1>2 DEF Results
<1>. HIDE DEF res
<1>5. c \in Answered /\ c.result = res /\ c.message = m
  BY <1>2, <1>4 DEF Answered
<1>. HIDE DEF c, m, result
<1>6. ConsumerOK(c, adapter[v], triggerRun', refused')
  BY <1>2, <1>3, <1>4, <1>5 DEF ConsumerOK
<1>7. record' \in [Messages -> RecordOfDelivery]
  <2>1. record' = IF stored THEN UpsertTriggerDelivery(m, result, adapter[v].policy) ELSE record
    BY DEF RecordDelivery, m, result
  <2>. QED
    BY <2>1, <1>2, Upserts DEF TriggersInv, TriggersTypes
<1>8. /\ source' \in [Messages -> {"queued", "out", "gone"}]
      /\ triggerRun' \in [Messages -> RunOf]
      /\ refused \subseteq refused' /\ refused' \subseteq Messages
      /\ losses' \in 0..MaxRedeliveries
      /\ \A n \in Messages : source'[n] = "gone" => source[n] = "gone"
      /\ \A n \in Messages : triggerRun[n] # NoRun => triggerRun'[n] # NoRun
  BY <1>3 DEF TriggersInv, TriggersTypes
<1>. QED
  BY <1>3, <1>6, <1>7, <1>8, OneConsumerMoves

\* The source lets go only of what the consumer has an answer for.
LEMMA Acknowledgements ==
  ASSUME TriggersInv, NEW v \in Servers, Acknowledge(v)
  PROVE  TriggersInv'
<1>1. consumer[v] # Waiting /\ consumer[v] \notin Received
  BY DEF Acknowledge, Waiting, Received
<1>2. /\ consumer[v] \in Answered /\ consumer[v].message \in Messages
      /\ consumer[v].result \in Results
      /\ consumer[v].result = "admitted" => triggerRun[consumer[v].message] # NoRun
      /\ consumer[v].result = "terminal" => consumer[v].message \in refused
  BY <1>1 DEF TriggersInv, ConsumerOK, Answered
<1>3. source \in [Messages -> {"queued", "out", "gone"}]
  BY DEF TriggersInv, TriggersTypes
<1>4. /\ source' \in [Messages -> {"queued", "out", "gone"}]
      /\ \A n \in Messages : source'[n] = "gone" =>
           source[n] = "gone" \/ triggerRun[n] # NoRun \/ n \in refused
  BY <1>2, <1>3 DEF Acknowledge, Requeued, Results
<1>5. consumer' = [consumer EXCEPT ![v] = Waiting]
      /\ UNCHANGED <<trigger, adapter, triggerRun, record, answerer, refused, losses>>
  BY DEF Acknowledge
<1>6. ConsumerOK(Waiting, adapter[v], triggerRun', refused')
  BY DEF ConsumerOK
<1>7. /\ triggerRun' \in [Messages -> RunOf] /\ record' \in [Messages -> RecordOfDelivery]
      /\ refused \subseteq refused' /\ refused' \subseteq Messages
      /\ losses' \in 0..MaxRedeliveries
      /\ \A n \in Messages : triggerRun[n] # NoRun => triggerRun'[n] # NoRun
  BY <1>5 DEF TriggersInv, TriggersTypes
<1>. QED
  BY <1>4, <1>5, <1>6, <1>7, OneConsumerMoves

\* The consumer of a lost connection goes on with its copy.
LEMMA Disconnections ==
  ASSUME TriggersInv, NEW v \in Servers, ConnectionLost(v)
  PROVE  TriggersInv'
<1>. DEFINE c == [consumer[v] EXCEPT !.mine = FALSE]
<1>1. /\ adapter[v].target \in Targets /\ adapter[v].policy \in Policies
      /\ \/ consumer[v] \in Received
         \/ /\ consumer[v] \in Answered
            /\ consumer[v].result = "admitted" => triggerRun[consumer[v].message] # NoRun
            /\ consumer[v].result = "terminal" => consumer[v].message \in refused
  BY DEF TriggersInv, ConsumerOK, ConnectionLost
<1>2. consumer' = [consumer EXCEPT ![v] = c]
      /\ UNCHANGED <<trigger, adapter, triggerRun, record, answerer, refused>>
  BY DEF ConnectionLost, TriggersInv, TriggersTypes
<1>3. \/ c \in Received
      \/ c \in Answered /\ c.result = consumer[v].result /\ c.message = consumer[v].message
         /\ consumer[v] \in Answered
  <2>1. CASE consumer[v] \in Received
    BY <2>1 DEF Received
  <2>2. CASE consumer[v] \in Answered
    BY <2>2 DEF Answered
  <2>. QED
    BY <1>1, <2>1, <2>2
<1>4. consumer[v].message \in Messages
  BY <1>1 DEF Received, Answered
<1>. HIDE DEF c
<1>5. ConsumerOK(c, adapter[v], triggerRun', refused')
  <2>1. CASE c \in Received
    BY <2>1, <1>1, <1>2 DEF ConsumerOK
  <2>2. CASE c \notin Received
    <3>1. consumer[v] \notin Received
      BY <1>3, <2>2 DEF Received, Answered
    <3>. QED
      BY <3>1, <2>2, <1>1, <1>2, <1>3 DEF ConsumerOK
  <2>. QED
    BY <2>1, <2>2
<1>6. source' \in [Messages -> {"queued", "out", "gone"}]
      /\ \A n \in Messages : source'[n] = "gone" => source[n] = "gone"
  BY <1>4 DEF ConnectionLost, TriggersInv, TriggersTypes
<1>7. losses' \in 0..MaxRedeliveries
  BY TriggerBounds DEF ConnectionLost, TriggersInv, TriggersTypes
<1>8. /\ triggerRun' \in [Messages -> RunOf] /\ record' \in [Messages -> RecordOfDelivery]
      /\ refused \subseteq refused' /\ refused' \subseteq Messages
      /\ \A n \in Messages : triggerRun[n] # NoRun => triggerRun'[n] # NoRun
  BY <1>2 DEF TriggersInv, TriggersTypes
<1>. QED
  BY <1>2, <1>5, <1>6, <1>7, <1>8, OneConsumerMoves

\* A server is lost with its copy and its adapter.
LEMMA ServerCrashes ==
  ASSUME TriggersInv, NEW v \in Servers, ServerCrash(v)
  PROVE  TriggersInv'
<1>1. consumer[v].message \in Messages
  BY DEF TriggersInv, ConsumerOK, ServerCrash, Received, Answered
<1>2. source' \in [Messages -> {"queued", "out", "gone"}]
      /\ \A n \in Messages : source'[n] = "gone" => source[n] = "gone"
  BY <1>1 DEF ServerCrash, TriggersInv, TriggersTypes
<1>3. losses' \in 0..MaxRedeliveries
  BY TriggerBounds DEF ServerCrash, TriggersInv, TriggersTypes
<1>4. /\ consumer' = [consumer EXCEPT ![v] = Waiting]
      /\ adapter' = [adapter EXCEPT ![v] = NoAdapter]
      /\ UNCHANGED <<trigger, triggerRun, record, answerer, refused>>
  BY DEF ServerCrash
<1>5. /\ consumer' = [u \in Servers |-> consumer'[u]] /\ adapter' = [u \in Servers |-> adapter'[u]]
      /\ \A u \in Servers : /\ consumer'[u] = IF u = v THEN Waiting ELSE consumer[u]
                            /\ adapter'[u] = IF u = v THEN NoAdapter ELSE adapter[u]
  BY <1>4 DEF TriggersInv, TriggersTypes
<1>6. ASSUME NEW u \in Servers
      PROVE  AdapterOK(adapter'[u]) /\ ConsumerOK(consumer'[u], adapter'[u], triggerRun, refused)
  <2>1. CASE u = v
    BY <2>1, <1>5 DEF AdapterOK, ConsumerOK
  <2>2. CASE u # v
    <3>1. consumer'[u] = consumer[u] /\ adapter'[u] = adapter[u]
      BY <2>2, <1>5
    <3>. QED
      BY <3>1 DEF TriggersInv
  <2>. QED
    BY <2>1, <2>2
<1>7. NoEventLost'
  BY <1>2, <1>4 DEF TriggersInv, NoEventLost
<1>8. TriggersTypes'
  BY <1>2, <1>3, <1>4, <1>5 DEF TriggersInv, TriggersTypes
<1>. QED
  BY <1>4, <1>6, <1>7, <1>8 DEF TriggersInv

\* A run that has ended is still the run of its message.
LEMMA RunEndings ==
  ASSUME TriggersInv, NEW m \in Messages, RunEnds(m)
  PROVE  TriggersInv'
<1>. DEFINE r == [triggerRun[m] EXCEPT !.ended = TRUE]
<1>1. triggerRun \in [Messages -> RunOf] /\ triggerRun[m] \in RunOf
  BY DEF TriggersInv, TriggersTypes
<1>2. triggerRun' = [triggerRun EXCEPT ![m] = r]
      /\ UNCHANGED <<trigger, adapter, source, consumer, record, answerer, refused, losses>>
  BY <1>1 DEF RunEnds
<1>3. r \in RunOf /\ r # NoRun
  BY <1>1 DEF RunOf, NoRun
<1>. HIDE DEF r
<1>4. triggerRun' \in [Messages -> RunOf]
      /\ \A n \in Messages : triggerRun[n] # NoRun => triggerRun'[n] # NoRun
  BY <1>1, <1>2, <1>3
<1>5. ASSUME NEW u \in Servers
      PROVE  ConsumerOK(consumer[u], adapter[u], triggerRun', refused)
  <2>1. ConsumerOK(consumer[u], adapter[u], triggerRun, refused)
    BY DEF TriggersInv
  <2>. QED
    BY <2>1, <1>4 DEF ConsumerOK, Answered
<1>6. NoEventLost'
  BY <1>2, <1>4 DEF TriggersInv, NoEventLost
<1>. QED
  BY <1>2, <1>4, <1>5, <1>6 DEF TriggersInv, TriggersTypes

\* The completion of a run that has ended leaves "waiting"; no other moves.
LEMMA Materializations ==
  ASSUME TriggersTypes
  PROVE  /\ Materialized \in [Messages -> RecordOfDelivery]
         /\ \A m \in Messages : Materialized[m].attempt = record[m].attempt
         /\ \A m \in Messages : record[m].completion # "waiting" => Materialized[m] = record[m]
<1>1. ASSUME NEW m \in Messages
      PROVE  /\ Materialized[m] \in RecordOfDelivery
             /\ Materialized[m].attempt = record[m].attempt
             /\ record[m].completion # "waiting" => Materialized[m] = record[m]
  <2>1. record[m] \in RecordOfDelivery
    BY DEF TriggersTypes
  <2>. DEFINE opened == CASE record[m].policy = "none" -> "ignored"
                          [] record[m].policy = "poll" -> "available"
                          [] OTHER -> "pending"
              r == [record[m] EXCEPT !.completion = opened, !.due = TRUE]
  <2>2. opened \in {"ignored", "available", "pending"}
    OBVIOUS
  <2>3. Materialized[m] = record[m] \/ (Materialized[m] = r /\ record[m].completion = "waiting")
    BY DEF Materialized
  <2>. HIDE DEF opened
  <2>4. r \in RecordOfDelivery /\ r.attempt = record[m].attempt
    BY <2>1, <2>2 DEF RecordOfDelivery, SettledCompletion
  <2>. HIDE DEF r
  <2>. QED
    BY <2>1, <2>3, <2>4
<1>2. Materialized = [m \in Messages |-> Materialized[m]]
  BY DEF Materialized
<1>. QED
  BY <1>1, <1>2

\* A step that moves only records and completion dispatchers.
LEMMA CompletionMoves ==
  ASSUME TriggersInv, record' \in [Messages -> RecordOfDelivery],
         answerer' = [p \in Answerers |-> answerer'[p]],
         \A p \in Answerers : AnswererOK(answerer'[p]),
         UNCHANGED <<trigger, adapter, source, consumer, triggerRun, refused, losses>>
  PROVE  TriggersInv'
BY DEF TriggersInv, TriggersTypes, NoEventLost

\* What each completion step makes of the records: they keep their type, and
\* one that is settled keeps its completion and its attempts.
LEMMA CompletionRecords ==
  ASSUME TriggersInv,
         \/ \E p \in Answerers, m \in Messages : ClaimTriggerCompletion(p, m)
         \/ \E p \in Answerers : NoCompletion(p) \/ CompleteTriggerCompletion(p)
         \/ \E m \in Messages : CompletionTimePasses(m)
  PROVE  /\ record' \in [Messages -> RecordOfDelivery]
         /\ \A n \in Messages : record[n].completion \in SettledCompletion =>
              /\ record'[n].completion = record[n].completion
              /\ record'[n].attempt = record[n].attempt
<1>1. /\ TriggersTypes /\ record \in [Messages -> RecordOfDelivery]
      /\ \A m \in Messages : record[m] \in RecordOfDelivery
  BY DEF TriggersInv, TriggersTypes
<1>. DEFINE Goal == /\ record' \in [Messages -> RecordOfDelivery]
                    /\ \A n \in Messages : record[n].completion \in SettledCompletion =>
                         /\ record'[n].completion = record[n].completion
                         /\ record'[n].attempt = record[n].attempt
<1>2. \A n \in Messages : record[n].completion \in SettledCompletion => Materialized[n] = record[n]
  BY <1>1, Materializations DEF SettledCompletion
<1>3. ASSUME NEW p \in Answerers, NEW m \in Messages, ClaimTriggerCompletion(p, m)
      PROVE  Goal
  <2>. DEFINE r == [Materialized[m] EXCEPT !.completion = "delivering", !.attempt = @ + 1,
                                           !.lapsed = FALSE]
  <2>1. record' = [Materialized EXCEPT ![m] = r]
    BY <1>3 DEF ClaimTriggerCompletion
  <2>2. Materialized[m] \in RecordOfDelivery /\ Materialized[m].attempt < MaxAnswers
    BY <1>1, <1>3, Materializations DEF ClaimTriggerCompletion
  <2>3. Materialized[m].attempt + 1 \in 0..MaxAnswers
    BY <2>2, TriggerBounds DEF RecordOfDelivery
  <2>4. r \in RecordOfDelivery
    BY <2>2, <2>3 DEF RecordOfDelivery
  <2>5. record[m].completion \notin SettledCompletion
    BY <1>2, <1>3 DEF ClaimTriggerCompletion, triggerCompletionEligible, SettledCompletion
  <2>. HIDE DEF r
  <2>. QED
    BY <1>1, <1>2, <2>1, <2>4, <2>5, Materializations
<1>4. ASSUME NEW p \in Answerers, NoCompletion(p)
      PROVE  Goal
  BY <1>1, <1>2, <1>4, Materializations DEF NoCompletion
<1>5. ASSUME NEW p \in Answerers, CompleteTriggerCompletion(p)
      PROVE  Goal
  <2>. DEFINE m == answerer[p].message
              r == [record[m] EXCEPT !.completion = answerer[p].phase, !.due = FALSE]
  <2>1. answerer[p] # Waiting /\ AnswererOK(answerer[p])
    <3>1. answerer[p].phase # "idle" /\ Waiting.phase = "idle"
      BY <1>5 DEF CompleteTriggerCompletion, Waiting
    <3>. QED
      BY <3>1 DEF TriggersInv
  <2>2. m \in Messages /\ answerer[p].phase \in {"succeeded", "failed", "retrying"}
    BY <1>5, <2>1 DEF AnswererOK, CompleteTriggerCompletion
  <2>3. CASE ~validateTriggerCompletionLease(answerer[p])
    BY <1>1, <1>5, <2>3 DEF CompleteTriggerCompletion
  <2>4. CASE validateTriggerCompletionLease(answerer[p])
    <3>1. record' = [record EXCEPT ![m] = r]
      BY <1>5, <2>4 DEF CompleteTriggerCompletion
    <3>2. r \in RecordOfDelivery
      BY <1>1, <2>2 DEF RecordOfDelivery, SettledCompletion
    <3>3. record[m].completion \notin SettledCompletion
      BY <2>4 DEF validateTriggerCompletionLease, SettledCompletion
    <3>. HIDE DEF r, m
    <3>. QED
      BY <1>1, <2>2, <3>1, <3>2, <3>3
  <2>. QED
    BY <2>3, <2>4
<1>6. ASSUME NEW m \in Messages, CompletionTimePasses(m)
      PROVE  Goal
  <2>. DEFINE l == record[m].completion = "delivering"
              d == record[m].completion = "retrying"
              r == [record[m] EXCEPT !.lapsed = l, !.due = d]
  <2>1. record' = [record EXCEPT ![m] = r]
    BY <1>1, <1>6 DEF CompletionTimePasses
  <2>2. l \in BOOLEAN /\ d \in BOOLEAN
    OBVIOUS
  <2>. HIDE DEF l, d
  <2>3. r \in RecordOfDelivery
    BY <1>1, <2>2 DEF RecordOfDelivery
  <2>4. record[m].completion \notin SettledCompletion
    BY <1>6 DEF CompletionTimePasses, SettledCompletion
  <2>. HIDE DEF r
  <2>. QED
    BY <1>1, <2>1, <2>3, <2>4
<1>. QED
  BY <1>3, <1>4, <1>5, <1>6

\* Completion dispatchers claim, send, record, crash; time passes.
LEMMA Completions ==
  ASSUME TriggersInv,
         \/ \E p \in Answerers, m \in Messages : ClaimTriggerCompletion(p, m)
         \/ \E p \in Answerers : NoCompletion(p) \/ CompleteTriggerCompletion(p) \/ AnswererCrash(p)
         \/ \E p \in Answerers, outcome \in {"succeeded", "retry", "terminal"} :
              SendCompletion(p, outcome)
         \/ \E m \in Messages : CompletionTimePasses(m)
  PROVE  TriggersInv'
<1>1. UNCHANGED <<trigger, adapter, source, consumer, triggerRun, refused, losses>>
  BY DEF ClaimTriggerCompletion, NoCompletion, CompleteTriggerCompletion, AnswererCrash,
         SendCompletion, CompletionTimePasses
<1>2. record' \in [Messages -> RecordOfDelivery]
  <2>1. CASE record' = record
    BY <2>1 DEF TriggersInv, TriggersTypes
  <2>2. CASE record' # record
    BY <2>2, CompletionRecords DEF AnswererCrash, SendCompletion
  <2>. QED
    BY <2>1, <2>2
<1>3. /\ answerer = [p \in Answerers |-> answerer[p]]
      /\ \A p \in Answerers : AnswererOK(answerer[p])
  BY DEF TriggersInv, TriggersTypes
<1>4. answerer' = [p \in Answerers |-> answerer'[p]]
      /\ \A p \in Answerers : AnswererOK(answerer'[p])
  <2>1. CASE answerer' = answerer
    BY <2>1, <1>3
  <2>2. ASSUME NEW p \in Answerers, NEW h, AnswererOK(h), answerer' = [answerer EXCEPT ![p] = h]
        PROVE  answerer' = [q \in Answerers |-> answerer'[q]]
               /\ \A q \in Answerers : AnswererOK(answerer'[q])
    BY <1>3, <2>2
  <2>3. ASSUME NEW p \in Answerers, CompleteTriggerCompletion(p) \/ AnswererCrash(p)
        PROVE  answerer' = [answerer EXCEPT ![p] = Waiting] /\ AnswererOK(Waiting)
    BY <2>3 DEF CompleteTriggerCompletion, AnswererCrash, AnswererOK
  <2>4. ASSUME NEW p \in Answerers, NEW m \in Messages, ClaimTriggerCompletion(p, m)
        PROVE  \E h : AnswererOK(h) /\ answerer' = [answerer EXCEPT ![p] = h]
    <3>. DEFINE h == [phase |-> "sending", message |-> m, attempt |-> record[m].attempt + 1]
    <3>1. record[m] \in RecordOfDelivery /\ record[m].attempt < MaxAnswers
      BY <2>4 DEF TriggersInv, TriggersTypes, ClaimTriggerCompletion
    <3>2. record[m].attempt + 1 \in 0..MaxAnswers
      BY <3>1, TriggerBounds DEF RecordOfDelivery
    <3>3. AnswererOK(h) /\ answerer' = [answerer EXCEPT ![p] = h]
      BY <2>4, <3>2 DEF AnswererOK, ClaimTriggerCompletion
    <3>. QED
      BY <3>3
  <2>5. ASSUME NEW p \in Answerers, NEW outcome, SendCompletion(p, outcome)
        PROVE  \E h : AnswererOK(h) /\ answerer' = [answerer EXCEPT ![p] = h]
    <3>. DEFINE res == AnswerResult(outcome, answerer[p].attempt)
                h == [answerer[p] EXCEPT !.phase = res]
    <3>1. answerer[p] # Waiting /\ AnswererOK(answerer[p])
      BY <2>5, <1>3 DEF SendCompletion, Waiting
    <3>2. res \in {"succeeded", "failed", "retrying"}
      BY DEF AnswerResult
    <3>3. answerer' = [answerer EXCEPT ![p] = h]
      BY <2>5, <1>3 DEF SendCompletion
    <3>. HIDE DEF res
    <3>4. AnswererOK(h)
      BY <3>1, <3>2 DEF AnswererOK
    <3>. QED
      BY <3>3, <3>4
  <2>6. CASE \E p \in Answerers : NoCompletion(p)
    BY <2>1, <2>6 DEF NoCompletion
  <2>7. CASE \E m \in Messages : CompletionTimePasses(m)
    BY <2>1, <2>7 DEF CompletionTimePasses
  <2>8. ASSUME NEW p \in Answerers, \E h : AnswererOK(h) /\ answerer' = [answerer EXCEPT ![p] = h]
        PROVE  answerer' = [q \in Answerers |-> answerer'[q]]
               /\ \A q \in Answerers : AnswererOK(answerer'[q])
    BY <2>2, <2>8
  <2>9. ASSUME NEW p \in Answerers, CompleteTriggerCompletion(p) \/ AnswererCrash(p)
        PROVE  answerer' = [q \in Answerers |-> answerer'[q]]
               /\ \A q \in Answerers : AnswererOK(answerer'[q])
    BY <2>2, <2>3, <2>9
  <2>10. ASSUME NEW p \in Answerers, NEW m \in Messages, ClaimTriggerCompletion(p, m)
         PROVE  answerer' = [q \in Answerers |-> answerer'[q]]
                /\ \A q \in Answerers : AnswererOK(answerer'[q])
    BY <2>4, <2>8, <2>10
  <2>11. ASSUME NEW p \in Answerers, NEW outcome, SendCompletion(p, outcome)
         PROVE  answerer' = [q \in Answerers |-> answerer'[q]]
                /\ \A q \in Answerers : AnswererOK(answerer'[q])
    BY <2>5, <2>8, <2>11
  <2>. QED
    BY <2>6, <2>7, <2>9, <2>10, <2>11
<1>. QED
  BY <1>1, <1>2, <1>4, CompletionMoves

\* The inductive invariant of the triggers.
THEOREM TriggersInvHolds == TriggersSpec => []TriggersInv
<1>1. ASSUME TriggersInv, TriggersNext
      PROVE  TriggersInv'
  <2>1. CASE \/ \E target \in Targets, policy \in Policies : UpdateTrigger(target, policy)
             \/ \E enabled \in BOOLEAN : SetTriggerEnabled(enabled)
             \/ DeleteTrigger
    BY <1>1, <2>1, DefinitionEdits
  <2>2. ASSUME NEW v \in Servers,
               Reconcile(v) \/ Acknowledge(v) \/ ConnectionLost(v) \/ ServerCrash(v)
        PROVE  TriggersInv'
    BY <1>1, <2>2, Reconciliation, Acknowledgements, Disconnections, ServerCrashes
  <2>3. ASSUME NEW v \in Servers, NEW m \in Messages, ReceiveMessage(v, m)
        PROVE  TriggersInv'
    BY <1>1, <2>3, Receptions
  <2>4. ASSUME NEW v \in Servers, NEW outcome \in Results, Submit(v, outcome)
        PROVE  TriggersInv'
    BY <1>1, <2>4, Submissions
  <2>5. ASSUME NEW v \in Servers, NEW stored \in BOOLEAN, RecordDelivery(v, stored)
        PROVE  TriggersInv'
    BY <1>1, <2>5, Recordings
  <2>6. ASSUME NEW m \in Messages, RunEnds(m)
        PROVE  TriggersInv'
    BY <1>1, <2>6, RunEndings
  <2>7. CASE \/ \E p \in Answerers, m \in Messages : ClaimTriggerCompletion(p, m)
             \/ \E p \in Answerers : NoCompletion(p) \/ CompleteTriggerCompletion(p) \/ AnswererCrash(p)
             \/ \E p \in Answerers, outcome \in {"succeeded", "retry", "terminal"} :
                  SendCompletion(p, outcome)
             \/ \E m \in Messages : CompletionTimePasses(m)
    BY <1>1, <2>7, Completions
  <2>. QED
    BY <1>1, <2>1, <2>2, <2>3, <2>4, <2>5, <2>6, <2>7 DEF TriggersNext, Results
<1>2. TriggersInv /\ UNCHANGED triggerVars => TriggersInv'
  BY DEF TriggersInv, TriggersTypes, NoEventLost, triggerVars
<1>. QED
  BY <1>1, <1>2, TriggersInvInit, PTL DEF TriggersSpec

\* The source lets go of a message only when its run exists or it was refused
\* for good, for every number of servers and messages.
THEOREM NoEventLostHolds == TriggersSpec => []NoEventLost
<1>1. TriggersInv => NoEventLost
  BY DEF TriggersInv
<1>. QED
  BY <1>1, TriggersInvHolds, PTL

\* A completion that has settled is not opened again by a redelivery, an edit
\* or a late answer.
THEOREM SettledCompletionIsFinalHolds == TriggersSpec => SettledCompletionIsFinal
<1>. DEFINE Final == \A m \in Messages :
              record[m] # NoRecord /\ record[m].completion \in SettledCompletion =>
                /\ record'[m].completion = record[m].completion
                /\ record'[m].attempt = record[m].attempt
<1>1. ASSUME TriggersInv, TriggersNext
      PROVE  Final
  <2>1. CASE record' = record
    BY <2>1
  <2>2. ASSUME NEW v \in Servers, NEW stored \in BOOLEAN, RecordDelivery(v, stored)
        PROVE  Final
    <3>1. consumer[v] # Waiting /\ consumer[v] \notin Received
      BY <2>2 DEF RecordDelivery, Waiting, Received
    <3>2. consumer[v] \in Answered /\ adapter[v].policy \in Policies
      BY <1>1, <3>1 DEF TriggersInv, ConsumerOK
    <3>3. consumer[v].message \in Messages /\ consumer[v].result \in Results
      BY <3>2 DEF Answered
    <3>4. record' = IF stored
                    THEN UpsertTriggerDelivery(consumer[v].message, consumer[v].result, adapter[v].policy)
                    ELSE record
      BY <2>2 DEF RecordDelivery
    <3>. QED
      BY <1>1, <3>2, <3>3, <3>4, Upserts DEF TriggersInv
  <2>3. CASE \/ \E p \in Answerers, m \in Messages : ClaimTriggerCompletion(p, m)
             \/ \E p \in Answerers : NoCompletion(p) \/ CompleteTriggerCompletion(p)
             \/ \E m \in Messages : CompletionTimePasses(m)
    BY <1>1, <2>3, CompletionRecords
  <2>4. \/ record' = record
        \/ \E v \in Servers, stored \in BOOLEAN : RecordDelivery(v, stored)
        \/ \E p \in Answerers, m \in Messages : ClaimTriggerCompletion(p, m)
        \/ \E p \in Answerers : NoCompletion(p) \/ CompleteTriggerCompletion(p)
        \/ \E m \in Messages : CompletionTimePasses(m)
    BY <1>1 DEF TriggersNext, UpdateTrigger, SetTriggerEnabled, DeleteTrigger, Reconcile,
                Acknowledge, ConnectionLost, ServerCrash, ReceiveMessage, Submit, RunEnds,
                AnswererCrash, SendCompletion
  <2>. HIDE DEF Final
  <2>. QED
    BY <2>1, <2>2, <2>3, <2>4
<1>2. TriggersInv /\ [TriggersNext]_triggerVars => [Final]_triggerVars
  BY <1>1
<1>. QED
  BY <1>2, TriggersInvHolds, PTL DEF TriggersSpec, SettledCompletionIsFinal
-----------------------------------------------------------------------------
(* The types of both outboxes *)

\* Type correctness of the webhook outbox: what each subscription, event and
\* delivery records, with its attempts within their bound.
THEOREM WebhookTypesHold == WebhookSpec => []WebhookTypeOK
<1>1. WebhookInv => WebhookTypeOK
  BY WebhookInvMeans
<1>. QED
  BY <1>1, WebhookInvHolds, PTL

\* Type correctness of the triggers: deliveries, their outbox and the sources they
\* came from.
THEOREM TriggersTypesHold == TriggersSpec => []TriggersTypeOK
<1>1. ASSUME TriggersInv PROVE TriggersTypeOK
  <2>1. \A m \in Messages : record[m] \in RecordOfDelivery /\ source[m] \in {"queued", "out", "gone"}
    BY <1>1 DEF TriggersInv, TriggersTypes
  <2>. QED
    BY <1>1, <2>1 DEF TriggersInv, TriggersTypes, TriggersTypeOK, RecordOfDelivery, Results
<1>. QED
  BY <1>1, TriggersInvHolds, PTL
=============================================================================
