-------------------------- MODULE SecretCandidates --------------------------
(***************************************************************************)
(* Secret values that a running action writes are kept in a backend with   *)
(* side effects.  A request stores a candidate there and then, in a        *)
(* transaction of its own, publishes it as the value of the variable.      *)
(* Candidates that never got published, or no longer are, are collected by *)
(* a sweep that runs concurrently and in several steps.                    *)
(*                                                                         *)
(* There is one variable.  A candidate is named by the operation that      *)
(* wrote it (runtimeSecretCandidateID), so a retry stores the same one     *)
(* again.  Whether the attempt still holds its lease and whether the       *)
(* expected revision fits is left open (AppRuntime).                       *)
(***************************************************************************)
EXTENDS Integers, FiniteSets

CONSTANTS
  SecretOps,        \* operation identifiers of the action
  SecretRequests,   \* requests in progress at once
  GraceTicks,       \* GracePeriod of the collector
  RequestTicks,     \* bound on a request, from Store to the publication
  MaxTouches,       \* bound on how often a candidate is stored
  MaxSecretClock    \* bound on the clock

\* The grace period (a day) is longer than any request.
ASSUME SecretsAssumption ==
  /\ {GraceTicks, RequestTicks, MaxTouches, MaxSecretClock} \subseteq Nat
  /\ RequestTicks < GraceTicks

VARIABLES
  candidate,     \* the backend's objects
  published,     \* the candidate the variable refers to, as a set
  recorded,      \* RuntimeConfigOperations: the operations that were applied
  publisher,     \* the requests between Store and the publication
  sweep,         \* the collector
  secretClock

secretVars == <<candidate, published, recorded, publisher, sweep, secretClock>>

NoSweep == [stage |-> "idle", cutoff |-> 0, live |-> {}, page |-> {}]

SecretsInit ==
  /\ candidate = [op \in SecretOps |-> [there |-> FALSE, touched |-> 0, version |-> 0]]
  /\ published = {}
  /\ recorded = {}
  /\ publisher = [r \in SecretRequests |-> [op |-> {}, since |-> 0]]
  /\ sweep = NoSweep
  /\ secretClock = 0

-----------------------------------------------------------------------------
(* Requests *)

\* The backend touches the object even when it is there already.
StoreCandidate(r, op) ==
  /\ publisher[r].op = {}
  /\ candidate[op].version < MaxTouches
  /\ candidate' = [candidate EXCEPT ![op] = [there |-> TRUE, touched |-> secretClock,
                                             version |-> @.version + 1]]
  /\ publisher' = [publisher EXCEPT ![r] = [op |-> {op}, since |-> secretClock]]
  /\ UNCHANGED <<published, recorded, sweep, secretClock>>

\* MutateRuntimeVariable: an operation that was applied before is replayed.
PublishCandidate(r) ==
  /\ publisher[r].op # {}
  /\ IF publisher[r].op \subseteq recorded THEN UNCHANGED <<published, recorded>>
     ELSE /\ published' = publisher[r].op
          /\ recorded' = recorded \cup publisher[r].op
  /\ publisher' = [publisher EXCEPT ![r].op = {}]
  /\ UNCHANGED <<candidate, sweep, secretClock>>

\* The mutation is refused, or the request is lost: the candidate is an orphan.
AbandonCandidate(r) ==
  /\ publisher[r].op # {}
  /\ publisher' = [publisher EXCEPT ![r].op = {}]
  /\ UNCHANGED <<candidate, published, recorded, sweep, secretClock>>

\* An operator deletes the variable, or its app is purged.
RemoveVariable ==
  /\ published # {}
  /\ published' = {}
  /\ UNCHANGED <<candidate, recorded, publisher, sweep, secretClock>>

-----------------------------------------------------------------------------
(* The collector: Sweep *)

BeginSweep ==
  /\ sweep.stage = "idle"
  /\ sweep' = [NoSweep EXCEPT !.stage = "live", !.cutoff = secretClock - GraceTicks]
  /\ UNCHANGED <<candidate, published, recorded, publisher, secretClock>>

ListLiveRuntimeSecretCandidateReferences ==
  /\ sweep.stage = "live"
  /\ sweep' = [sweep EXCEPT !.stage = "list", !.live = published]
  /\ UNCHANGED <<candidate, published, recorded, publisher, secretClock>>

OldCandidates(cutoff) == {op \in SecretOps : candidate[op].there /\ candidate[op].touched <= cutoff}

\* Mutant of ListRuntimeCandidates: the cutoff is taken when the page is listed.
ListRuntimeCandidatesLate ==
  /\ sweep.stage = "list"
  /\ sweep' = [sweep EXCEPT !.stage = "delete",
       !.page = {[op |-> op, version |-> candidate[op].version] :
                   op \in OldCandidates(secretClock - GraceTicks)}]
  /\ UNCHANGED <<candidate, published, recorded, publisher, secretClock>>

\* A page names each object with the version it has now.
ListRuntimeCandidates ==
  /\ sweep.stage = "list"
  /\ sweep' = [sweep EXCEPT !.stage = "delete",
       !.page = {[op |-> op, version |-> candidate[op].version] :
                   op \in OldCandidates(sweep.cutoff)}]
  /\ UNCHANGED <<candidate, published, recorded, publisher, secretClock>>

\* The backend deletes the object if its version is still the listed one.
DeleteRuntimeCandidate(c) ==
  /\ sweep.stage = "delete"
  /\ c \in sweep.page
  /\ sweep' = [sweep EXCEPT !.page = @ \ {c}]
  /\ candidate' = IF c.op \notin sweep.live /\ candidate[c.op].version = c.version
                  THEN [candidate EXCEPT ![c.op].there = FALSE]
                  ELSE candidate
  /\ UNCHANGED <<published, recorded, publisher, secretClock>>

\* The sweep is done, has examined as many as it may, or failed.
EndSweep ==
  /\ sweep.stage # "idle"
  /\ sweep' = NoSweep
  /\ UNCHANGED <<candidate, published, recorded, publisher, secretClock>>

SecretTick ==
  /\ secretClock < MaxSecretClock
  /\ \A r \in SecretRequests :
       publisher[r].op # {} => secretClock - publisher[r].since < RequestTicks
  /\ secretClock' = secretClock + 1
  /\ UNCHANGED <<candidate, published, recorded, publisher, sweep>>

SecretsNext ==
  \/ RemoveVariable \/ SecretTick
  \/ BeginSweep \/ ListLiveRuntimeSecretCandidateReferences \/ ListRuntimeCandidates
  \/ (\E c \in sweep.page : DeleteRuntimeCandidate(c)) \/ EndSweep
  \/ \E r \in SecretRequests :
       \/ \E op \in SecretOps : StoreCandidate(r, op)
       \/ PublishCandidate(r) \/ AbandonCandidate(r)

SecretsSpec == SecretsInit /\ [][SecretsNext]_secretVars

-----------------------------------------------------------------------------
(* Properties *)

\* Type correctness of the variable, of the candidates and of the sweep: a variable refers
\* only to an operation whose result the store recorded.
SecretsTypeOK ==
  /\ published \subseteq recorded /\ recorded \subseteq SecretOps
  /\ \A op \in SecretOps : candidate[op].version \in 0..MaxTouches
  /\ sweep.stage \in {"idle", "live", "list", "delete"}
  /\ secretClock \in 0..MaxSecretClock

\* What the variable refers to is always in the backend: no sweep, however
\* slow, deletes a candidate that was published while the sweep was running or
\* that a retry stored again.
PublishedSecretResolves == \A op \in published : candidate[op].there
=============================================================================
