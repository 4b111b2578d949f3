---------------------------- MODULE DemandProofs ----------------------------
(***************************************************************************)
(* Proof that the demand a worker scope is told is what its claims would   *)
(* hand out: the snapshot of queue_demand.go and a claim repeated until it *)
(* finds no job make the same choice, for any queue, policies and scopes.  *)
(***************************************************************************)
EXTENDS ClaimReleaseProofs

(* Claims take jobs in a strict total order. *)
LEMMA ClaimOrder ==
  /\ \A i, j \in QueueJobs : i = j \/ ClaimsBefore(i, j) \/ ClaimsBefore(j, i)
  /\ \A i, j \in QueueJobs : ClaimsBefore(i, j) => i # j /\ ~ClaimsBefore(j, i)
  /\ \A i, j, k \in QueueJobs : ClaimsBefore(i, j) /\ ClaimsBefore(j, k) => ClaimsBefore(i, k)
<1>1. \A j \in QueueJobs : /\ j \in Int
                           /\ Payload[j].priority \in Int /\ Payload[j].created \in Int
  BY LimitsAssumption DEF JobPayload
<1>. QED
  BY <1>1 DEF ClaimsBefore

\* The members of a set of jobs that come before j.
Prior(S, j) == {i \in S : ClaimsBefore(i, j)}

(* The later of two jobs has more jobs of a set before it, if the set has the earlier. *)
LEMMA RanksGrow ==
  ASSUME NEW S \in SUBSET QueueJobs
  PROVE  /\ \A j \in QueueJobs : Cardinality(Prior(S, j)) \in Nat
         /\ \A i \in S, j \in QueueJobs :
              ClaimsBefore(i, j) => Cardinality(Prior(S, i)) < Cardinality(Prior(S, j))
<1>1. IsFiniteSet(S)
  BY LimitsAssumption, FS_Subset
<1>2. \A j : IsFiniteSet(Prior(S, j)) /\ Cardinality(Prior(S, j)) \in Nat
  BY <1>1, FS_Subset, FS_CardinalityType DEF Prior
<1>3. ASSUME NEW i \in S, NEW j \in QueueJobs, ClaimsBefore(i, j)
      PROVE  Cardinality(Prior(S, i)) < Cardinality(Prior(S, j))
  <2>1. Prior(S, i) \subseteq Prior(S, j) /\ i \in Prior(S, j) /\ i \notin Prior(S, i)
    BY <1>3, ClaimOrder DEF Prior
  <2>2. Prior(S, i) # Prior(S, j)
    BY <2>1
  <2>. QED
    BY <1>2, <2>1, <2>2, FS_Subset
<1>. QED
  BY <1>2, <1>3

(* A set of jobs that is not empty has a first one. *)
LEMMA FirstJob ==
  ASSUME NEW S \in SUBSET QueueJobs, S # {}
  PROVE  \E j \in S : \A i \in S \ {j} : ClaimsBefore(j, i)
<1>. DEFINE ranks == {Cardinality(Prior(S, j)) : j \in S}
<1>1. ranks \subseteq Nat /\ ranks # {}
  BY RanksGrow
<1>2. PICK j \in S : \A i \in S : Cardinality(Prior(S, j)) <= Cardinality(Prior(S, i))
  <2>1. Min(ranks) \in ranks /\ \A x \in ranks : Min(ranks) <= x
    BY <1>1, MinOf
  <2>. QED
    BY <2>1
<1>3. ASSUME NEW i \in S \ {j} PROVE ClaimsBefore(j, i)
  <2>1. ~ClaimsBefore(i, j)
    <3>. SUFFICES ASSUME ClaimsBefore(i, j) PROVE FALSE
      OBVIOUS
    <3>1. Cardinality(Prior(S, i)) < Cardinality(Prior(S, j))
      BY RanksGrow
    <3>2. Cardinality(Prior(S, i)) \in Nat /\ Cardinality(Prior(S, j)) \in Nat
      BY RanksGrow
    <3>. QED
      BY <1>2, <3>1, <3>2
  <2>. QED
    BY <2>1, ClaimOrder
<1>. QED
  BY <1>3

(* InClaimOrder lists every job of a set, in claim order: the place of a job is one more  *)
(* than the number of the jobs before it.                                                *)
LEMMA ListsEvery ==
  ASSUME NEW S \in SUBSET QueueJobs
  PROVE  /\ InClaimOrder(S) \in [1..Cardinality(S) -> S]
         /\ \A m, n \in 1..Cardinality(S) :
              m < n => ClaimsBefore(InClaimOrder(S)[m], InClaimOrder(S)[n])
         /\ \A j \in S : \E n \in 1..Cardinality(S) : InClaimOrder(S)[n] = j
<1>. DEFINE N == Cardinality(S)
            rank == [j \in S |-> Cardinality(Prior(S, j)) + 1]
            InOrder(s) == \A m, n \in 1..N : m < n => ClaimsBefore(s[m], s[n])
<1>1. IsFiniteSet(S) /\ N \in Nat
  BY LimitsAssumption, FS_Subset, FS_CardinalityType
<1>2. IsFiniteSet(1..N) /\ Cardinality(1..N) = N
  BY <1>1, FS_Interval
<1>3. rank \in [S -> 1..N]
  <2>. SUFFICES ASSUME NEW j \in S PROVE Cardinality(Prior(S, j)) + 1 \in 1..N
    OBVIOUS
  <2>1. Prior(S, j) \subseteq S /\ j \notin Prior(S, j)
    BY ClaimOrder DEF Prior
  <2>2. Prior(S, j) # S
    BY <2>1
  <2>3. Cardinality(Prior(S, j)) \in Nat
    BY RanksGrow
  <2>4. Cardinality(Prior(S, j)) < Cardinality(S)
    BY <1>1, <2>1, <2>2, <2>3, FS_Subset
  <2>. QED
    BY <1>1, <2>3, <2>4
<1>4. \A i, j \in S : ClaimsBefore(i, j) => rank[i] < rank[j]
  <2>. SUFFICES ASSUME NEW i \in S, NEW j \in S, ClaimsBefore(i, j) PROVE rank[i] < rank[j]
    OBVIOUS
  <2>1. Cardinality(Prior(S, i)) \in Nat /\ Cardinality(Prior(S, j)) \in Nat
    BY RanksGrow
  <2>2. Cardinality(Prior(S, i)) < Cardinality(Prior(S, j))
    BY RanksGrow
  <2>. QED
    BY <2>1, <2>2
<1>5. rank \in Injection(S, 1..N)
  <2>1. \A i, j \in S : rank[i] = rank[j] => i = j
    BY <1>3, <1>4, ClaimOrder
  <2>. QED
    BY <1>3, <2>1 DEF Injection, IsInjective
<1>6. rank \in Surjection(S, 1..N)
  BY <1>1, <1>2, <1>5, FS_Injection
<1>7. \A n \in 1..N : \E j \in S : rank[j] = n
  BY <1>6 DEF Surjection
<1>. HIDE DEF rank
<1>8. \E s \in [1..N -> S] : InOrder(s)
  <2>. DEFINE s == [n \in 1..N |-> CHOOSE j \in S : rank[j] = n]
  <2>1. \A n \in 1..N : s[n] \in S /\ rank[s[n]] = n
    BY <1>7
  <2>. HIDE DEF s
  <2>2. s \in [1..N -> S]
    BY <2>1 DEF s
  <2>3. ASSUME NEW m \in 1..N, NEW n \in 1..N, m < n PROVE ClaimsBefore(s[m], s[n])
    BY <2>1, <2>3, <1>4, ClaimOrder
  <2>. QED
    BY <2>2, <2>3
<1>9. InClaimOrder(S) \in [1..N -> S] /\ InOrder(InClaimOrder(S))
  BY <1>8 DEF InClaimOrder
<1>10. \A j \in S : \E n \in 1..N : InClaimOrder(S)[n] = j
  <2>. DEFINE s == InClaimOrder(S)
  <2>. HIDE DEF s
  <2>1. s \in [1..N -> S] /\ InOrder(s)
    BY <1>9 DEF s
  <2>2. \A m, n \in 1..N : s[m] = s[n] => m = n
    BY <1>1, <2>1, ClaimOrder
  <2>3. s \in Injection(1..N, S)
    BY <2>1, <2>2 DEF Injection, IsInjective
  <2>4. s \in Surjection(1..N, S)
    BY <1>1, <1>2, <2>3, FS_Injection
  <2>. QED
    BY <2>4 DEF Surjection, s
<1>. QED
  BY <1>9, <1>10

-----------------------------------------------------------------------------
(* Room *)

\* What the greedy pass counts for a job when it has admitted A: the jobs of its app, the
\* jobs of one of its keys, and the admitted jobs that spend from a bucket.
Busy(A) == {i \in QueueJobs : activeQueueLease(i)} \cup A

BusyOfApp(A, j) == {i \in Busy(A) : jobAppKey(i) = jobAppKey(j)}

BusyOfKey(A, j, pin) ==
  {i \in Busy(A) : \E p \in Payload[i].concurrency :
     keyedConcurrencyCountKey(i, p) = keyedConcurrencyCountKey(j, pin)}

Spenders(A, k) == {i \in A : \E p \in Payload[i].rate : rateBucketKey(i, p) = k}

(* A candidate is admitted if each of these counts leaves room. *)
LEMMA Admits ==
  ASSUME NEW A, NEW j
  PROVE  DemandAdmits(A, j) <=>
           /\ \A limit \in effectiveAppConcurrencyLimit(j) : Cardinality(BusyOfApp(A, j)) < limit
           /\ \A pin \in Payload[j].concurrency :
                Cardinality(BusyOfKey(A, j, pin)) < effectiveKeyedConcurrencyLimit(j, pin)
           /\ \A pin \in Payload[j].rate :
                currentRateUsage[rateBucketKey(j, pin)]
                  + Cardinality(Spenders(A, rateBucketKey(j, pin))) < effectiveKeyedRateLimit(j, pin)
  BY DEF DemandAdmits, Busy, BusyOfApp, BusyOfKey, Spenders

(* A subset of a set of jobs is no larger. *)
LEMMA Fewer ==
  ASSUME NEW H \in SUBSET QueueJobs, NEW S \in SUBSET H
  PROVE  /\ Cardinality(S) \in Nat /\ Cardinality(H) \in Nat
         /\ Cardinality(S) <= Cardinality(H)
<1>1. IsFiniteSet(H)
  BY LimitsAssumption, FS_Subset
<1>2. IsFiniteSet(S) /\ Cardinality(S) <= Cardinality(H)
  BY <1>1, FS_Subset
<1>. QED
  BY <1>1, <1>2, FS_CardinalityType

\* What the queue, the buckets and the policies are where the demand is computed.
DemandState ==
  /\ LimitsTypeOK /\ PolicyInv
  /\ \A j \in QueueJobs : queue[j].state = "queued" => ~queue[j].canceled

(* What a bucket holds of the present window is a natural number. *)
LEMMA UsageType ==
  ASSUME DemandState
  PROVE  \A k \in RateKeys : currentRateUsage[k] \in Nat
  BY DEF DemandState, LimitsTypeOK, currentRateUsage

(* Every job that is admitted leaves less room: whoever fits after more jobs were         *)
(* admitted would have fitted before.                                                     *)
LEMMA RoomShrinks ==
  ASSUME DemandState, NEW B \in SUBSET QueueJobs, NEW A \in SUBSET B, NEW j \in QueueJobs,
         DemandAdmits(B, j)
  PROVE  DemandAdmits(A, j)
<1>1. /\ effectiveAppConcurrencyLimit(j) \subseteq Nat
      /\ \A pin \in Payload[j].concurrency : effectiveKeyedConcurrencyLimit(j, pin) \in Nat
      /\ \A pin \in Payload[j].rate : effectiveKeyedRateLimit(j, pin) \in Nat
  BY EffectiveLimits DEF DemandState
<1>2. ASSUME NEW H \in SUBSET QueueJobs, NEW S \in SUBSET H, NEW limit \in Nat,
             Cardinality(H) < limit
      PROVE  Cardinality(S) < limit
  BY <1>2, Fewer
<1>3. ASSUME NEW limit \in effectiveAppConcurrencyLimit(j)
      PROVE  Cardinality(BusyOfApp(A, j)) < limit
  <2>1. BusyOfApp(B, j) \in SUBSET QueueJobs /\ BusyOfApp(A, j) \in SUBSET BusyOfApp(B, j)
    BY DEF BusyOfApp, Busy
  <2>2. Cardinality(BusyOfApp(B, j)) < limit
    BY <1>3, Admits
  <2>. QED
    BY <1>1, <1>2, <2>1, <2>2
<1>4. ASSUME NEW pin \in Payload[j].concurrency
      PROVE  Cardinality(BusyOfKey(A, j, pin)) < effectiveKeyedConcurrencyLimit(j, pin)
  <2>1. /\ BusyOfKey(B, j, pin) \in SUBSET QueueJobs
        /\ BusyOfKey(A, j, pin) \in SUBSET BusyOfKey(B, j, pin)
    BY DEF BusyOfKey, Busy
  <2>2. Cardinality(BusyOfKey(B, j, pin)) < effectiveKeyedConcurrencyLimit(j, pin)
    BY <1>4, Admits
  <2>. QED
    BY <1>1, <1>2, <2>1, <2>2
<1>5. ASSUME NEW pin \in Payload[j].rate
      PROVE  currentRateUsage[rateBucketKey(j, pin)]
               + Cardinality(Spenders(A, rateBucketKey(j, pin))) < effectiveKeyedRateLimit(j, pin)
  <2>. DEFINE k == rateBucketKey(j, pin)
  <2>1. k \in RateKeys
    BY DEF RateKeys
  <2>. HIDE DEF k
  <2>2. Spenders(B, k) \in SUBSET QueueJobs /\ Spenders(A, k) \in SUBSET Spenders(B, k)
    BY DEF Spenders
  <2>3. currentRateUsage[k] + Cardinality(Spenders(B, k)) < effectiveKeyedRateLimit(j, pin)
    BY <1>5, Admits DEF k
  <2>4. currentRateUsage[k] \in Nat
    BY <2>1, UsageType
  <2>5. /\ Cardinality(Spenders(A, k)) \in Nat /\ Cardinality(Spenders(B, k)) \in Nat
        /\ Cardinality(Spenders(A, k)) <= Cardinality(Spenders(B, k))
    BY <2>2, Fewer
  <2>6. effectiveKeyedRateLimit(j, pin) \in Nat
    BY <1>1, <1>5
  <2>. QED
    BY <2>3, <2>4, <2>5, <2>6 DEF k
<1>. QED
  BY <1>3, <1>4, <1>5, Admits

-----------------------------------------------------------------------------
(* The greedy choice *)

\* Of the jobs C, exactly those were taken that had room after the ones taken before them.
Greedy(A, C) ==
  /\ A \subseteq C
  /\ \A j \in C : j \in A <=> DemandAdmits(Prior(A, j), j)

(* There is one greedy choice: two of them agree on the first job, and so on. *)
LEMMA GreedyIsUnique ==
  ASSUME NEW C \in SUBSET QueueJobs, NEW A, NEW B, Greedy(A, C), Greedy(B, C)
  PROVE  A = B
<1>. DEFINE D == {j \in C : ~(j \in A <=> j \in B)}
<1>1. A \subseteq C /\ B \subseteq C
  BY DEF Greedy
<1>2. CASE D = {}
  BY <1>1, <1>2
<1>3. CASE D # {}
  <2>1. D \in SUBSET QueueJobs
    OBVIOUS
  <2>2. PICK j \in D : \A i \in D \ {j} : ClaimsBefore(j, i)
    BY <1>3, <2>1, FirstJob
  <2>3. \A i \in C : ClaimsBefore(i, j) => i \notin D
    BY <2>1, <2>2, ClaimOrder
  <2>4. Prior(A, j) = Prior(B, j)
    BY <1>1, <2>3 DEF Prior
  <2>. QED
    BY <2>2, <2>4 DEF Greedy
<1>. QED
  BY <1>2, <1>3

-----------------------------------------------------------------------------
(* Induction and recursion up to a bound, for sets and functions *)

(* A set that has 0 and goes on from n - 1 to n has every number up to the bound. *)
LEMMA UpTo ==
  ASSUME NEW N \in Nat, NEW S, 0 \in S, \A n \in 1..N : n - 1 \in S => n \in S
  PROVE  0..N \subseteq S
<1>. DEFINE bad == (0..N) \ S
<1>. SUFFICES ASSUME bad # {} PROVE FALSE
  OBVIOUS
<1>1. bad \subseteq Nat
  OBVIOUS
<1>2. Min(bad) \in bad /\ \A x \in bad : Min(bad) <= x
  BY <1>1, MinOf
<1>3. PICK n \in bad : \A x \in bad : n <= x
  BY <1>2
<1>4. n \in 1..N /\ n - 1 \in 0..N
  BY <1>3
<1>. QED
  BY <1>3, <1>4

\* A rule takes the value for n - 1 to the value for n.
IsRule(F, N, D) == \A n \in 1..N, x \in D : F[<<n, x>>] \in D

\* The function of the values from 0 to N.
IsBuilt(f, base, F, N) == f[0] = base /\ \A n \in 1..N : f[n] = F[<<n, f[n - 1]>>]

(* A value for 0 and a rule make a function. *)
LEMMA Recursion ==
  ASSUME NEW N \in Nat, NEW D, NEW base \in D, NEW F, IsRule(F, N, D)
  PROVE  \E f \in [0..N -> D] : IsBuilt(f, base, F, N)
<1>. DEFINE Good(n, f) == f[0] = base /\ \A m \in 1..n : f[m] = F[<<m, f[m - 1]>>]
            S == {n \in 0..N : \E f \in [0..n -> D] : Good(n, f)}
<1>1. 0 \in S
  <2>. DEFINE f == [m \in 0..0 |-> base]
  <2>1. f \in [0..0 -> D] /\ f[0] = base
    OBVIOUS
  <2>. HIDE DEF f
  <2>2. Good(0, f)
    BY <2>1
  <2>3. \E g \in [0..0 -> D] : Good(0, g)
    BY <2>1, <2>2
  <2>. HIDE DEF Good
  <2>. QED
    BY <2>3
<1>2. ASSUME NEW n \in 1..N, n - 1 \in S PROVE n \in S
  <2>1. PICK f \in [0..(n - 1) -> D] : Good(n - 1, f)
    BY <1>2
  <2>. DEFINE g == [m \in 0..n |-> IF m = n THEN F[<<n, f[n - 1]>>] ELSE f[m]]
  <2>2. f[n - 1] \in D /\ F[<<n, f[n - 1]>>] \in D
    BY <2>1 DEF IsRule
  <2>3. g \in [0..n -> D]
    BY <2>1, <2>2
  <2>4. g[0] = base /\ g[n] = F[<<n, f[n - 1]>>] /\ \A m \in 0..(n - 1) : g[m] = f[m]
    BY <2>1
  <2>. HIDE DEF g
  <2>5. ASSUME NEW m \in 1..n PROVE g[m] = F[<<m, g[m - 1]>>]
    <3>1. CASE m = n
      BY <2>4, <3>1
    <3>2. CASE m # n
      <4>1. m \in 1..(n - 1) /\ m \in 0..(n - 1) /\ m - 1 \in 0..(n - 1)
        BY <3>2
      <4>2. f[m] = F[<<m, f[m - 1]>>]
        BY <2>1, <4>1
      <4>. QED
        BY <2>4, <4>1, <4>2
    <3>. QED
      BY <3>1, <3>2
  <2>. QED
    BY <2>3, <2>4, <2>5
<1>3. N \in S
  <2>. HIDE DEF S
  <2>1. 0..N \subseteq S
    BY <1>1, <1>2, UpTo
  <2>. QED
    BY <2>1
<1>. QED
  BY <1>3 DEF IsBuilt

-----------------------------------------------------------------------------
(* The greedy pass of the snapshot *)

\* The values of the pass over the list s, given those before.
Pass(f, s, N) ==
  [n \in 0..N |->
     IF n = 0 THEN {}
     ELSE f[n - 1] \cup IF DemandAdmits(f[n - 1], s[n]) THEN {s[n]} ELSE {}]

(* The pass over a list of candidates is a function. *)
LEMMA PassFunction ==
  ASSUME NEW C, NEW N \in Nat, NEW s \in [1..N -> C]
  PROVE  \E f : f = Pass(f, s, N)
<1>. DEFINE F == [x \in (1..N) \X SUBSET C |->
                    x[2] \cup IF DemandAdmits(x[2], s[x[1]]) THEN {s[x[1]]} ELSE {}]
<1>2. \A n \in 1..N, A \in SUBSET C :
        F[<<n, A>>] = A \cup IF DemandAdmits(A, s[n]) THEN {s[n]} ELSE {}
  OBVIOUS
<1>. HIDE DEF F
<1>3. PICK f \in [0..N -> SUBSET C] :
        f[0] = {} /\ \A n \in 1..N : f[n] = F[<<n, f[n - 1]>>]
  <2>. DEFINE D    == SUBSET C
              base == {}
  <2>1. base \in D /\ IsRule(F, N, D)
    BY <1>2 DEF IsRule
  <2>. HIDE DEF D, base
  <2>2. \E f \in [0..N -> D] : IsBuilt(f, base, F, N)
    BY <2>1, Recursion
  <2>. QED
    BY <2>2 DEF D, base, IsBuilt
<1>4. ASSUME NEW n \in 0..N PROVE f[n] = Pass(f, s, N)[n]
  <2>1. CASE n = 0
    BY <1>3, <2>1 DEF Pass
  <2>2. CASE n # 0
    <3>1. n \in 1..N /\ n - 1 \in 0..N
      BY <2>2
    <3>2. f[n - 1] \in SUBSET C
      BY <1>3, <3>1
    <3>. QED
      BY <1>2, <1>3, <2>2, <3>1, <3>2 DEF Pass
  <2>. QED
    BY <2>1, <2>2
<1>5. f = Pass(f, s, N)
  BY <1>3, <1>4 DEF Pass
<1>. QED
  BY <1>5

(* The pass is a function that meets its recursive definition. *)
LEMMA PassExists ==
  ASSUME NEW scope, NEW C, C = WaitingFor(scope), NEW N, N = Cardinality(C),
         NEW s, s = InClaimOrder(C)
  PROVE  \E f : /\ buildQueueDemandSnapshot(scope) = f[N]
                /\ f[0] = {}
                /\ \A n \in 1..N :
                     f[n] = f[n - 1] \cup IF DemandAdmits(f[n - 1], s[n]) THEN {s[n]} ELSE {}
<1>1. C \in SUBSET QueueJobs /\ N \in Nat
  <2>1. C \in SUBSET QueueJobs
    BY DEF WaitingFor
  <2>2. IsFiniteSet(C)
    BY <2>1, LimitsAssumption, FS_Subset
  <2>. QED
    BY <2>1, <2>2, FS_CardinalityType
<1>2. s \in [1..N -> C]
  BY <1>1, ListsEvery
<1>3. buildQueueDemandSnapshot(scope) = (CHOOSE f : f = Pass(f, s, N))[N]
  BY DEF buildQueueDemandSnapshot, WaitingFor, Pass
<1>4. \E f : f = Pass(f, s, N)
  BY <1>1, <1>2, PassFunction
<1>5. PICK f : f = Pass(f, s, N) /\ f = CHOOSE g : g = Pass(g, s, N)
  BY <1>4
<1>6. f[0] = {}
  BY <1>1, <1>5 DEF Pass
<1>7. ASSUME NEW n \in 1..N
      PROVE  f[n] = f[n - 1] \cup IF DemandAdmits(f[n - 1], s[n]) THEN {s[n]} ELSE {}
  <2>1. n \in 0..N /\ n # 0
    BY <1>1
  <2>2. f[n] = Pass(f, s, N)[n]
    BY <1>5
  <2>. QED
    BY <2>1, <2>2 DEF Pass
<1>8. buildQueueDemandSnapshot(scope) = f[N]
  BY <1>3, <1>5
<1>. QED
  BY <1>6, <1>7, <1>8

(* The snapshot makes the greedy choice: whoever it admits comes after all it admitted.   *)
LEMMA SnapshotIsGreedy ==
  ASSUME NEW scope
  PROVE  Greedy(buildQueueDemandSnapshot(scope), WaitingFor(scope))
<1>. SUFFICES ASSUME NEW C, C = WaitingFor(scope), NEW N, N = Cardinality(C),
                     NEW s, s = InClaimOrder(C)
              PROVE  Greedy(buildQueueDemandSnapshot(scope), C)
  OBVIOUS
<1>1. C \in SUBSET QueueJobs
  BY DEF WaitingFor
<1>2. N \in Nat
  BY <1>1, LimitsAssumption, FS_Subset, FS_CardinalityType
<1>3. /\ s \in [1..N -> C]
      /\ \A m, n \in 1..N : m < n => ClaimsBefore(s[m], s[n])
      /\ \A j \in C : \E n \in 1..N : s[n] = j
  BY <1>1, ListsEvery
<1>4. PICK f : /\ buildQueueDemandSnapshot(scope) = f[N]
               /\ f[0] = {}
               /\ \A n \in 1..N :
                    f[n] = f[n - 1] \cup IF DemandAdmits(f[n - 1], s[n]) THEN {s[n]} ELSE {}
  BY PassExists
<1>. DEFINE First(n) == {s[m] : m \in 1..n}
            Chosen(n) == /\ f[n] \subseteq First(n)
                         /\ \A m \in 1..n :
                              s[m] \in f[n] <=> DemandAdmits(Prior(f[n], s[m]), s[m])
            S == {n \in 0..N : Chosen(n)}
<1>5. 0 \in S
  BY <1>2, <1>4
<1>6. ASSUME NEW n \in 1..N, n - 1 \in S PROVE n \in S
  <2>. DEFINE A == f[n - 1]
              j == s[n]
  <2>1. n - 1 \in Nat /\ n - 1 < n /\ 1..(n - 1) \subseteq 1..N /\ 1..n = 1..(n - 1) \cup {n}
    BY <1>2
  <2>2. A \subseteq First(n - 1)
    BY <1>6
  <2>3. \A m \in 1..(n - 1) : s[m] \in A <=> DemandAdmits(Prior(A, s[m]), s[m])
    BY <1>6
  <2>4. f[n] = A \cup IF DemandAdmits(A, j) THEN {j} ELSE {}
    BY <1>4
  <2>5. \A m \in 1..(n - 1) : ClaimsBefore(s[m], j) /\ ~ClaimsBefore(j, s[m]) /\ s[m] # j
    <3>1. \A m \in 1..(n - 1) : m \in 1..N /\ m < n
      BY <1>2
    <3>2. \A m \in 1..N : s[m] \in QueueJobs
      BY <1>1, <1>3
    <3>. QED
      BY <1>3, <3>1, <3>2, ClaimOrder
  <2>6. ~ClaimsBefore(j, j)
    BY <1>1, <1>3, ClaimOrder
  <2>. HIDE DEF j, A
  <2>7. Prior(f[n], j) = A /\ j \notin A
    BY <2>2, <2>4, <2>5, <2>6 DEF Prior
  <2>8. \A m \in 1..(n - 1) : Prior(f[n], s[m]) = Prior(A, s[m]) /\ (s[m] \in f[n] <=> s[m] \in A)
    BY <2>4, <2>5 DEF Prior
  <2>9. f[n] \subseteq First(n)
    BY <2>1, <2>2, <2>4 DEF j
  <2>10. j \in f[n] <=> DemandAdmits(Prior(f[n], j), j)
    BY <2>4, <2>7
  <2>11. \A m \in 1..n : s[m] \in f[n] <=> DemandAdmits(Prior(f[n], s[m]), s[m])
    BY <2>1, <2>3, <2>8, <2>10 DEF j
  <2>. QED
    BY <2>9, <2>11
<1>7. N \in S
  <2>. HIDE DEF S
  <2>1. 0..N \subseteq S
    BY <1>2, <1>5, <1>6, UpTo
  <2>. QED
    BY <1>2, <2>1
<1>8. f[N] \subseteq C
  BY <1>3, <1>7
<1>9. \A j \in C : j \in f[N] <=> DemandAdmits(Prior(f[N], j), j)
  BY <1>3, <1>7
<1>. QED
  BY <1>4, <1>8, <1>9 DEF Greedy

-----------------------------------------------------------------------------
(* Repeated claims *)

QueueJob == [state : {"queued", "running", "done"}, starts : 0..MaxStarts,
             expires : 0..(MaxClock + LeaseTicks), canceled : BOOLEAN]

\* What a sequence of claims has made of the store: the queue, the buckets and the jobs it
\* handed out.
ClaimState == [q : [QueueJobs -> QueueJob], b : [RateKeys -> Bucket], jobs : SUBSET QueueJobs]

\* What the claims taken so far did: the jobs handed out run, and each bucket of the present
\* window has spent what it had spent before and one attempt for each of them.
Claimed(c, scope) ==
  /\ c \in ClaimState
  /\ c.jobs \subseteq WaitingFor(scope)
  /\ \A i \in QueueJobs :
       c.q[i].state = IF i \in c.jobs THEN "running" ELSE requeueExpiredJobs[i].state
  /\ \A k \in RateKeys :
       IF c.b[k].window = rateWindow(clock)
       THEN c.b[k].consumed = currentRateUsage[k] + Cardinality(Spenders(c.jobs, k))
       ELSE currentRateUsage[k] = 0 /\ Spenders(c.jobs, k) = {}

\* Where the property compares the two programs.
Comparable(scope) == DemandState /\ \A j \in WaitingFor(scope) : SameTestApplies(j)

(* Recovery leaves running what the snapshot counts as leased, and queued what it counts  *)
(* as a candidate.                                                                        *)
LEMMA RequeuedJobs ==
  ASSUME DemandState, NEW j \in QueueJobs
  PROVE  /\ requeueExpiredJobs[j] \in QueueJob
         /\ requeueExpiredJobs[j].state = "running" <=> activeQueueLease(j)
         /\ requeueExpiredJobs[j].state = "queued" <=> queueDemandCandidate(j)
<1>1. queue[j] \in QueueJob /\ clock \in Int
  BY DEF DemandState, LimitsTypeOK, QueueJob
<1>2. queue[j].state = "queued" => ~queue[j].canceled
  BY DEF DemandState
<1>3. MaxClock + LeaseTicks \in Nat
  BY LimitsAssumption
<1>. DEFINE r == [queue[j] EXCEPT !.state = IF queue[j].canceled THEN "done" ELSE "queued",
                                  !.expires = 0]
<1>4. r \in QueueJob /\ r.state = IF queue[j].canceled THEN "done" ELSE "queued"
  <2>1. 0 \in 0..(MaxClock + LeaseTicks)
    BY <1>3
  <2>2. \A x : x = [queue[j] EXCEPT !.state = IF queue[j].canceled THEN "done" ELSE "queued",
                                    !.expires = 0] => x \in QueueJob
    BY <1>1, <2>1 DEF QueueJob
  <2>. QED
    BY <1>1, <2>2 DEF QueueJob
<1>5. requeueExpiredJobs[j] = IF LeaseExpired(j) THEN r ELSE queue[j]
  BY DEF requeueExpiredJobs
<1>. HIDE DEF r
<1>6. queue[j].expires \in Int /\ queue[j].canceled \in BOOLEAN
  BY <1>1 DEF QueueJob
<1>7. CASE LeaseExpired(j)
  <2>1. queue[j].state = "running" /\ ~(queue[j].expires > clock)
    BY <1>1, <1>6, <1>7 DEF LeaseExpired
  <2>. QED
    BY <1>4, <1>5, <1>6, <1>7, <2>1 DEF activeQueueLease, queueDemandCandidate
<1>8. CASE ~LeaseExpired(j)
  <2>1. queue[j].state = "running" => queue[j].expires > clock
    BY <1>1, <1>6, <1>8 DEF LeaseExpired
  <2>. QED
    BY <1>1, <1>2, <1>5, <1>8, <2>1 DEF activeQueueLease, queueDemandCandidate
<1>. QED
  BY <1>7, <1>8

(* The tests of a claim and of the snapshot agree: after the same jobs were handed out,   *)
(* the same candidates have room.                                                         *)
LEMMA SameTests ==
  ASSUME NEW scope, Comparable(scope), NEW c, Claimed(c, scope)
  PROVE  Claimable(c.q, c.b, scope) =
           {j \in WaitingFor(scope) \ c.jobs : DemandAdmits(c.jobs, j)}
<1>. SUFFICES ASSUME NEW j \in QueueJobs
              PROVE  j \in Claimable(c.q, c.b, scope) <=>
                       j \in WaitingFor(scope) /\ j \notin c.jobs /\ DemandAdmits(c.jobs, j)
  BY DEF Claimable, WaitingFor
<1>1. DemandState
  BY DEF Comparable
<1>2. c.jobs \in SUBSET QueueJobs
  BY DEF Claimed, ClaimState
<1>3. Running(c.q) = Busy(c.jobs)
  BY <1>1, <1>2, RequeuedJobs DEF Claimed, Running, Busy
<1>4. c.q[j].state = "queued" <=> queueDemandCandidate(j) /\ j \notin c.jobs
  BY <1>1, <1>2, RequeuedJobs DEF Claimed
<1>waiting. j \in WaitingFor(scope) <=> claimAllowed(j, scope) /\ queueDemandCandidate(j)
  BY DEF WaitingFor
<1>. SUFFICES ASSUME j \in WaitingFor(scope)
              PROVE  j \in Claimable(c.q, c.b, scope) <=>
                       j \notin c.jobs /\ DemandAdmits(c.jobs, j)
  BY <1>4, <1>waiting DEF Claimable
<1>5. appRuntimeAllowsNewAttempt(j) /\ \A pin \in Payload[j].concurrency : pin.shape # ""
  BY DEF Comparable, SameTestApplies
<1>6. ASSUME NEW S \in SUBSET QueueJobs, NEW limit \in Nat
      PROVE  ~(Cardinality(S) >= limit) <=> Cardinality(S) < limit
  BY Fewer
<1>7. /\ effectiveAppConcurrencyLimit(j) \subseteq Nat
      /\ \A pin \in Payload[j].concurrency : effectiveKeyedConcurrencyLimit(j, pin) \in Nat
      /\ \A pin \in Payload[j].rate : effectiveKeyedRateLimit(j, pin) \in Nat \ {0}
  BY <1>1, EffectiveLimits DEF DemandState
<1>8. Busy(c.jobs) \in SUBSET QueueJobs
  BY <1>2 DEF Busy
<1>9. (\A limit \in effectiveAppConcurrencyLimit(j) :
         ~(Cardinality({i \in Running(c.q) : jobAppKey(i) = jobAppKey(j)}) >= limit))
      <=> \A limit \in effectiveAppConcurrencyLimit(j) :
            Cardinality(BusyOfApp(c.jobs, j)) < limit
  <2>1. {i \in Running(c.q) : jobAppKey(i) = jobAppKey(j)} = BusyOfApp(c.jobs, j)
    BY <1>3 DEF BusyOfApp
  <2>2. BusyOfApp(c.jobs, j) \in SUBSET QueueJobs
    BY <1>8 DEF BusyOfApp
  <2>. QED
    BY <1>6, <1>7, <2>1, <2>2
<1>10. ~keyedConcurrencyReached(c.q, j)
       <=> \A pin \in Payload[j].concurrency :
             Cardinality(BusyOfKey(c.jobs, j, pin)) < effectiveKeyedConcurrencyLimit(j, pin)
  <2>1. ASSUME NEW pin \in Payload[j].concurrency
        PROVE  /\ {i \in Running(c.q) : jobHasKeyedConcurrencyPin(i, j, pin)}
                    = BusyOfKey(c.jobs, j, pin)
               /\ BusyOfKey(c.jobs, j, pin) \in SUBSET QueueJobs
    <3>1. pin.shape # ""
      BY <1>5, <2>1
    <3>2. \A i \in QueueJobs :
            jobHasKeyedConcurrencyPin(i, j, pin) <=>
              \E p \in Payload[i].concurrency :
                keyedConcurrencyCountKey(i, p) = keyedConcurrencyCountKey(j, pin)
      BY <3>1 DEF jobHasKeyedConcurrencyPin, keyedConcurrencyCountKey
    <3>. QED
      BY <1>3, <1>8, <3>2 DEF BusyOfKey
  <2>. QED
    BY <1>6, <1>7, <2>1 DEF keyedConcurrencyReached
<1>11. ~rateLimitsReached(c.b, j)
       <=> \A pin \in Payload[j].rate :
             currentRateUsage[rateBucketKey(j, pin)]
               + Cardinality(Spenders(c.jobs, rateBucketKey(j, pin)))
                 < effectiveKeyedRateLimit(j, pin)
  <2>1. ASSUME NEW pin \in Payload[j].rate
        PROVE  ~(/\ c.b[rateBucketKey(j, pin)].window = rateWindow(clock)
                 /\ c.b[rateBucketKey(j, pin)].consumed >= effectiveKeyedRateLimit(j, pin))
               <=> currentRateUsage[rateBucketKey(j, pin)]
                     + Cardinality(Spenders(c.jobs, rateBucketKey(j, pin)))
                       < effectiveKeyedRateLimit(j, pin)
    <3>. DEFINE k == rateBucketKey(j, pin)
                limit == effectiveKeyedRateLimit(j, pin)
    <3>1. k \in RateKeys
      BY DEF RateKeys
    <3>2. limit \in Nat /\ limit > 0
      BY <1>7, <2>1
    <3>. HIDE DEF k, limit
    <3>3. Spenders(c.jobs, k) \in SUBSET QueueJobs
      BY <1>2 DEF Spenders
    <3>4. Cardinality(Spenders(c.jobs, k)) \in Nat /\ currentRateUsage[k] \in Nat
      BY <1>1, <3>1, <3>3, Fewer, UsageType
    <3>5. CASE c.b[k].window = rateWindow(clock)
      <4>1. c.b[k].consumed = currentRateUsage[k] + Cardinality(Spenders(c.jobs, k))
        BY <3>1, <3>5 DEF Claimed
      <4>. QED
        BY <3>2, <3>4, <3>5, <4>1 DEF k, limit
    <3>6. CASE c.b[k].window # rateWindow(clock)
      <4>1. currentRateUsage[k] = 0 /\ Spenders(c.jobs, k) = {}
        BY <3>1, <3>6 DEF Claimed
      <4>2. Cardinality(Spenders(c.jobs, k)) = 0
        BY <4>1, FS_EmptySet
      <4>. QED
        BY <3>2, <3>6, <4>1, <4>2 DEF k, limit
    <3>. QED
      BY <3>5, <3>6
  <2>. QED
    BY <2>1 DEF rateLimitsReached
<1>12. DemandAdmits(c.jobs, j) <=> ~maxConcurrentReached(c.q, j) /\ ~rateLimitsReached(c.b, j)
  BY <1>9, <1>10, <1>11, Admits DEF maxConcurrentReached
<1>. QED
  BY <1>4, <1>5, <1>waiting, <1>12 DEF Claimable

\* One claim of a scope, or none.
ClaimStep(c, scope) ==
  LET next == FirstOf(Claimable(c.q, c.b, scope))
  IN  IF next = {} THEN c
      ELSE LET j == CHOOSE j \in next : TRUE
           IN  [q |-> [c.q EXCEPT ![j].state = "running"],
                b |-> consumeRateLimits(c.b, j), jobs |-> c.jobs \cup {j}]

NoClaims == [q |-> requeueExpiredJobs, b |-> pruneExecutionRateBuckets(buckets), jobs |-> {}]

(* Claims keep the types of the store. *)
LEMMA ClaimTypes ==
  ASSUME DemandState, NEW c \in ClaimState, NEW j \in QueueJobs
  PROVE  [q |-> [c.q EXCEPT ![j].state = "running"],
          b |-> consumeRateLimits(c.b, j), jobs |-> c.jobs \cup {j}] \in ClaimState
<1>1. c.q \in [QueueJobs -> QueueJob] /\ c.b \in [RateKeys -> Bucket] /\ c.jobs \in SUBSET QueueJobs
  BY DEF ClaimState
<1>2. [c.q EXCEPT ![j].state = "running"] \in [QueueJobs -> QueueJob]
  BY <1>1 DEF QueueJob
<1>3. rateWindow(clock) \in Int
  <2>1. clock \in Nat
    BY LimitsAssumption DEF DemandState, LimitsTypeOK
  <2>. QED
    BY <2>1, Windows
<1>4. consumeRateLimits(c.b, j) \in [RateKeys -> Bucket]
  <2>1. \A k \in RateKeys : /\ c.b[k] \in Bucket
                            /\ [c.b[k] EXCEPT !.consumed = @ + 1] \in Bucket
                            /\ [window |-> rateWindow(clock), consumed |-> 1] \in Bucket
    BY <1>1, <1>3 DEF Bucket
  <2>. QED
    BY <2>1 DEF consumeRateLimits
<1>. QED
  BY <1>1, <1>2, <1>4 DEF ClaimState

(* Before the first claim: what recovery and pruning leave. *)
LEMMA ClaimsBegin ==
  ASSUME DemandState, NEW scope
  PROVE  Claimed(NoClaims, scope)
<1>1. clock \in Nat /\ rateWindow(clock) \in Nat
  <2>1. clock \in Nat
    BY LimitsAssumption DEF DemandState, LimitsTypeOK
  <2>. QED
    BY <2>1, Windows
<1>2. \A k \in RateKeys : buckets[k] \in Bucket /\ NoBucket \in Bucket
  BY LimitsAssumption DEF DemandState, LimitsTypeOK, Bucket, NoBucket
<1>3. pruneExecutionRateBuckets(buckets) \in [RateKeys -> Bucket]
  BY <1>2 DEF pruneExecutionRateBuckets
<1>4. requeueExpiredJobs \in [QueueJobs -> QueueJob]
  BY RequeuedJobs DEF requeueExpiredJobs
<1>5. NoClaims \in ClaimState
  BY <1>3, <1>4 DEF NoClaims, ClaimState
<1>6. ASSUME NEW k \in RateKeys
      PROVE  LET b == pruneExecutionRateBuckets(buckets)
             IN  IF b[k].window = rateWindow(clock)
                 THEN b[k].consumed = currentRateUsage[k] + Cardinality(Spenders({}, k))
                 ELSE currentRateUsage[k] = 0 /\ Spenders({}, k) = {}
  <2>1. Spenders({}, k) = {} /\ Cardinality(Spenders({}, k)) = 0
    <3>1. Spenders({}, k) = {}
      BY DEF Spenders
    <3>. QED
      BY <3>1, FS_EmptySet
  <2>2. currentRateUsage[k] = IF buckets[k].window = rateWindow(clock)
                              THEN buckets[k].consumed ELSE 0
    BY DEF currentRateUsage
  <2>3. pruneExecutionRateBuckets(buckets)[k] =
          IF buckets[k].window < rateWindow(clock) THEN NoBucket ELSE buckets[k]
    BY DEF pruneExecutionRateBuckets
  <2>4. NoBucket.window = -1
    BY DEF NoBucket
  <2>5. buckets[k].window \in Int /\ buckets[k].consumed \in Nat
    BY <1>2 DEF Bucket
  <2>. QED
    BY <1>1, <2>1, <2>2, <2>3, <2>4, <2>5
<1>. QED
  BY <1>5, <1>6 DEF Claimed, NoClaims

(* A claim adds its job to what was handed out. *)
LEMMA ClaimAdds ==
  ASSUME DemandState, NEW scope, NEW c, Claimed(c, scope), NEW j \in WaitingFor(scope), j \notin c.jobs
  PROVE  Claimed([q |-> [c.q EXCEPT ![j].state = "running"],
                  b |-> consumeRateLimits(c.b, j), jobs |-> c.jobs \cup {j}], scope)
<1>. DEFINE d == [q |-> [c.q EXCEPT ![j].state = "running"],
                  b |-> consumeRateLimits(c.b, j), jobs |-> c.jobs \cup {j}]
<1>1. j \in QueueJobs /\ c \in ClaimState
  BY DEF WaitingFor, Claimed
<1>2. d \in ClaimState
  BY <1>1, ClaimTypes
<1>3. d.q = [c.q EXCEPT ![j].state = "running"] /\ d.b = consumeRateLimits(c.b, j)
      /\ d.jobs = c.jobs \cup {j}
  OBVIOUS
<1>. HIDE DEF d
<1>4. d.jobs \subseteq WaitingFor(scope)
  BY <1>3 DEF Claimed
<1>5. \A i \in QueueJobs :
        d.q[i].state = IF i \in d.jobs THEN "running" ELSE requeueExpiredJobs[i].state
  <2>1. c.q \in [QueueJobs -> QueueJob]
    BY <1>1 DEF ClaimState
  <2>2. \A i \in QueueJobs : d.q[i].state = IF i = j THEN "running" ELSE c.q[i].state
    BY <1>1, <1>3, <2>1 DEF QueueJob
  <2>. QED
    BY <1>3, <2>2 DEF Claimed
<1>6. ASSUME NEW k \in RateKeys
      PROVE  IF d.b[k].window = rateWindow(clock)
             THEN d.b[k].consumed = currentRateUsage[k] + Cardinality(Spenders(d.jobs, k))
             ELSE currentRateUsage[k] = 0 /\ Spenders(d.jobs, k) = {}
  <2>. DEFINE spends == \E pin \in Payload[j].rate : rateBucketKey(j, pin) = k
  <2>1. c.b[k] \in Bucket /\ c.b[k].consumed \in Nat
    BY <1>1 DEF ClaimState, Bucket
  <2>2. c.jobs \in SUBSET QueueJobs
    BY <1>1 DEF ClaimState
  <2>3. /\ Spenders(c.jobs, k) \in SUBSET QueueJobs /\ j \notin Spenders(c.jobs, k)
        /\ Spenders(d.jobs, k) = IF spends THEN Spenders(c.jobs, k) \cup {j}
                                 ELSE Spenders(c.jobs, k)
    BY <1>3, <2>2 DEF Spenders
  <2>4. IsFiniteSet(Spenders(c.jobs, k)) /\ Cardinality(Spenders(c.jobs, k)) \in Nat
    BY <2>3, LimitsAssumption, FS_Subset, FS_CardinalityType
  <2>5. currentRateUsage[k] \in Nat
    BY UsageType
  <2>6. d.b[k] = IF ~spends THEN c.b[k]
                 ELSE IF c.b[k].window = rateWindow(clock)
                      THEN [c.b[k] EXCEPT !.consumed = @ + 1]
                      ELSE [window |-> rateWindow(clock), consumed |-> 1]
    BY <1>3 DEF consumeRateLimits
  <2>7. IF c.b[k].window = rateWindow(clock)
        THEN c.b[k].consumed = currentRateUsage[k] + Cardinality(Spenders(c.jobs, k))
        ELSE currentRateUsage[k] = 0 /\ Spenders(c.jobs, k) = {}
    BY DEF Claimed
  <2>. HIDE DEF spends
  <2>8. CASE ~spends
    BY <2>3, <2>6, <2>7, <2>8
  <2>9. CASE spends
    <3>1. Cardinality(Spenders(d.jobs, k)) = Cardinality(Spenders(c.jobs, k)) + 1
      BY <2>3, <2>4, <2>9, FS_AddElement
    <3>2. CASE c.b[k].window = rateWindow(clock)
      <4>1. d.b[k].window = rateWindow(clock) /\ d.b[k].consumed = c.b[k].consumed + 1
        BY <2>1, <2>6, <2>9, <3>2 DEF Bucket
      <4>. QED
        BY <2>1, <2>4, <2>5, <2>7, <3>1, <3>2, <4>1
    <3>3. CASE c.b[k].window # rateWindow(clock)
      <4>1. d.b[k].window = rateWindow(clock) /\ d.b[k].consumed = 1
        BY <2>6, <2>9, <3>3
      <4>2. currentRateUsage[k] = 0 /\ Cardinality(Spenders(c.jobs, k)) = 0
        BY <2>7, <3>3, FS_EmptySet
      <4>. QED
        BY <3>1, <4>1, <4>2
    <3>. QED
      BY <3>2, <3>3
  <2>. QED
    BY <2>8, <2>9
<1>. QED
  BY <1>2, <1>4, <1>5, <1>6 DEF Claimed, d

\* So far the claims chose greedily: each job had room after those that come before it, and
\* a job that was passed over had none.
ChosenSoFar(c, scope) ==
  /\ \A j \in c.jobs : DemandAdmits(Prior(c.jobs, j), j)
  /\ \A j \in WaitingFor(scope) \ c.jobs :
       Prior(c.jobs, j) = c.jobs \/ ~DemandAdmits(Prior(c.jobs, j), j)

ClaimInv(c, scope) == Claimed(c, scope) /\ ChosenSoFar(c, scope)

(* A claim takes the first job that has room and leaves the choice greedy, or there is    *)
(* none that has.                                                                         *)
LEMMA ClaimKeeps ==
  ASSUME NEW scope, Comparable(scope), NEW c, ClaimInv(c, scope)
  PROVE  /\ ClaimInv(ClaimStep(c, scope), scope)
         /\ \/ Claimable(c.q, c.b, scope) = {} /\ ClaimStep(c, scope) = c
            \/ \E j \in QueueJobs \ c.jobs : ClaimStep(c, scope).jobs = c.jobs \cup {j}
<1>. DEFINE S == Claimable(c.q, c.b, scope)
<1>1. DemandState
  BY DEF Comparable
<1>2. S = {j \in WaitingFor(scope) \ c.jobs : DemandAdmits(c.jobs, j)}
  BY SameTests DEF ClaimInv
<1>3. S \in SUBSET QueueJobs /\ WaitingFor(scope) \in SUBSET QueueJobs /\ c.jobs \in SUBSET QueueJobs
      /\ c.jobs \subseteq WaitingFor(scope)
  BY DEF Claimable, WaitingFor, ClaimInv, Claimed, ClaimState
<1>. HIDE DEF S
<1>4. CASE S = {}
  <2>1. FirstOf(S) = {}
    BY <1>4 DEF FirstOf
  <2>. QED
    BY <1>4, <2>1 DEF ClaimStep, S
<1>5. CASE S # {}
  <2>1. FirstOf(S) # {}
    BY <1>3, <1>5, FirstJob DEF FirstOf
  <2>2. PICK j \in FirstOf(S) :
          ClaimStep(c, scope) = [q |-> [c.q EXCEPT ![j].state = "running"],
                                 b |-> consumeRateLimits(c.b, j), jobs |-> c.jobs \cup {j}]
    BY <2>1 DEF ClaimStep, S
  <2>. DEFINE d == ClaimStep(c, scope)
  <2>3. j \in S /\ \A i \in S \ {j} : ClaimsBefore(j, i)
    BY <2>2 DEF FirstOf
  <2>4. j \in WaitingFor(scope) /\ j \notin c.jobs /\ DemandAdmits(c.jobs, j) /\ j \in QueueJobs
    BY <1>2, <1>3, <2>3
  <2>5. d.jobs = c.jobs \cup {j}
    BY <2>2
  <2>6. Claimed(d, scope)
    BY <1>1, <2>2, <2>4, ClaimAdds DEF ClaimInv
  <2>. HIDE DEF d
  <2>7. Prior(c.jobs, j) = c.jobs
    <3>1. Prior(c.jobs, j) \in SUBSET c.jobs
      BY DEF Prior
    <3>2. DemandAdmits(Prior(c.jobs, j), j)
      BY <1>1, <1>3, <2>4, <3>1, RoomShrinks
    <3>. QED
      BY <2>4, <3>2 DEF ClaimInv, ChosenSoFar
  <2>8. \A i \in c.jobs : ClaimsBefore(i, j) /\ ~ClaimsBefore(j, i)
    BY <1>3, <2>4, <2>7, ClaimOrder DEF Prior
  <2>9. Prior(d.jobs, j) = c.jobs
    BY <2>4, <2>5, <2>7, ClaimOrder DEF Prior
  <2>10. ASSUME NEW i \in d.jobs PROVE DemandAdmits(Prior(d.jobs, i), i)
    <3>1. CASE i = j
      BY <2>4, <2>9, <3>1
    <3>2. CASE i # j
      <4>1. i \in c.jobs
        BY <2>5, <3>2
      <4>2. Prior(d.jobs, i) = Prior(c.jobs, i)
        BY <2>5, <2>8, <4>1 DEF Prior
      <4>. QED
        BY <4>1, <4>2 DEF ClaimInv, ChosenSoFar
    <3>. QED
      BY <3>1, <3>2
  <2>11. ASSUME NEW i \in WaitingFor(scope) \ d.jobs
         PROVE  Prior(d.jobs, i) = d.jobs \/ ~DemandAdmits(Prior(d.jobs, i), i)
    <3>1. i \in QueueJobs /\ i \in WaitingFor(scope) \ c.jobs /\ i # j
      BY <1>3, <2>5
    <3>2. Prior(c.jobs, i) \in SUBSET Prior(d.jobs, i) /\ Prior(d.jobs, i) \in SUBSET QueueJobs
      BY <1>3, <2>4, <2>5 DEF Prior
    <3>3. CASE ~DemandAdmits(Prior(c.jobs, i), i)
      BY <1>1, <3>1, <3>2, <3>3, RoomShrinks
    <3>4. CASE Prior(c.jobs, i) = c.jobs /\ ClaimsBefore(j, i)
      BY <2>5, <3>4 DEF Prior
    <3>5. CASE Prior(c.jobs, i) = c.jobs /\ ~ClaimsBefore(j, i)
      <4>1. Prior(d.jobs, i) = c.jobs
        BY <2>5, <3>5 DEF Prior
      <4>2. i \notin S
        BY <2>3, <3>1, <3>5
      <4>. QED
        BY <1>2, <3>1, <4>1, <4>2
    <3>. QED
      BY <3>1, <3>3, <3>4, <3>5 DEF ClaimInv, ChosenSoFar
  <2>12. ClaimInv(d, scope)
    BY <2>6, <2>10, <2>11 DEF ClaimInv, ChosenSoFar
  <2>. QED
    BY <2>4, <2>5, <2>12 DEF d
<1>. QED
  BY <1>4, <1>5

(* The claims that hand out all they can make the greedy choice. *)
LEMMA ClaimsEnd ==
  ASSUME NEW scope, Comparable(scope), NEW c, ClaimInv(c, scope), Claimable(c.q, c.b, scope) = {}
  PROVE  Greedy(c.jobs, WaitingFor(scope))
<1>1. c.jobs \subseteq WaitingFor(scope)
  BY DEF ClaimInv, Claimed
<1>2. \A j \in WaitingFor(scope) \ c.jobs : ~DemandAdmits(c.jobs, j)
  BY SameTests DEF ClaimInv
<1>. QED
  BY <1>1, <1>2 DEF Greedy, ClaimInv, ChosenSoFar

\* The states after 0, 1, ... claims, given those before.
Claiming(f, scope) ==
  [n \in 0..Cardinality(QueueJobs) |->
     IF n = 0 THEN NoClaims ELSE ClaimStep(f[n - 1], scope)]

\* A claim as a rule on the states of the first n claims.
ClaimRule(N, scope) == [x \in (1..N) \X ClaimState |-> ClaimStep(x[2], scope)]

(* Repeated claims are a function. *)
LEMMA ClaimingFunction ==
  ASSUME DemandState, NEW scope
  PROVE  \E f : f = Claiming(f, scope)
<1>. SUFFICES ASSUME NEW N, N = Cardinality(QueueJobs), NEW D, D = ClaimState,
                     NEW base, base = NoClaims, NEW F, F = ClaimRule(N, scope)
              PROVE  \E f : f = Claiming(f, scope)
  OBVIOUS
<1>1. N \in Nat
  BY LimitsAssumption, FS_CardinalityType
<1>2. \A c \in D : ClaimStep(c, scope) \in D
  <2>. SUFFICES ASSUME NEW c \in ClaimState PROVE ClaimStep(c, scope) \in ClaimState
    OBVIOUS
  <2>1. FirstOf(Claimable(c.q, c.b, scope)) \subseteq QueueJobs
    BY DEF FirstOf, Claimable
  <2>. QED
    BY <2>1, ClaimTypes DEF ClaimStep
<1>3. base \in D
  BY ClaimsBegin DEF Claimed
<1>4. base \in D /\ IsRule(F, N, D)
  BY <1>2, <1>3 DEF IsRule, ClaimRule
<1>5. PICK f \in [0..N -> D] :
        f[0] = NoClaims /\ \A n \in 1..N : f[n] = ClaimStep(f[n - 1], scope)
  <2>0. \E f \in [0..N -> D] : IsBuilt(f, base, F, N)
    BY <1>1, <1>4, Recursion
  <2>1. PICK f \in [0..N -> D] : f[0] = base /\ \A n \in 1..N : f[n] = F[<<n, f[n - 1]>>]
    BY <2>0 DEF IsBuilt
  <2>2. \A n \in 1..N : f[n - 1] \in D
    BY <1>1, <2>1
  <2>3. ASSUME NEW n \in 1..N PROVE f[n] = ClaimStep(f[n - 1], scope)
    <3>1. F[<<n, f[n - 1]>>] = ClaimStep(f[n - 1], scope)
      BY <2>2 DEF ClaimRule
    <3>. QED
      BY <2>1, <3>1
  <2>. QED
    BY <2>1, <2>3
<1>6. \A n \in 0..N : f[n] = Claiming(f, scope)[n]
  BY <1>1, <1>5 DEF Claiming
<1>7. f = Claiming(f, scope)
  BY <1>5, <1>6 DEF Claiming
<1>. QED
  BY <1>7

(* What repeated claims hand out is the greedy choice. *)
LEMMA HandedOutIsGreedy ==
  ASSUME NEW scope, Comparable(scope)
  PROVE  Greedy(HandedOut(scope), WaitingFor(scope))
<1>. SUFFICES ASSUME NEW N, N = Cardinality(QueueJobs)
              PROVE  Greedy(HandedOut(scope), WaitingFor(scope))
  OBVIOUS
<1>1. N \in Nat /\ DemandState
  BY LimitsAssumption, FS_CardinalityType DEF Comparable
<1>2. HandedOut(scope) = (CHOOSE f : f = Claiming(f, scope))[N].jobs
  BY DEF HandedOut, Claiming, ClaimStep, NoClaims
<1>3. PICK f : f = Claiming(f, scope) /\ f = CHOOSE g : g = Claiming(g, scope)
  BY <1>1, ClaimingFunction
<1>4. f[0] = NoClaims /\ \A n \in 1..N : f[n] = ClaimStep(f[n - 1], scope)
  BY <1>1, <1>3 DEF Claiming
<1>. DEFINE Done(c) == Claimable(c.q, c.b, scope) = {}
            S == {n \in 0..N : /\ ClaimInv(f[n], scope)
                               /\ Done(f[n]) \/ Cardinality(f[n].jobs) = n}
<1>5. 0 \in S
  <2>1. NoClaims.jobs = {}
    BY DEF NoClaims
  <2>2. ClaimInv(NoClaims, scope)
    BY <1>1, <2>1, ClaimsBegin DEF ClaimInv, ChosenSoFar, Prior
  <2>. QED
    BY <1>1, <1>4, <2>1, <2>2, FS_EmptySet
<1>6. ASSUME NEW n \in 1..N, n - 1 \in S PROVE n \in S
  <2>1. ClaimInv(f[n - 1], scope) /\ (Done(f[n - 1]) \/ Cardinality(f[n - 1].jobs) = n - 1)
    BY <1>6
  <2>2. f[n] = ClaimStep(f[n - 1], scope)
    BY <1>4
  <2>3. /\ ClaimInv(f[n], scope)
        /\ \/ Done(f[n - 1]) /\ f[n] = f[n - 1]
           \/ \E j \in QueueJobs \ f[n - 1].jobs : f[n].jobs = f[n - 1].jobs \cup {j}
    BY <2>1, <2>2, ClaimKeeps
  <2>4. Done(f[n]) \/ Cardinality(f[n].jobs) = n
    <3>1. CASE Done(f[n - 1])
      <4>1. Claimable(f[n - 1].q, f[n - 1].b, scope) = {}
        BY <3>1
      <4>2. FirstOf({}) = {}
        BY DEF FirstOf
      <4>3. f[n] = f[n - 1]
        BY <2>2, <4>1, <4>2 DEF ClaimStep
      <4>. QED
        BY <3>1, <4>3
    <3>2. CASE ~Done(f[n - 1])
      <4>1. PICK j \in QueueJobs \ f[n - 1].jobs : f[n].jobs = f[n - 1].jobs \cup {j}
        BY <2>3, <3>2
      <4>2. f[n - 1].jobs \in SUBSET QueueJobs
        BY <2>1 DEF ClaimInv, Claimed, ClaimState
      <4>3. IsFiniteSet(f[n - 1].jobs) /\ Cardinality(f[n - 1].jobs) = n - 1
        BY <2>1, <3>2, <4>2, LimitsAssumption, FS_Subset
      <4>4. Cardinality(f[n].jobs) = (n - 1) + 1
        BY <4>1, <4>3, FS_AddElement
      <4>. QED
        BY <4>4
    <3>. QED
      BY <3>1, <3>2
  <2>. QED
    BY <2>3, <2>4
<1>7. N \in S
  <2>. HIDE DEF S
  <2>1. 0..N \subseteq S
    BY <1>1, <1>5, <1>6, UpTo
  <2>. QED
    BY <1>1, <2>1
<1>8. ClaimInv(f[N], scope)
  BY <1>7
<1>9. Done(f[N])
  <2>. SUFFICES ASSUME Cardinality(f[N].jobs) = N PROVE Done(f[N])
    BY <1>7
  <2>1. f[N].jobs \in SUBSET QueueJobs
    BY <1>8 DEF ClaimInv, Claimed, ClaimState
  <2>2. f[N].jobs = QueueJobs
    BY <2>1, LimitsAssumption, FS_Subset
  <2>3. Claimable(f[N].q, f[N].b, scope) = {j \in WaitingFor(scope) \ f[N].jobs : DemandAdmits(f[N].jobs, j)}
    BY <1>8, SameTests DEF ClaimInv
  <2>. QED
    BY <2>2, <2>3 DEF WaitingFor
<1>10. Greedy(f[N].jobs, WaitingFor(scope))
  BY <1>8, <1>9, ClaimsEnd
<1>11. HandedOut(scope) = f[N].jobs
  BY <1>2, <1>3
<1>. QED
  BY <1>10, <1>11

(* The two programs give one answer. *)
LEMMA DemandIsHandedOut ==
  ASSUME DemandState
  PROVE  DemandIsWhatClaimsHandOut
<1>. SUFFICES ASSUME NEW scope, Comparable(scope)
              PROVE  buildQueueDemandSnapshot(scope) = HandedOut(scope)
  BY DEF DemandIsWhatClaimsHandOut, Comparable, QueueDemandSelectors
<1>1. WaitingFor(scope) \in SUBSET QueueJobs
  BY DEF WaitingFor
<1>. QED
  BY <1>1, SnapshotIsGreedy, HandedOutIsGreedy, GreedyIsUnique

-----------------------------------------------------------------------------
(* What the queue, the buckets and the policies are *)

LimitsJob == [state : {"queued", "running", "done"}, starts : 0..MaxStarts,
              expires : 0..(MaxClock + LeaseTicks), canceled : BOOLEAN]

LimitsBucket == [window : -1..MaxClock, consumed : Nat]

QueueOK(q) ==
  /\ q \in [QueueJobs -> LimitsJob]
  /\ \A j \in QueueJobs : q[j].state = "queued" => ~q[j].canceled

(* The window of a time is no later than the time. *)
LEMMA WindowsOfClock ==
  ASSUME NEW t \in 0..MaxClock
  PROVE  rateWindow(t) \in 0..MaxClock
<1>1. Window \in Nat /\ Window > 0 /\ MaxClock \in Nat /\ t \in Nat /\ t <= MaxClock
  BY LimitsAssumption
<1>2. rateWindow(t) \in Nat
  BY <1>1, Windows
<1>3. rateWindow(t) <= t
  BY <1>1, Z3 DEF rateWindow
<1>. QED
  BY <1>1, <1>2, <1>3

(* A claim writes a lease within the bounds, after expired leases were given back. *)
LEMMA ClaimsKeepQueue ==
  ASSUME QueueOK(queue), clock \in 0..MaxClock, NEW j \in QueueJobs, queue[j].starts < MaxStarts,
         queue' = [requeueExpiredJobs EXCEPT ![j] =
                     [requeueExpiredJobs[j] EXCEPT !.state = "running", !.starts = @ + 1,
                                                   !.expires = clock + LeaseTicks]]
  PROVE  QueueOK(queue')
<1>1. MaxClock \in Nat /\ LeaseTicks \in Nat /\ MaxStarts \in Nat
  BY LimitsAssumption
<1>2. \A i \in QueueJobs : queue[i] \in LimitsJob
  BY DEF QueueOK
<1>3. QueueOK(requeueExpiredJobs) /\ requeueExpiredJobs[j].starts = queue[j].starts
  <2>1. ASSUME NEW i \in QueueJobs
        PROVE  LET r == requeueExpiredJobs[i]
               IN  /\ r \in LimitsJob /\ r.starts = queue[i].starts
                   /\ r.state = "queued" => ~r.canceled
    <3>1. requeueExpiredJobs[i] = IF LeaseExpired(i)
            THEN [queue[i] EXCEPT !.state = IF queue[i].canceled THEN "done" ELSE "queued",
                                  !.expires = 0]
            ELSE queue[i]
      BY DEF requeueExpiredJobs
    <3>2. queue[i] \in LimitsJob /\ (queue[i].state = "queued" => ~queue[i].canceled)
      BY DEF QueueOK
    <3>. DEFINE to == IF queue[i].canceled THEN "done" ELSE "queued"
                r == [queue[i] EXCEPT !.state = to, !.expires = 0]
    <3>3. /\ r \in LimitsJob /\ r.starts = queue[i].starts /\ r.canceled = queue[i].canceled
          /\ r.state = IF queue[i].canceled THEN "done" ELSE "queued"
      <4>1. to \in {"done", "queued"} /\ 0 \in 0..(MaxClock + LeaseTicks)
        BY <1>1
      <4>. HIDE DEF to
      <4>2. /\ r \in LimitsJob /\ r.starts = queue[i].starts /\ r.canceled = queue[i].canceled
            /\ r.state = to
        BY <3>2, <4>1 DEF LimitsJob
      <4>. QED
        BY <4>2 DEF to
    <3>4. requeueExpiredJobs[i] \in {r, queue[i]}
      BY <3>1
    <3>. HIDE DEF r
    <3>5. r.state = "queued" => ~r.canceled
      BY <3>3
    <3>. QED
      BY <3>2, <3>3, <3>4, <3>5
  <2>2. requeueExpiredJobs = [i \in QueueJobs |-> requeueExpiredJobs[i]]
    BY DEF requeueExpiredJobs
  <2>. QED
    BY <2>1, <2>2 DEF QueueOK
<1>. DEFINE q == requeueExpiredJobs
<1>. HIDE DEF q
<1>4. q[j] \in LimitsJob /\ q[j].starts + 1 \in 0..MaxStarts /\ clock + LeaseTicks \in 0..(MaxClock + LeaseTicks)
  BY <1>1, <1>2, <1>3 DEF QueueOK, q, LimitsJob
<1>5. [q[j] EXCEPT !.state = "running", !.starts = @ + 1, !.expires = clock + LeaseTicks]
        \in LimitsJob
  BY <1>4 DEF LimitsJob
<1>6. QueueOK(q)
  BY <1>3 DEF q
<1>7. queue' = [q EXCEPT ![j] = [q[j] EXCEPT !.state = "running", !.starts = @ + 1,
                                               !.expires = clock + LeaseTicks]]
  BY DEF q
<1>8. queue'[j].state = "running" /\ \A i \in QueueJobs \ {j} : queue'[i] = q[i]
  BY <1>4, <1>6, <1>7 DEF QueueOK, LimitsJob
<1>9. queue' \in [QueueJobs -> LimitsJob]
  BY <1>5, <1>6, <1>7 DEF QueueOK
<1>. QED
  BY <1>6, <1>8, <1>9 DEF QueueOK

(* A claim writes a bucket of the present window. *)
LEMMA ClaimsKeepBuckets ==
  ASSUME buckets \in [RateKeys -> LimitsBucket], clock \in 0..MaxClock, NEW j \in QueueJobs,
         buckets' = consumeRateLimits(pruneExecutionRateBuckets(buckets), j)
  PROVE  buckets' \in [RateKeys -> LimitsBucket]
<1>. DEFINE b == pruneExecutionRateBuckets(buckets)
<1>1. rateWindow(clock) \in 0..MaxClock /\ MaxClock \in Nat
  BY WindowsOfClock, LimitsAssumption
<1>2. NoBucket \in LimitsBucket
  BY <1>1 DEF NoBucket, LimitsBucket
<1>3. b \in [RateKeys -> LimitsBucket]
  BY <1>2 DEF pruneExecutionRateBuckets
<1>. HIDE DEF b
<1>4. ASSUME NEW k \in RateKeys
      PROVE  /\ [b[k] EXCEPT !.consumed = @ + 1] \in LimitsBucket
             /\ [window |-> rateWindow(clock), consumed |-> 1] \in LimitsBucket
  BY <1>1, <1>3 DEF LimitsBucket
<1>5. buckets' = consumeRateLimits(b, j)
  BY DEF b
<1>. QED
  BY <1>3, <1>4, <1>5 DEF consumeRateLimits

(* Every operation keeps the types, and that a queued job is not canceled. *)
LEMMA DemandSteps ==
  ASSUME DemandState, [LimitsNext]_limitsVars
  PROVE  DemandState'
<1>1. /\ QueueOK(queue) /\ buckets \in [RateKeys -> LimitsBucket]
      /\ retired \subseteq Apps /\ clock \in 0..MaxClock
  BY DEF DemandState, LimitsTypeOK, QueueOK, LimitsJob, LimitsBucket
<1>2. PolicyInv'
  BY PolicySteps DEF DemandState
<1>. SUFFICES /\ QueueOK(queue') /\ buckets' \in [RateKeys -> LimitsBucket]
              /\ retired' \subseteq Apps /\ clock' \in 0..MaxClock
  BY <1>2 DEF DemandState, LimitsTypeOK, QueueOK, LimitsJob, LimitsBucket
<1>3. \A i \in QueueJobs : queue[i] \in LimitsJob /\ (queue[i].state = "queued" => ~queue[i].canceled)
  BY <1>1 DEF QueueOK
<1>4. DOMAIN queue = QueueJobs /\ MaxClock \in Nat /\ LeaseTicks \in Nat
  BY <1>1, LimitsAssumption DEF QueueOK
<1>5. CASE \E scope \in Scopes : ClaimJobForWorkerScope(scope)
  <2>1. PICK j \in QueueJobs :
          /\ queue[j].starts < MaxStarts
          /\ queue' = [requeueExpiredJobs EXCEPT ![j] =
                         [requeueExpiredJobs[j] EXCEPT !.state = "running", !.starts = @ + 1,
                                                       !.expires = clock + LeaseTicks]]
          /\ buckets' = consumeRateLimits(pruneExecutionRateBuckets(buckets), j)
    BY <1>5 DEF ClaimJobForWorkerScope, FirstOf, Claimable
  <2>2. UNCHANGED <<retired, clock>>
    BY <1>5 DEF ClaimJobForWorkerScope
  <2>. QED
    BY <1>1, <2>1, <2>2, ClaimsKeepQueue, ClaimsKeepBuckets
<1>6. ASSUME NEW j \in QueueJobs, HeartbeatJob(j) \/ CompleteJob(j) \/ CancelJob(j)
      PROVE  /\ QueueOK(queue') /\ buckets' \in [RateKeys -> LimitsBucket]
             /\ retired' \subseteq Apps /\ clock' \in 0..MaxClock
  <2>1. clock + LeaseTicks \in 0..(MaxClock + LeaseTicks) /\ 0 \in 0..(MaxClock + LeaseTicks)
    BY <1>1, <1>4
  <2>2. /\ [queue[j] EXCEPT !.expires = clock + LeaseTicks] \in LimitsJob
        /\ [queue[j] EXCEPT !.state = "done", !.expires = 0] \in LimitsJob
        /\ [queue[j] EXCEPT !.canceled = TRUE,
                            !.state = IF @ = "queued" THEN "done" ELSE @] \in LimitsJob
    BY <1>3, <2>1 DEF LimitsJob
  <2>3. PICK r \in LimitsJob : /\ queue' = [queue EXCEPT ![j] = r]
                               /\ r.state = "queued" => ~r.canceled
    <3>1. CASE HeartbeatJob(j)
      <4>. DEFINE r == [queue[j] EXCEPT !.expires = clock + LeaseTicks]
      <4>1. queue' = [queue EXCEPT ![j] = r] /\ r.state = queue[j].state /\ r.canceled = queue[j].canceled
        BY <1>3, <1>4, <3>1 DEF HeartbeatJob, LimitsJob
      <4>. QED
        BY <1>3, <2>2, <4>1
    <3>2. CASE CompleteJob(j)
      <4>. DEFINE r == [queue[j] EXCEPT !.state = "done", !.expires = 0]
      <4>1. queue' = [queue EXCEPT ![j] = r] /\ r.state = "done"
        BY <1>3, <1>4, <3>2 DEF CompleteJob, LimitsJob
      <4>. QED
        BY <2>2, <4>1
    <3>3. CASE CancelJob(j)
      <4>. DEFINE r == [queue[j] EXCEPT !.canceled = TRUE,
                                        !.state = IF @ = "queued" THEN "done" ELSE @]
      <4>1. queue' = [queue EXCEPT ![j] = r] /\ r.state # "queued"
        BY <1>3, <1>4, <3>3 DEF CancelJob, LimitsJob
      <4>. QED
        BY <2>2, <4>1
    <3>. QED
      BY <1>6, <3>1, <3>2, <3>3
  <2>4. QueueOK(queue')
    BY <1>1, <2>3 DEF QueueOK
  <2>. QED
    BY <1>1, <1>6, <2>4 DEF HeartbeatJob, CompleteJob, CancelJob
<1>7. ASSUME NEW a \in Apps, NEW state \in {"active", "tombstoned", "revoked"},
             SetAppRuntimeLifecycle(a, state)
      PROVE  /\ QueueOK(queue') /\ buckets' \in [RateKeys -> LimitsBucket]
             /\ retired' \subseteq Apps /\ clock' \in 0..MaxClock
  <2>1. \A i \in QueueJobs : [queue[i] EXCEPT !.canceled = TRUE] \in LimitsJob
    BY <1>3 DEF LimitsJob
  <2>2. QueueOK(queue')
    BY <1>3, <1>7, <2>1 DEF SetAppRuntimeLifecycle, QueueOK, LimitsJob
  <2>. QED
    BY <1>1, <1>7, <2>2 DEF SetAppRuntimeLifecycle
<1>8. CASE LimitsTick
  BY <1>1, <1>4, <1>8 DEF LimitsTick
<1>9. CASE UNCHANGED <<queue, buckets, retired, clock>>
  BY <1>1, <1>9
<1>. QED
  BY <1>5, <1>6, <1>7, <1>8, <1>9 DEF LimitsNext, limitsVars, MutateExecutionLimitPolicies

(* Every job is queued, and nothing is consumed or retired, at the start. *)
LEMMA DemandStateInit ==
  ASSUME LimitsInit
  PROVE  DemandState
<1>1. {MaxClock, LeaseTicks, MaxStarts} \subseteq Nat
  BY LimitsAssumption
<1>2. NoBucket \in LimitsBucket
  BY <1>1 DEF NoBucket, LimitsBucket
<1>3. /\ queue = [j \in QueueJobs |-> [state |-> "queued", starts |-> 0, expires |-> 0,
                                       canceled |-> FALSE]]
      /\ buckets = [k \in RateKeys |-> NoBucket] /\ retired = {} /\ clock = 0
  BY DEF LimitsInit
<1>4. QueueOK(queue)
  BY <1>1, <1>3 DEF QueueOK, LimitsJob
<1>5. buckets \in [RateKeys -> LimitsBucket]
  BY <1>2, <1>3
<1>. QED
  BY <1>1, <1>3, <1>4, <1>5, PolicyInvInit DEF DemandState, LimitsTypeOK, QueueOK, LimitsJob, LimitsBucket

(* The inductive invariant of the demand: the types, the policies, and that no job is      *)
(* queued that was canceled, as a cancellation ends a queued job at once and a requeue a   *)
(* canceled one.                                                                           *)
THEOREM DemandStateHolds == LimitsSpec => []DemandState
BY DemandStateInit, DemandSteps, PTL DEF LimitsSpec

\* Type correctness of the local store's queue, buckets and lifecycle, for any jobs,
\* policies, scopes and bounds.
THEOREM LimitsTypesHold == LimitsSpec => []LimitsTypeOK
<1>1. DemandState => LimitsTypeOK
  BY DEF DemandState
<1>. QED
  BY <1>1, DemandStateHolds, PTL

\* As long as the candidates of a selector are of active apps and pinned with shapes, the
\* demand it is told (buildQueueDemandSnapshotWithPolicies) is exactly what its claims would
\* be given, for any jobs, limits, policies and selectors.  Without that it is not: the
\* candidates of a retired app are counted, and EligibleIsWhatClaimsAcquire is violated.
THEOREM DemandIsWhatClaimsHandOutAlways == LimitsSpec => []DemandIsWhatClaimsHandOut
<1>1. DemandState => DemandIsWhatClaimsHandOut
  BY DemandIsHandedOut
<1>. QED
  BY <1>1, DemandStateHolds, PTL
=============================================================================
