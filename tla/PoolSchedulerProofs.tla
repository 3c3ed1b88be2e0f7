------------------------ MODULE PoolSchedulerProofs ------------------------
(* Machine-checked theorems about PoolScheduler, for every set of requests, *)
(* accounts and keys, every cap and every number of reloads.                *)
EXTENDS PoolScheduler, FiniteSetTheorems, TLAPS

(* What checkEligibility returns is a candidate or the empty one.           *)
LEMMA CheckEligibilityType ==
  ASSUME TypeOK, NEW r \in Requests, NEW a \in Accounts
  PROVE  CheckEligibility(r, a) \in Candidate
<1>1. NoCandidate \in Candidate
  BY DEF NoCandidate, Candidate
<1>2. ASSUME ~HardReject(r, a)
      PROVE  WaitReason(r, a) \in WaitReasons \cup {"free"}
  <2>1. CanAccept(a) \in {"concurrency_limit", "quota_blocked", "rpm_limit", "ok"}
    BY DEF CanAccept
  <2>2. CanAccept(a) = "quota_blocked" => r \in Pinned
    BY <1>2 DEF HardReject
  <2> QED  BY <2>1, <2>2 DEF WaitReason, WaitReasons
<1>3. inflight[pool[r]][a] \in Nat /\ cap[a] \in Nat
  <2>1. pool[r] \in Pools /\ cap[a] \in Caps
    BY DEF TypeOK, RequestTypeOK, PlatformTypeOK
  <2>2. inflight[pool[r]] \in [Accounts -> Nat]
    BY <2>1 DEF TypeOK, PoolTypeOK
  <2> QED  BY <2>1, <2>2, PoolAssumption DEF PoolAssumption
<1>4. (cooldown[a] = "auth") \in BOOLEAN
      /\ (Cooling(a) \/ (CanAccept(a) = "rpm_limit" /\ r \notin Pinned)) \in BOOLEAN
  BY Zenon DEF Cooling
<1> QED  BY <1>1, <1>2, <1>3, <1>4 DEF CheckEligibility, Candidate

LEMMA NoCandidatesType == NoCandidates \in [Accounts -> Candidate]
BY DEF NoCandidates, NoCandidate, Candidate

(* A selection that ends leaves well-typed locals behind.                   *)
LEMMA ForgetType ==
  ASSUME LocalTypeOK, NEW r \in Requests, Forget(r)
  PROVE  LocalTypeOK'
BY NoCandidatesType DEF LocalTypeOK, Forget

LEMMA EndType ==
  ASSUME TypeOK, NEW r \in Requests, End(r), acct[r] = NoAccount
  PROVE  RequestTypeOK' /\ LocalTypeOK'
<1>1. LocalTypeOK'
  BY ForgetType DEF TypeOK, End
<1>2. RequestTypeOK'
  <2>1. 0 \in Pools
    BY PoolAssumption DEF Pools, PoolAssumption
  <2> QED  BY <2>1 DEF TypeOK, RequestTypeOK, End, Reserved, Selecting
<1> QED  BY <1>1, <1>2

LEMMA StickyAfterPickType ==
  ASSUME PlatformTypeOK, NEW r \in Requests
  PROVE  StickyAfterPick(r) \in [Keys -> Accounts \cup {NoAccount}]
BY DEF PlatformTypeOK, StickyAfterPick

(* Taking requests out of the queues of one scheduler                       *)
LEMMA WakeType ==
  ASSUME PoolTypeOK, NEW p \in Pools, NEW W, Wake(p, W)
  PROVE  waiters' \in [Pools -> [Accounts -> SUBSET Requests]]
<1>1. [a \in Accounts |-> waiters[p][a] \ W] \in [Accounts -> SUBSET Requests]
  BY DEF PoolTypeOK
<1> QED  BY <1>1 DEF PoolTypeOK, Wake

LEMMA DequeueType ==
  ASSUME TypeOK, NEW r \in Requests, Dequeue(r)
  PROVE  waiters' \in [Pools -> [Accounts -> SUBSET Requests]]
<1>1. pool[r] \in Pools
  BY DEF TypeOK, RequestTypeOK
<1> QED  BY <1>1, WakeType DEF TypeOK, Dequeue

LEMMA TypeOKInit == Init => TypeOK
<1> SUFFICES ASSUME Init PROVE TypeOK
  OBVIOUS
<1>1. 0 \in Pools /\ InitCap \in Caps
  BY PoolAssumption DEF PoolAssumption, Pools
<1>2. RequestTypeOK
  BY <1>1 DEF Init, RequestTypeOK, Reserved, Selecting
<1>3. LocalTypeOK
  BY NoCandidatesType DEF Init, LocalTypeOK
<1>4. PoolTypeOK
  BY <1>1 DEF Init, PoolTypeOK
<1>5. PlatformTypeOK
  BY <1>1 DEF Init, PlatformTypeOK, GateStates, CooldownStates
<1> QED  BY <1>2, <1>3, <1>4, <1>5 DEF TypeOK

(* A request that still selects holds no account.                           *)
LEMMA SelectingHoldsNothing ==
  ASSUME RequestTypeOK, NEW r \in Requests, pc[r] \in Selecting \cup {"idle"}
  PROVE  acct[r] = NoAccount
BY DEF RequestTypeOK, Selecting, Reserved

LEMMA WokenHoldNothing ==
  ASSUME TypeOK, QueuedWait, NEW p \in Pools, NEW W \in SUBSET AllWaiters(p)
  PROVE  W \subseteq Requests /\ \A q \in W : acct[q] = NoAccount
<1>1. \A q \in W : q \in Requests /\ pc[q] = "wait"
  BY DEF AllWaiters, QueuedWait, TypeOK, PoolTypeOK
<1> QED  BY <1>1, SelectingHoldsNothing DEF TypeOK, Selecting

LEMMA NotifiedAreWaiters ==
  ASSUME NEW p, NEW a \in Accounts
  PROVE  NotifiedBy(p, a) \in SUBSET AllWaiters(p)
BY DEF NotifiedBy, AllWaiters

LEMMA PcAfterWakeType ==
  ASSUME TypeOK, QueuedWait, NEW p \in Pools, NEW W \in SUBSET AllWaiters(p)
  PROVE  /\ PcAfterWake(W) \in [Requests -> {"idle"} \cup Selecting \cup Reserved]
         /\ \A r \in Requests : PcAfterWake(W)[r] \in Reserved <=> acct[r] # NoAccount
<1>1. \A q \in W : acct[q] = NoAccount
  BY WokenHoldNothing
<1> QED  BY <1>1 DEF PcAfterWake, TypeOK, RequestTypeOK, Selecting, Reserved

LEMMA TypeOKNext == TypeOK /\ QueuedWait /\ [Next]_vars => TypeOK'
<1> SUFFICES ASSUME TypeOK, QueuedWait, [Next]_vars PROVE TypeOK'
  OBVIOUS
<1> USE DEF TypeOK
<1>1. ASSUME NEW r \in Requests, Start(r) PROVE TypeOK'
  <2>1. PICK S \in Scopes : scope' = [scope EXCEPT ![r] = S] /\ BeginScan(r, S)
    BY <1>1 DEF Start
  <2>2. S \subseteq Accounts
    BY PoolAssumption DEF PoolAssumption
  <2>3. Binding(r) \in Accounts \cup {NoAccount}
    BY PoolAssumption DEF PoolAssumption, Binding, PlatformTypeOK
  <2>4. RequestTypeOK'
    <3>1. acct[r] = NoAccount
      BY <1>1, SelectingHoldsNothing DEF Start
    <3> QED  BY <1>1, <2>1, <3>1 DEF Start, BeginScan, RequestTypeOK, PoolTypeOK, Reserved, Selecting
  <2>5. LocalTypeOK'
    BY <1>1, <2>1, <2>2, <2>3, NoCandidatesType DEF Start, BeginScan, LocalTypeOK, flags, queue
  <2>6. PoolTypeOK' /\ PlatformTypeOK'
    BY <1>1 DEF Start, counts, env, PoolTypeOK, PlatformTypeOK
  <2> QED  BY <2>4, <2>5, <2>6
<1>2. ASSUME NEW r \in Requests, Resume(r) PROVE TypeOK'
  <2>1. acct[r] = NoAccount
    BY <1>2, SelectingHoldsNothing DEF Resume, Selecting
  <2>2. PoolTypeOK' /\ PlatformTypeOK'
    BY <1>2 DEF Resume, End, counts, env, PoolTypeOK, PlatformTypeOK
  <2>3. CASE End(r)
    BY <2>1, <2>2, <2>3, EndType
  <2>4. CASE ~End(r)
    <3>1. RequestTypeOK'
      BY <1>2, <2>1, <2>4 DEF Resume, BeginScan, RequestTypeOK, Reserved, Selecting
    <3>2. BeginScan(r, scope[r]) /\ UNCHANGED <<scope, boundBefore, cleared, flags>>
            /\ waitSticky' = [waitSticky EXCEPT ![r] = FALSE]
            /\ slice' = [slice EXCEPT ![r] = FALSE]
      BY <1>2, <2>4 DEF Resume
    <3>3. LocalTypeOK'
      BY <3>2, NoCandidatesType DEF BeginScan, LocalTypeOK, flags
    <3> QED  BY <2>2, <3>1, <3>3
  <2> QED  BY <2>3, <2>4
<1>3. ASSUME NEW r \in Requests, GiveUp(r) PROVE TypeOK'
  <2>1. acct[r] = NoAccount
    BY <1>3, SelectingHoldsNothing DEF GiveUp, Selecting
  <2>2. End(r)
    BY <1>3 DEF GiveUp
  <2>3. PoolTypeOK' /\ PlatformTypeOK'
    BY <1>3, <2>2, StickyAfterPickType DEF GiveUp, End, counts, env, PoolTypeOK, PlatformTypeOK
  <2> QED  BY <2>1, <2>2, <2>3, EndType
<1>4. ASSUME NEW r \in Requests, WaitTimeout(r) PROVE TypeOK'
  <2>1. acct[r] = NoAccount
    BY <1>4, SelectingHoldsNothing DEF WaitTimeout, Selecting
  <2>2. PoolTypeOK' /\ PlatformTypeOK'
    BY <1>4, DequeueType DEF WaitTimeout, End, counts, env, PoolTypeOK, PlatformTypeOK
  <2>3. CASE End(r)
    BY <2>1, <2>2, <2>3, EndType
  <2>4. CASE ~End(r)
    BY <1>4, <2>1, <2>2, <2>4
       DEF WaitTimeout, RequestTypeOK, LocalTypeOK, local, flags, queue, Reserved, Selecting
  <2> QED  BY <2>3, <2>4
<1>5. ASSUME NEW r \in Requests, Expire(r) PROVE TypeOK'
  BY <1>5 DEF Expire, RequestTypeOK, LocalTypeOK, PoolTypeOK, PlatformTypeOK,
              local, queue, counts, env
<1>6. ASSUME NEW r \in Requests, Abort(r) PROVE TypeOK'
  <2>1. acct[r] = NoAccount
    BY <1>6, SelectingHoldsNothing DEF Abort
  <2>2. PoolTypeOK' /\ PlatformTypeOK'
    BY <1>6, DequeueType DEF Abort, End, counts, env, PoolTypeOK, PlatformTypeOK
  <2>3. CASE End(r)
    BY <2>1, <2>2, <2>3, EndType
  <2>4. CASE ~End(r)
    BY <1>6, <2>2, <2>4 DEF Abort, RequestTypeOK, LocalTypeOK, local, queue
  <2> QED  BY <2>3, <2>4
<1>7. ASSUME NEW r \in Requests, BindAll(r) PROVE TypeOK'
  <2>1. RequestTypeOK'
    BY <1>7 DEF BindAll, RequestTypeOK, Reserved
  <2>2. LocalTypeOK' /\ PoolTypeOK' /\ PlatformTypeOK'
    BY <1>7 DEF BindAll, RequestTypeOK, LocalTypeOK, PoolTypeOK, PlatformTypeOK,
                local, flags, queue, counts, env
  <2> QED  BY <2>1, <2>2
<1>8. ASSUME NEW r \in Requests, MarkSuccess(r) PROVE TypeOK'
  BY <1>8 DEF MarkSuccess, RequestTypeOK, LocalTypeOK, PoolTypeOK, PlatformTypeOK,
              local, flags, queue, counts, CooldownStates
<1>9. ASSUME NEW r \in Requests, MarkCooldown(r) PROVE TypeOK'
  <2>1. acct[r] \in Accounts /\ pool[r] \in Pools
    BY <1>9 DEF MarkCooldown, RequestTypeOK, Reserved
  <2>2. PICK kind \in CoolKinds, timed, unbind, marked \in BOOLEAN :
          /\ cooldown' = [cooldown EXCEPT ![acct[r]] = kind]
          /\ gate' = IF marked THEN [gate EXCEPT ![acct[r]] = DiskMark(kind)] ELSE gate
          /\ timers' = IF timed THEN timers \cup {<<pool[r], acct[r]>>}
                       ELSE timers \ {<<pool[r], acct[r]>>}
          /\ sticky' = IF unbind
                       THEN [k \in Keys |-> IF sticky[k] = acct[r] THEN NoAccount ELSE sticky[k]]
                       ELSE sticky
    BY <1>9 DEF MarkCooldown
  <2>3. kind \in CooldownStates
    BY PoolAssumption DEF PoolAssumption
  <2>4. PlatformTypeOK'
    BY <1>9, <2>1, <2>2, <2>3 DEF MarkCooldown, PlatformTypeOK, DiskMark, GateStates
  <2>5. RequestTypeOK' /\ LocalTypeOK' /\ PoolTypeOK'
    BY <1>9 DEF MarkCooldown, RequestTypeOK, LocalTypeOK, PoolTypeOK, local, flags, queue, counts
  <2> QED  BY <2>4, <2>5
<1>10. ASSUME NEW r \in Requests, Release(r) PROVE TypeOK'
  <2>1. acct[r] \in Accounts /\ pool[r] \in Pools /\ 0 \in Pools
    BY <1>10, PoolAssumption DEF Release, RequestTypeOK, Reserved, PoolAssumption, Pools
  <2>2. \A n \in Nat : Dec(n) \in Nat
    BY DEF Dec
  <2>3. RequestTypeOK'
    <3>1. PcAfterWake(NotifiedBy(pool[r], acct[r])) \in [Requests -> {"idle"} \cup Selecting \cup Reserved]
          /\ \A q \in Requests : PcAfterWake(NotifiedBy(pool[r], acct[r]))[q] \in Reserved <=> acct[q] # NoAccount
      BY <2>1, NotifiedAreWaiters, PcAfterWakeType
    <3> QED  BY <1>10, <2>1, <3>1 DEF Release, RequestTypeOK, Reserved
  <2>4. waiters' \in [Pools -> [Accounts -> SUBSET Requests]]
    BY <1>10, <2>1, WakeType DEF Release
  <2>5. PoolTypeOK'
    BY <1>10, <2>1, <2>2, <2>4 DEF Release, PoolTypeOK
  <2>6. LocalTypeOK' /\ PlatformTypeOK'
    BY <1>10 DEF Release, LocalTypeOK, PlatformTypeOK, local, flags, queue, env
  <2> QED  BY <2>3, <2>5, <2>6
<1>11. ASSUME NEW r \in Requests, NEW a \in Accounts, Scan(r, a) PROVE TypeOK'
  <2>1. acct[r] = NoAccount
    BY <1>11, SelectingHoldsNothing DEF Scan, Selecting
  <2>2. PoolTypeOK'
    BY <1>11 DEF Scan, End, counts, PoolTypeOK
  <2>3. CASE End(r)
    <3>1. PlatformTypeOK'
      BY <1>11, <2>3 DEF Scan, End, env, PlatformTypeOK
    <3> QED  BY <2>1, <2>2, <2>3, <3>1, EndType
  <2>4. CASE ~End(r)
    <3>1. /\ snap' = [snap EXCEPT ![r][a] = CheckEligibility(r, a)]
          /\ todo' = [todo EXCEPT ![r] = @ \ {a}]
          /\ UNCHANGED <<scope, boundBefore, cleared, flags, queue>>
      BY <1>11, <2>4 DEF Scan
    <3>2. snap' \in [Requests -> [Accounts -> Candidate]]
      BY <3>1, CheckEligibilityType DEF LocalTypeOK
    <3>3. LocalTypeOK'
      BY <3>1, <3>2 DEF LocalTypeOK, flags, queue
    <3>4. PlatformTypeOK'
      BY <1>11, <2>4 DEF Scan, PlatformTypeOK, CooldownStates
    <3>5. RequestTypeOK'
      BY <1>11, <2>1, <2>4 DEF Scan, RequestTypeOK, Reserved, Selecting
    <3> QED  BY <2>2, <3>3, <3>4, <3>5
  <2> QED  BY <2>3, <2>4
<1>12. ASSUME NEW r \in Requests, NEW a \in Accounts, Reserve(r, a) PROVE TypeOK'
  <2>1. pool[r] \in Pools /\ a # NoAccount
    BY PoolAssumption DEF RequestTypeOK, PoolAssumption
  <2>2. RequestTypeOK'
    BY <1>12, <2>1 DEF Reserve, RequestTypeOK, Reserved
  <2>3. LocalTypeOK'
    BY <1>12, ForgetType DEF Reserve
  <2>4. PoolTypeOK'
    BY <1>12, <2>1 DEF Reserve, PoolTypeOK
  <2>5. PlatformTypeOK'
    BY <1>12, StickyAfterPickType DEF Reserve, env, PlatformTypeOK
  <2> QED  BY <2>2, <2>3, <2>4, <2>5
<1>13. ASSUME NEW r \in Requests, NEW a \in Accounts, Enqueue(r, a) PROVE TypeOK'
  <2>1. pool[r] \in Pools /\ acct[r] = NoAccount
    BY <1>13, SelectingHoldsNothing DEF Enqueue, RequestTypeOK, Selecting
  <2>2. RequestTypeOK'
    BY <1>13, <2>1 DEF Enqueue, RequestTypeOK, Reserved, Selecting
  <2>3. StickyPlan(r) \in BOOLEAN /\ ClearedNow(r) \in BOOLEAN
    BY DEF StickyPlan, ClearedNow, LocalTypeOK
  <2>4. LocalTypeOK'
    BY <1>13, <2>3, NoCandidatesType DEF Enqueue, LocalTypeOK, flags
  <2>5. PoolTypeOK'
    BY <1>13, <2>1 DEF Enqueue, PoolTypeOK, counts
  <2>6. PlatformTypeOK'
    BY <1>13, StickyAfterPickType DEF Enqueue, env, PlatformTypeOK
  <2> QED  BY <2>2, <2>4, <2>5, <2>6
<1>14. ASSUME NEW a \in Accounts, CooldownLapses(a) \/ GateChanges(a) \/ SetConcurrency(a)
       PROVE TypeOK'
  <2>1. RequestTypeOK' /\ LocalTypeOK' /\ PoolTypeOK'
    BY <1>14 DEF CooldownLapses, GateChanges, SetConcurrency, RequestTypeOK, LocalTypeOK,
                 PoolTypeOK, local, flags, queue, counts
  <2>2. PlatformTypeOK'
    BY <1>14, PoolAssumption DEF CooldownLapses, GateChanges, SetConcurrency, PlatformTypeOK,
                                 CooldownStates, PoolAssumption
  <2> QED  BY <2>1, <2>2
<1>15. ASSUME NEW p \in Pools, NEW a \in Accounts, CooldownWake(p, a) \/ CooldownCleared(p, a)
       PROVE TypeOK'
  <2>1. Wake(p, AllWaiters(p)) /\ pc' = PcAfterWake(AllWaiters(p))
    BY <1>15 DEF CooldownWake, CooldownCleared
  <2>2. UNCHANGED <<pool, acct, local, flags, queue, current, counts, cap, gate, sticky>>
    BY <1>15 DEF CooldownWake, CooldownCleared
  <2>3. RequestTypeOK'
    BY <2>1, <2>2, PcAfterWakeType DEF RequestTypeOK
  <2>4. PoolTypeOK'
    BY <2>1, <2>2, WakeType DEF PoolTypeOK, counts
  <2>5. LocalTypeOK'
    BY <2>2 DEF LocalTypeOK, local, flags, queue
  <2>6. PlatformTypeOK'
    BY <1>15, <2>2 DEF CooldownWake, CooldownCleared, PlatformTypeOK, CooldownStates
  <2> QED  BY <2>3, <2>4, <2>5, <2>6
<1>16. ASSUME Reload PROVE TypeOK'
  <2>1. current' \in Pools
    BY <1>16, PoolAssumption DEF Reload, Pools, PoolAssumption, PoolTypeOK
  <2> QED  BY <1>16, <2>1 DEF Reload, RequestTypeOK, LocalTypeOK, PoolTypeOK, PlatformTypeOK,
                              local, flags, queue, counts, env
<1>17. ASSUME UNCHANGED vars PROVE TypeOK'
  BY <1>17 DEF vars, RequestTypeOK, LocalTypeOK, PoolTypeOK, PlatformTypeOK,
               local, flags, queue, counts, env
<1> QED
  BY <1>1, <1>2, <1>3, <1>4, <1>5, <1>6, <1>7, <1>8, <1>9, <1>10, <1>11, <1>12, <1>13,
     <1>14, <1>15, <1>16, <1>17 DEF Next, RequestStep, PlatformStep

-----------------------------------------------------------------------------
(* The wait queues.                                                         *)

LEMMA QueueFinite ==
  ASSUME TypeOK, NEW p \in Pools, NEW a \in Accounts
  PROVE  /\ waiters[p][a] \subseteq Requests
         /\ IsFiniteSet(waiters[p][a])
         /\ Cardinality(waiters[p][a]) \in Nat
<1>1. waiters[p][a] \in SUBSET Requests
  BY DEF TypeOK, PoolTypeOK
<1>2. IsFiniteSet(waiters[p][a])
  BY <1>1, FS_Subset, PoolAssumption DEF PoolAssumption
<1> QED  BY <1>1, <1>2, FS_CardinalityType

LEMMA QueuesInit == Init => QueuesExact
<1> SUFFICES ASSUME Init PROVE QueuesExact
  OBVIOUS
<1>1. \A p \in Pools, a \in Accounts : waiters[p][a] = {}
  BY DEF Init
<1>2. QueuedWait
  BY <1>1 DEF QueuedWait
<1>3. WaitersQueuedOnce
  BY DEF Init, WaitersQueuedOnce
<1>4. QueuesBounded
  <2>1. Cardinality({}) = 0
    BY FS_EmptySet
  <2>2. MaxWaiters \in Nat
    BY PoolAssumption DEF PoolAssumption
  <2> QED  BY <1>1, <2>1, <2>2 DEF QueuesBounded
<1> QED  BY <1>2, <1>3, <1>4 DEF QueuesExact

(* A step of a request outside the queues leaves them as they are.          *)
LEMMA QueuesUntouched ==
  ASSUME TypeOK, QueuesExact, NEW r, UNCHANGED waiters,
         pc[r] # "wait" /\ pc'[r] # "wait",
         \A q \in Requests \ {r} : pc'[q] = pc[q] /\ pool'[q] = pool[q]
  PROVE  QueuesExact'
<1>1. \A p \in Pools, a \in Accounts : waiters[p][a] \subseteq Requests
  BY QueueFinite
<1>2. QueuedWait'
  BY <1>1 DEF QueuedWait, QueuesExact
<1>3. WaitersQueuedOnce'
  BY DEF WaitersQueuedOnce, QueuesExact
<1>4. QueuesBounded'
  BY DEF QueuesBounded, QueuesExact
<1> QED  BY <1>2, <1>3, <1>4 DEF QueuesExact

LEMMA QueuesUnchanged ==
  ASSUME QueuesExact, UNCHANGED <<pc, pool, waiters>>
  PROVE  QueuesExact'
BY DEF QueuesExact, QueuedWait, WaitersQueuedOnce, QueuesBounded

(* Requests taken out of the queues of a scheduler stop waiting.            *)
LEMMA QueuesAfterWake ==
  ASSUME TypeOK, QueuesExact, NEW p \in Pools, NEW W \in SUBSET AllWaiters(p), Wake(p, W),
         \A q \in W : pc'[q] # "wait",
         \A q \in Requests \ W : /\ pc[q] = "wait" <=> pc'[q] = "wait"
                                 /\ pc[q] = "wait" => pool'[q] = pool[q]
  PROVE  QueuesExact'
<1>1. /\ waiters'[p] = [a \in Accounts |-> waiters[p][a] \ W]
      /\ \A o \in Pools \ {p} : waiters'[o] = waiters[o]
  BY DEF Wake, TypeOK, PoolTypeOK
<1>2. \A q \in W : q \in Requests /\ pc[q] = "wait" /\ pool[q] = p
  BY QueueFinite DEF AllWaiters, QueuesExact, QueuedWait
<1>3. \A o \in Pools, a \in Accounts :
         waiters[o][a] \subseteq Requests /\ waiters'[o][a] = waiters[o][a] \ W
  <2> SUFFICES ASSUME NEW o \in Pools, NEW a \in Accounts
               PROVE  waiters[o][a] \subseteq Requests /\ waiters'[o][a] = waiters[o][a] \ W
    OBVIOUS
  <2>1. waiters[o][a] \subseteq Requests
    BY QueueFinite
  <2>2. CASE o = p
    BY <1>1, <2>1, <2>2
  <2>3. CASE o # p
    BY <1>1, <1>2, <2>1, <2>3 DEF QueuesExact, QueuedWait
  <2> QED  BY <2>2, <2>3
<1>4. QueuedWait'
  BY <1>3 DEF QueuedWait, QueuesExact
<1>5. WaitersQueuedOnce'
  <2> SUFFICES ASSUME NEW r \in Requests, pc'[r] = "wait"
               PROVE  \E a \in Accounts :
                        /\ r \in waiters'[pool'[r]][a]
                        /\ \A b \in Accounts \ {a} : r \notin waiters'[pool'[r]][b]
    BY DEF WaitersQueuedOnce
  <2>1. r \notin W /\ pc[r] = "wait" /\ pool'[r] = pool[r] /\ pool[r] \in Pools
    BY DEF TypeOK, RequestTypeOK
  <2> QED  BY <1>3, <2>1 DEF WaitersQueuedOnce, QueuesExact
<1>6. QueuesBounded'
  <2> SUFFICES ASSUME NEW o \in Pools, NEW a \in Accounts
               PROVE  Cardinality(waiters'[o][a]) <= MaxWaiters
    BY DEF QueuesBounded
  <2>1. IsFiniteSet(waiters[o][a]) /\ waiters'[o][a] \in SUBSET waiters[o][a]
    BY <1>3, QueueFinite
  <2>2. /\ Cardinality(waiters'[o][a]) <= Cardinality(waiters[o][a])
        /\ Cardinality(waiters[o][a]) \in Nat /\ Cardinality(waiters'[o][a]) \in Nat
    BY <2>1, FS_Subset, FS_CardinalityType
  <2> QED  BY <2>2, PoolAssumption DEF QueuesExact, QueuesBounded, PoolAssumption
<1> QED  BY <1>4, <1>5, <1>6 DEF QueuesExact

LEMMA QueuesAfterEnqueue ==
  ASSUME TypeOK, QueuesExact, NEW r \in Requests, NEW a \in Accounts, Enqueue(r, a)
  PROVE  QueuesExact'
<1>1. /\ pool[r] \in Pools /\ pc[r] = "decide" /\ UNCHANGED pool
      /\ pc' = [pc EXCEPT ![r] = "wait"]
      /\ waiters' = [waiters EXCEPT ![pool[r]][a] = @ \cup {r}]
  BY DEF Enqueue, TypeOK, RequestTypeOK
<1>2. QueueOpen(r, a)
  BY DEF Enqueue, WaitTargets, StickyPlan
<1>3. \A o \in Pools, b \in Accounts :
         /\ waiters[o][b] \subseteq Requests /\ r \notin waiters[o][b]
         /\ waiters'[o][b] = IF o = pool[r] /\ b = a THEN waiters[o][b] \cup {r} ELSE waiters[o][b]
  BY <1>1, QueueFinite DEF TypeOK, PoolTypeOK, QueuesExact, QueuedWait
<1>4. pc'[r] = "wait" /\ \A q \in Requests \ {r} : pc'[q] = pc[q]
  BY <1>1 DEF TypeOK, RequestTypeOK
<1>5. QueuedWait'
  BY <1>1, <1>3, <1>4 DEF QueuedWait, QueuesExact
<1>6. WaitersQueuedOnce'
  <2> SUFFICES ASSUME NEW q \in Requests, pc'[q] = "wait"
               PROVE  \E c \in Accounts :
                        /\ q \in waiters'[pool'[q]][c]
                        /\ \A b \in Accounts \ {c} : q \notin waiters'[pool'[q]][b]
    BY DEF WaitersQueuedOnce
  <2>1. CASE q = r
    <3>1. pool'[r] = pool[r] /\ pool[r] \in Pools
      BY <1>1
    <3>2. r \in waiters'[pool[r]][a]
      BY <1>3, <3>1
    <3>3. ASSUME NEW b \in Accounts \ {a} PROVE r \notin waiters'[pool[r]][b]
      BY <1>3, <3>1
    <3> QED  BY <2>1, <3>1, <3>2, <3>3
  <2>2. CASE q # r
    <3>1. pc[q] = "wait" /\ pool'[q] = pool[q] /\ pool[q] \in Pools
      BY <1>1, <1>4, <2>2 DEF TypeOK, RequestTypeOK
    <3>2. PICK c \in Accounts : /\ q \in waiters[pool[q]][c]
                               /\ \A b \in Accounts \ {c} : q \notin waiters[pool[q]][b]
      BY <3>1 DEF WaitersQueuedOnce, QueuesExact
    <3>3. ASSUME NEW b \in Accounts PROVE q \in waiters'[pool[q]][b] <=> q \in waiters[pool[q]][b]
      <4>1. waiters'[pool[q]][b] \in {waiters[pool[q]][b], waiters[pool[q]][b] \cup {r}}
        BY <1>3, <3>1
      <4> QED  BY <2>2, <4>1
    <3> QED  BY <3>1, <3>2, <3>3
  <2> QED  BY <2>1, <2>2
<1>7. QueuesBounded'
  <2> SUFFICES ASSUME NEW o \in Pools, NEW b \in Accounts
               PROVE  Cardinality(waiters'[o][b]) <= MaxWaiters
    BY DEF QueuesBounded
  <2>1. CASE o = pool[r] /\ b = a
    <3>0. /\ IsFiniteSet(waiters[o][b]) /\ r \notin waiters[o][b]
          /\ waiters'[o][b] = waiters[o][b] \cup {r}
      BY <1>3, <2>1, QueueFinite
    <3>1. Cardinality(waiters'[o][b]) = Cardinality(waiters[o][b]) + 1
      BY <3>0, FS_AddElement
    <3>2. Cardinality(waiters[o][b]) < MaxWaiters /\ Cardinality(waiters[o][b]) \in Nat
      BY <1>2, <2>1, QueueFinite DEF QueueOpen, WaiterCount
    <3> QED  BY <3>1, <3>2, PoolAssumption DEF PoolAssumption
  <2>2. CASE ~(o = pool[r] /\ b = a)
    BY <1>3, <2>2 DEF QueuesExact, QueuesBounded
  <2> QED  BY <2>1, <2>2
<1> QED  BY <1>5, <1>6, <1>7 DEF QueuesExact

LEMMA QueuesNext == TypeOK /\ QueuesExact /\ [Next]_vars => QueuesExact'
<1> SUFFICES ASSUME TypeOK, QueuesExact, [Next]_vars PROVE QueuesExact'
  OBVIOUS
<1>0. pc \in [Requests -> {"idle"} \cup Selecting \cup Reserved] /\ pool \in [Requests -> Pools]
  BY DEF TypeOK, RequestTypeOK
<1>1. ASSUME NEW r \in Requests, UNCHANGED waiters, pc[r] # "wait",
             \E x : x # "wait" /\ pc' = [pc EXCEPT ![r] = x],
             \E x : pool' = [pool EXCEPT ![r] = x]
      PROVE  QueuesExact'
  BY <1>0, <1>1, QueuesUntouched
<1>2. ASSUME NEW r \in Requests,
             Start(r) \/ GiveUp(r) \/ Resume(r) \/ BindAll(r)
               \/ \E a \in Accounts : Scan(r, a) \/ Reserve(r, a)
      PROVE  QueuesExact'
  <2>1. UNCHANGED waiters /\ pc[r] # "wait"
    BY <1>2 DEF Start, GiveUp, Resume, BindAll, Scan, Reserve
  <2>2. \E x : x # "wait" /\ pc' = [pc EXCEPT ![r] = x]
    BY <1>2 DEF Start, GiveUp, Resume, BindAll, Scan, Reserve, BeginScan, End
  <2>3. \E x : pool' = [pool EXCEPT ![r] = x]
    <3>1. pool = [pool EXCEPT ![r] = pool[r]]
      BY <1>0
    <3> QED  BY <1>2, <3>1 DEF Start, GiveUp, Resume, BindAll, Scan, Reserve, End
  <2> QED  BY <1>1, <2>1, <2>2, <2>3
<1>3. ASSUME NEW r \in Requests, Dequeue(r), pc[r] = "wait",
             \E x : x # "wait" /\ pc' = [pc EXCEPT ![r] = x],
             \A q \in Requests \ {r} : pool'[q] = pool[q]
      PROVE  QueuesExact'
  <2>1. {r} \in SUBSET AllWaiters(pool[r])
    BY <1>3 DEF QueuesExact, WaitersQueuedOnce, AllWaiters
  <2>2. pool[r] \in Pools /\ Wake(pool[r], {r})
    BY <1>0, <1>3 DEF Dequeue
  <2> QED  BY <1>0, <1>3, <2>1, <2>2, QueuesAfterWake
<1>4. ASSUME NEW r \in Requests, WaitTimeout(r) PROVE QueuesExact'
  <2>1. /\ Dequeue(r) /\ pc[r] = "wait"
        /\ \E x : x # "wait" /\ pc' = [pc EXCEPT ![r] = x]
    BY <1>4 DEF WaitTimeout, End
  <2>2. \A q \in Requests \ {r} : pool'[q] = pool[q]
    BY <1>0, <1>4 DEF WaitTimeout, End
  <2> QED  BY <1>3, <2>1, <2>2
<1>5. ASSUME NEW r \in Requests, Abort(r) PROVE QueuesExact'
  <2>1. CASE pc[r] = "wait"
    <3>1. /\ Dequeue(r)
          /\ \E x : x # "wait" /\ pc' = [pc EXCEPT ![r] = x]
      BY <1>5, <2>1 DEF Abort, End
    <3>2. \A q \in Requests \ {r} : pool'[q] = pool[q]
      BY <1>0, <1>5, <2>1 DEF Abort, End
    <3> QED  BY <1>3, <2>1, <3>1, <3>2
  <2>2. CASE pc[r] # "wait"
    BY <1>5, <2>2, QueuesUnchanged DEF Abort
  <2> QED  BY <2>1, <2>2
<1>6. ASSUME NEW r \in Requests, Release(r) PROVE QueuesExact'
  <2>1. pool[r] \in Pools /\ acct[r] \in Accounts /\ pc[r] = "held"
    BY <1>6 DEF Release, TypeOK, RequestTypeOK, Reserved
  <2> DEFINE W == NotifiedBy(pool[r], acct[r])
  <2>2. W \in SUBSET AllWaiters(pool[r])
    BY <2>1, NotifiedAreWaiters
  <2>3. \A q \in W : q \in Requests /\ pc[q] = "wait"
    BY <2>1, <2>2, QueueFinite DEF AllWaiters, QueuesExact, QueuedWait
  <2>4. /\ Wake(pool[r], W)
        /\ pc' = [PcAfterWake(W) EXCEPT ![r] = "idle"]
        /\ pool' = [pool EXCEPT ![r] = 0]
    BY <1>6 DEF Release
  <2> HIDE DEF W
  <2>5. \A q \in W : pc'[q] # "wait"
    BY <2>1, <2>3, <2>4 DEF PcAfterWake
  <2>6. \A q \in Requests \ W : /\ pc[q] = "wait" <=> pc'[q] = "wait"
                                /\ pc[q] = "wait" => pool'[q] = pool[q]
    BY <1>0, <2>1, <2>4 DEF PcAfterWake
  <2> QED  BY <2>1, <2>2, <2>4, <2>5, <2>6, QueuesAfterWake
<1>7. ASSUME NEW p \in Pools, NEW a \in Accounts, CooldownWake(p, a) \/ CooldownCleared(p, a)
      PROVE  QueuesExact'
  <2>1. Wake(p, AllWaiters(p)) /\ pc' = PcAfterWake(AllWaiters(p)) /\ UNCHANGED pool
    BY <1>7 DEF CooldownWake, CooldownCleared
  <2>2. \A q \in AllWaiters(p) : q \in Requests
    BY QueueFinite DEF AllWaiters
  <2> QED  BY <2>1, <2>2, QueuesAfterWake DEF PcAfterWake
<1>8. ASSUME \/ UNCHANGED vars \/ Reload
             \/ \E r \in Requests : Expire(r) \/ MarkSuccess(r) \/ MarkCooldown(r)
             \/ \E a \in Accounts : CooldownLapses(a) \/ GateChanges(a) \/ SetConcurrency(a)
      PROVE  QueuesExact'
  BY <1>8, QueuesUnchanged
     DEF vars, Reload, Expire, MarkSuccess, MarkCooldown, CooldownLapses, GateChanges, SetConcurrency
<1> QED
  BY <1>2, <1>4, <1>5, <1>6, <1>7, <1>8, QueuesAfterEnqueue DEF Next, RequestStep, PlatformStep

-----------------------------------------------------------------------------
(* The counters.                                                            *)

LEMMA HoldersFinite ==
  ASSUME NEW a
  PROVE  /\ IsFiniteSet(AllHolders(a)) /\ Cardinality(AllHolders(a)) \in Nat
         /\ \A p : /\ IsFiniteSet(Holders(p, a)) /\ IsFiniteSet(Holders(p, a) \cap Fable)
                   /\ Cardinality(Holders(p, a) \cap Fable) \in Nat
<1>1. AllHolders(a) \in SUBSET Requests
  BY DEF AllHolders
<1>2. \A p : Holders(p, a) \in SUBSET Requests /\ (Holders(p, a) \cap Fable) \in SUBSET Requests
  BY DEF Holders
<1>3. IsFiniteSet(Requests)
  BY PoolAssumption DEF PoolAssumption
<1> QED  BY <1>1, <1>2, <1>3, FS_Subset, FS_CardinalityType

LEMMA CountersInit == Init => CountersExact
<1> SUFFICES ASSUME Init PROVE CountersExact
  OBVIOUS
<1>1. Cardinality({}) = 0
  BY FS_EmptySet
<1>2. \A a \in Accounts : AllHolders(a) = {} /\ \A p \in Pools : Holders(p, a) = {} /\ Holders(p, a) \cap Fable = {}
  BY PoolAssumption DEF Init, AllHolders, Holders, PoolAssumption
<1>3. \A a \in Accounts : quota[a] = 0 /\ \A p \in Pools : inflight[p][a] = 0 /\ family[p][a] = 0
  BY DEF Init
<1> QED  BY <1>1, <1>2, <1>3 DEF CountersExact

(* Only holders of an account count.                                        *)
LEMMA CountersUntouched ==
  ASSUME CountersExact, UNCHANGED counts, UNCHANGED acct,
         \A q \in Requests : acct[q] # NoAccount => pool'[q] = pool[q]
  PROVE  CountersExact'
<1>1. ASSUME NEW a \in Accounts PROVE AllHolders(a)' = AllHolders(a) /\ \A p \in Pools : Holders(p, a)' = Holders(p, a)
  BY PoolAssumption DEF AllHolders, Holders, PoolAssumption
<1> QED  BY <1>1 DEF CountersExact, counts

LEMMA CountersAfterReserve ==
  ASSUME TypeOK, CountersExact, NEW r \in Requests, NEW a \in Accounts, Reserve(r, a)
  PROVE  CountersExact'
<1>1. acct[r] = NoAccount /\ pool[r] \in Pools /\ a # NoAccount
  BY SelectingHoldsNothing, PoolAssumption DEF Reserve, Selecting, TypeOK, RequestTypeOK, PoolAssumption
<1>2. /\ UNCHANGED pool /\ acct' = [acct EXCEPT ![r] = a]
      /\ inflight' = [inflight EXCEPT ![pool[r]][a] = @ + 1]
      /\ family' = [family EXCEPT ![pool[r]][a] = IF r \in Fable THEN @ + 1 ELSE @]
      /\ quota' = [quota EXCEPT ![a] = @ + 1]
  BY DEF Reserve
<1>3. /\ inflight \in [Pools -> [Accounts -> Nat]] /\ family \in [Pools -> [Accounts -> Nat]]
      /\ quota \in [Accounts -> Nat] /\ acct \in [Requests -> Accounts \cup {NoAccount}]
  BY DEF TypeOK, PoolTypeOK, RequestTypeOK
<1>4. ASSUME NEW b \in Accounts
      PROVE  quota'[b] = Cardinality(AllHolders(b)')
  <2>1. CASE b = a
    <3>1. AllHolders(a)' = AllHolders(a) \cup {r} /\ r \notin AllHolders(a)
      BY <1>1, <1>2, <1>3 DEF AllHolders
    <3>2. Cardinality(AllHolders(a)') = Cardinality(AllHolders(a)) + 1
      BY <3>1, HoldersFinite, FS_AddElement
    <3> QED  BY <1>2, <1>3, <2>1, <3>2 DEF CountersExact
  <2>2. CASE b # a
    <3>1. AllHolders(b)' = AllHolders(b)
      BY <1>1, <1>2, <1>3, <2>2, PoolAssumption DEF AllHolders, PoolAssumption
    <3> QED  BY <1>2, <1>3, <2>2, <3>1 DEF CountersExact
  <2> QED  BY <2>1, <2>2
<1>5. ASSUME NEW p \in Pools, NEW b \in Accounts
      PROVE  /\ inflight'[p][b] = Cardinality(Holders(p, b)')
             /\ family'[p][b] = Cardinality(Holders(p, b)' \cap Fable)
  <2>0. /\ inflight[p][b] = Cardinality(Holders(p, b)) /\ inflight[p][b] \in Nat
        /\ family[p][b] = Cardinality(Holders(p, b) \cap Fable) /\ family[p][b] \in Nat
    BY <1>3 DEF CountersExact
  <2>1. CASE p = pool[r] /\ b = a
    <3>1. Holders(p, a)' = Holders(p, a) \cup {r} /\ r \notin Holders(p, a)
      BY <1>1, <1>2, <1>3, <2>1 DEF Holders
    <3>2. Cardinality(Holders(p, a)') = Cardinality(Holders(p, a)) + 1
      BY <3>1, HoldersFinite, FS_AddElement
    <3>3. inflight'[p][b] = inflight[p][b] + 1
          /\ family'[p][b] = IF r \in Fable THEN family[p][b] + 1 ELSE family[p][b]
      BY <1>2, <1>3, <2>1
    <3>4. CASE r \in Fable
      <4>1. Holders(p, a)' \cap Fable = (Holders(p, a) \cap Fable) \cup {r}
            /\ r \notin Holders(p, a) \cap Fable
        BY <3>1, <3>4
      <4>2. Cardinality(Holders(p, a)' \cap Fable) = Cardinality(Holders(p, a) \cap Fable) + 1
        BY <4>1, HoldersFinite, FS_AddElement
      <4> QED  BY <2>0, <2>1, <3>2, <3>3, <3>4, <4>2
    <3>5. CASE r \notin Fable
      <4>1. Holders(p, a)' \cap Fable = Holders(p, a) \cap Fable
        BY <3>1, <3>5
      <4> QED  BY <2>0, <2>1, <3>2, <3>3, <3>5, <4>1
    <3> QED  BY <3>4, <3>5
  <2>2. CASE ~(p = pool[r] /\ b = a)
    <3>1. Holders(p, b)' = Holders(p, b)
      BY <1>1, <1>2, <1>3, <2>2, PoolAssumption DEF Holders, PoolAssumption
    <3>2. inflight'[p][b] = inflight[p][b] /\ family'[p][b] = family[p][b]
      BY <1>2, <1>3, <2>2
    <3> QED  BY <2>0, <3>1, <3>2
  <2> QED  BY <2>1, <2>2
<1> QED  BY <1>4, <1>5 DEF CountersExact

LEMMA CountersAfterRelease ==
  ASSUME TypeOK, CountersExact, NEW r \in Requests, Release(r)
  PROVE  CountersExact'
<1> DEFINE a == acct[r]
<1>1. acct[r] \in Accounts /\ pool[r] \in Pools /\ acct[r] # NoAccount
  BY PoolAssumption DEF Release, Reserved, TypeOK, RequestTypeOK, PoolAssumption
<1>2. /\ pool' = [pool EXCEPT ![r] = 0] /\ acct' = [acct EXCEPT ![r] = NoAccount]
      /\ inflight' = [inflight EXCEPT ![pool[r]][a] = Dec(@)]
      /\ family' = [family EXCEPT ![pool[r]][a] = IF r \in Fable THEN Dec(@) ELSE @]
      /\ quota' = [quota EXCEPT ![a] = Dec(@)]
  BY DEF Release
<1>3. /\ inflight \in [Pools -> [Accounts -> Nat]] /\ family \in [Pools -> [Accounts -> Nat]]
      /\ quota \in [Accounts -> Nat] /\ acct \in [Requests -> Accounts \cup {NoAccount}]
      /\ pool \in [Requests -> Pools]
  BY DEF TypeOK, PoolTypeOK, RequestTypeOK
<1> HIDE DEF a
<1>a. a \in Accounts /\ acct[r] = a /\ a # NoAccount
  BY <1>1 DEF a
(* one fewer member, one fewer in the counter *)
<1>c. ASSUME NEW S, NEW n, IsFiniteSet(S), r \in S, n = Cardinality(S)
      PROVE  Cardinality(S \ {r}) = Dec(n)
  <2>1. IsFiniteSet(S \ {r}) /\ Cardinality(S \ {r}) = Cardinality(S) - 1
    BY <1>c, FS_RemoveElement
  <2>2. Cardinality(S \ {r}) \in Nat /\ Cardinality(S) \in Nat
    BY <1>c, <2>1, FS_CardinalityType
  <2> QED  BY <1>c, <2>1, <2>2 DEF Dec
<1>4. ASSUME NEW b \in Accounts
      PROVE  quota'[b] = Cardinality(AllHolders(b)')
  <2>0. quota[b] = Cardinality(AllHolders(b)) /\ IsFiniteSet(AllHolders(b))
    BY HoldersFinite DEF CountersExact
  <2>1. CASE b = a
    <3>1. AllHolders(b)' = AllHolders(b) \ {r} /\ r \in AllHolders(b)
      BY <1>a, <1>2, <1>3, <2>1 DEF AllHolders
    <3>2. quota'[b] = Dec(quota[b])
      BY <1>2, <1>3, <2>1
    <3> QED  BY <1>c, <2>0, <3>1, <3>2
  <2>2. CASE b # a
    <3>1. AllHolders(b)' = AllHolders(b)
      BY <1>a, <1>2, <1>3, <2>2, PoolAssumption DEF AllHolders, PoolAssumption
    <3> QED  BY <1>2, <1>3, <2>0, <2>2, <3>1
  <2> QED  BY <2>1, <2>2
<1>5. ASSUME NEW p \in Pools, NEW b \in Accounts
      PROVE  /\ inflight'[p][b] = Cardinality(Holders(p, b)')
             /\ family'[p][b] = Cardinality(Holders(p, b)' \cap Fable)
  <2>0. /\ inflight[p][b] = Cardinality(Holders(p, b)) /\ IsFiniteSet(Holders(p, b))
        /\ family[p][b] = Cardinality(Holders(p, b) \cap Fable) /\ IsFiniteSet(Holders(p, b) \cap Fable)
    BY HoldersFinite DEF CountersExact
  <2>1. CASE p = pool[r] /\ b = a
    <3>1. Holders(p, b)' = Holders(p, b) \ {r} /\ r \in Holders(p, b)
      BY <1>a, <1>2, <1>3, <2>1 DEF Holders
    <3>2. inflight'[p][b] = Dec(inflight[p][b])
          /\ family'[p][b] = IF r \in Fable THEN Dec(family[p][b]) ELSE family[p][b]
      BY <1>2, <1>3, <2>1
    <3>3. inflight'[p][b] = Cardinality(Holders(p, b)')
      BY <1>c, <2>0, <3>1, <3>2
    <3>4. CASE r \in Fable
      <4>1. Holders(p, b)' \cap Fable = (Holders(p, b) \cap Fable) \ {r}
            /\ r \in Holders(p, b) \cap Fable
        BY <3>1, <3>4
      <4> QED  BY <1>c, <2>0, <3>2, <3>3, <3>4, <4>1
    <3>5. CASE r \notin Fable
      <4>1. Holders(p, b)' \cap Fable = Holders(p, b) \cap Fable
        BY <3>1, <3>5
      <4> QED  BY <2>0, <3>2, <3>3, <3>5, <4>1
    <3> QED  BY <3>4, <3>5
  <2>2. CASE ~(p = pool[r] /\ b = a)
    <3>1. Holders(p, b)' = Holders(p, b)
      BY <1>a, <1>2, <1>3, <2>2, PoolAssumption DEF Holders, PoolAssumption
    <3>2. inflight'[p][b] = inflight[p][b] /\ family'[p][b] = family[p][b]
      BY <1>2, <1>3, <2>2
    <3> QED  BY <2>0, <3>1, <3>2
  <2> QED  BY <2>1, <2>2
<1> QED  BY <1>4, <1>5 DEF CountersExact

(* A step that neither reserves nor releases moves no holder.               *)
LEMMA OtherStepsKeepHolders ==
  ASSUME TypeOK, [Next]_vars,
         \A r \in Requests : ~Release(r) /\ \A a \in Accounts : ~Reserve(r, a)
  PROVE  /\ UNCHANGED <<counts, acct>>
         /\ \A q \in Requests : acct[q] # NoAccount => pool'[q] = pool[q]
<1>0. pool \in [Requests -> Pools]
  BY DEF TypeOK, RequestTypeOK
<1>1. ASSUME NEW r \in Requests, pc[r] \in Selecting \cup {"idle"}, UNCHANGED <<counts, acct>>,
             pool' = pool \/ \E x : pool' = [pool EXCEPT ![r] = x]
      PROVE  /\ UNCHANGED <<counts, acct>>
             /\ \A q \in Requests : acct[q] # NoAccount => pool'[q] = pool[q]
  <2>1. acct[r] = NoAccount
    BY <1>1, SelectingHoldsNothing DEF TypeOK
  <2> QED  BY <1>0, <1>1, <2>1
<1>2. ASSUME NEW r \in Requests,
             \/ Start(r) \/ Resume(r) \/ GiveUp(r) \/ WaitTimeout(r) \/ Abort(r)
             \/ \E a \in Accounts : Scan(r, a) \/ Enqueue(r, a)
      PROVE  /\ UNCHANGED <<counts, acct>>
             /\ \A q \in Requests : acct[q] # NoAccount => pool'[q] = pool[q]
  <2>1. pc[r] \in Selecting \cup {"idle"}
    BY <1>2 DEF Start, Resume, GiveUp, WaitTimeout, Abort, Scan, Enqueue, Selecting
  <2>2. UNCHANGED <<counts, acct>> /\ (pool' = pool \/ \E x : pool' = [pool EXCEPT ![r] = x])
    BY <1>2 DEF Start, Resume, GiveUp, WaitTimeout, Abort, Scan, Enqueue, End
  <2> QED  BY <1>1, <2>1, <2>2
<1>3. ASSUME \/ UNCHANGED vars \/ Reload
             \/ \E r \in Requests : Expire(r) \/ BindAll(r) \/ MarkSuccess(r) \/ MarkCooldown(r)
             \/ \E a \in Accounts : \/ CooldownLapses(a) \/ GateChanges(a) \/ SetConcurrency(a)
                                    \/ \E p \in Pools : CooldownWake(p, a) \/ CooldownCleared(p, a)
      PROVE  UNCHANGED <<counts, acct, pool>>
  BY <1>3 DEF vars, Reload, Expire, BindAll, MarkSuccess, MarkCooldown, CooldownLapses,
              GateChanges, SetConcurrency, CooldownWake, CooldownCleared
<1> QED  BY <1>2, <1>3 DEF Next, RequestStep, PlatformStep

LEMMA CountersNext == TypeOK /\ CountersExact /\ [Next]_vars => CountersExact'
<1> SUFFICES ASSUME TypeOK, CountersExact, [Next]_vars PROVE CountersExact'
  OBVIOUS
<1>1. CASE \E r \in Requests, a \in Accounts : Reserve(r, a)
  BY <1>1, CountersAfterReserve
<1>2. CASE \E r \in Requests : Release(r)
  BY <1>2, CountersAfterRelease
<1>3. CASE \A r \in Requests : ~Release(r) /\ \A a \in Accounts : ~Reserve(r, a)
  BY <1>3, OtherStepsKeepHolders, CountersUntouched
<1> QED  BY <1>1, <1>2, <1>3

(* Whatever account pick ends on, reserve has just checked it.              *)
LEMMA WinnersFit ==
  ASSUME NEW r, NEW a \in Winners(r)
  PROVE  CanReserve(r, a)
BY DEF Winners, First

LEMMA FableNext ==
  TypeOK /\ CountersExact /\ FableWithinCap /\ [Next]_vars => FableWithinCap'
<1> SUFFICES ASSUME TypeOK, CountersExact, FableWithinCap, [Next]_vars PROVE FableWithinCap'
  OBVIOUS
<1>1. CountersExact'
  BY CountersNext
<1>2. /\ family \in [Pools -> [Accounts -> Nat]] /\ FableCap \in Nat
      /\ \A p \in Pools, a \in Accounts : family[p][a] <= FableCap
  <2>1. family \in [Pools -> [Accounts -> Nat]]
    BY DEF TypeOK, PoolTypeOK
  <2>2. FableCap \in Nat
    BY PoolAssumption DEF PoolAssumption
  <2>3. \A p \in Pools, a \in Accounts : family[p][a] <= FableCap
    BY DEF CountersExact, FableWithinCap
  <2> QED  BY <2>1, <2>2, <2>3
<1> SUFFICES ASSUME NEW p \in Pools, NEW b \in Accounts PROVE family'[p][b] <= FableCap
  BY <1>1 DEF CountersExact, FableWithinCap
<1>3. ASSUME NEW r \in Requests, NEW a \in Accounts, Reserve(r, a) PROVE family'[p][b] <= FableCap
  <2>1. pool[r] \in Pools /\ (r \in Fable => family[pool[r]][a] < FableCap)
    BY <1>3, WinnersFit DEF Reserve, CanReserve, TypeOK, RequestTypeOK
  <2>2. family' = [family EXCEPT ![pool[r]][a] = IF r \in Fable THEN @ + 1 ELSE @]
    BY <1>3 DEF Reserve
  <2> QED  BY <1>2, <2>1, <2>2
<1>4. ASSUME NEW r \in Requests, Release(r) PROVE family'[p][b] <= FableCap
  <2>1. family' = [family EXCEPT ![pool[r]][acct[r]] = IF r \in Fable THEN Dec(@) ELSE @]
    BY <1>4 DEF Release
  <2>2. pool[r] \in Pools /\ acct[r] \in Accounts
    BY <1>4 DEF Release, Reserved, TypeOK, RequestTypeOK
  <2>3. \A n \in Nat : Dec(n) \in Nat /\ Dec(n) <= n
    BY DEF Dec
  <2>4. family'[p][b] = family[p][b] \/ family'[p][b] = Dec(family[p][b])
    BY <1>2, <2>1, <2>2
  <2>5. family[p][b] \in Nat /\ family[p][b] <= FableCap
    BY <1>2
  <2> QED  BY <1>2, <2>3, <2>4, <2>5
<1>5. CASE \A r \in Requests : ~Release(r) /\ \A a \in Accounts : ~Reserve(r, a)
  BY <1>2, <1>5, OtherStepsKeepHolders DEF counts
<1> QED  BY <1>3, <1>4, <1>5

-----------------------------------------------------------------------------
(* The theorems.                                                            *)

IInv == TypeOK /\ QueuesExact /\ CountersExact /\ FableWithinCap

LEMMA Invariance == Spec => []IInv
<1>1. Init => IInv
  <2> SUFFICES ASSUME Init PROVE IInv
    OBVIOUS
  <2>1. TypeOK /\ QueuesExact /\ CountersExact
    BY TypeOKInit, QueuesInit, CountersInit
  <2>2. FableWithinCap
    <3>1. \A p \in Pools, a \in Accounts : family[p][a] = 0
      BY DEF Init
    <3>2. FableCap \in Nat
      BY PoolAssumption DEF PoolAssumption
    <3> QED  BY <2>1, <3>1, <3>2 DEF CountersExact, FableWithinCap
  <2> QED  BY <2>1, <2>2 DEF IInv
<1>2. IInv /\ [Next]_vars => IInv'
  BY TypeOKNext, QueuesNext, CountersNext, FableNext DEF IInv, QueuesExact
<1> QED  BY <1>1, <1>2, PTL DEF Spec

(* Every variable of the scheduler, the quota, the sticky router and the    *)
(* runs of selectAndReserve keeps its type.                                 *)
THEOREM TypeCorrect == Spec => []TypeOK
BY Invariance, PTL DEF IInv

(* The wait queues hold exactly the waiting requests, once each, and never  *)
(* more than max_waiters_per_account.                                       *)
THEOREM QueuesCorrect == Spec => []QueuesExact
BY Invariance, PTL DEF IInv

(* The three counters equal the number of reservations in flight.           *)
THEOREM CountersCorrect == Spec => []CountersExact
BY Invariance, PTL DEF IInv

(* No scheduler sends more than fable_max_per_account Fable requests to one *)
(* account at a time.                                                       *)
THEOREM FableCorrect == Spec => []FableWithinCap
BY Invariance, PTL DEF IInv

(* A reservation is made only while the account has fewer holders than its  *)
(* cap of that moment: tryAcquire reads the live limit and counter.         *)
LEMMA ReserveUnderCap ==
  ASSUME TypeOK, CountersExact, NEW r \in Requests, NEW a \in Accounts, Reserve(r, a)
  PROVE  Cardinality(AllHolders(a)) < cap[a]
<1>1. ~(quota[a] >= cap[a])
  BY WinnersFit DEF Reserve, CanReserve, QuotaConcurrency
<1>2. quota[a] \in Nat /\ cap[a] \in Nat
  BY PoolAssumption DEF TypeOK, PoolTypeOK, PlatformTypeOK, PoolAssumption
<1>3. quota[a] = Cardinality(AllHolders(a))
  BY DEF CountersExact
<1> QED  BY <1>1, <1>2, <1>3

(* No account gains a holder at its cap.                                    *)
THEOREM AdmissionCorrect == Spec => AdmissionWithinCap
<1>1. ASSUME IInv, [Next]_vars, NEW a \in Accounts, ~(AllHolders(a)' \subseteq AllHolders(a))
      PROVE  Cardinality(AllHolders(a)) < cap[a]
  <2>1. acct \in [Requests -> Accounts \cup {NoAccount}] /\ a # NoAccount
    BY <1>1, PoolAssumption DEF IInv, TypeOK, RequestTypeOK, PoolAssumption
  <2>2. CASE \E r \in Requests, b \in Accounts : Reserve(r, b)
    <3>1. PICK r \in Requests, b \in Accounts : Reserve(r, b)
      BY <2>2
    <3>2. acct' = [acct EXCEPT ![r] = b]
      BY <3>1 DEF Reserve
    <3>3. a = b
      BY <1>1, <2>1, <3>2 DEF AllHolders
    <3> QED  BY <1>1, <3>1, <3>3, ReserveUnderCap DEF IInv
  <2>3. CASE \E r \in Requests : Release(r)
    <3>1. PICK r \in Requests : acct' = [acct EXCEPT ![r] = NoAccount]
      BY <2>3 DEF Release
    <3> QED  BY <1>1, <2>1, <3>1 DEF AllHolders
  <2>4. CASE \A r \in Requests : ~Release(r) /\ \A b \in Accounts : ~Reserve(r, b)
    BY <1>1, <2>4, OtherStepsKeepHolders DEF IInv, AllHolders
  <2> QED  BY <2>2, <2>3, <2>4
<1>2. IInv /\ [Next]_vars =>
        [\A a \in Accounts : ~(AllHolders(a)' \subseteq AllHolders(a)) =>
           Cardinality(AllHolders(a)) < cap[a]]_vars
  BY <1>1
<1> QED  BY <1>2, Invariance, PTL DEF Spec, AdmissionWithinCap

-----------------------------------------------------------------------------
(* Waits: how they begin, and what a release does to them.                  *)

(* The steps of one request that are not a release move no other request.   *)
LEMMA OwnSteps ==
  ASSUME NEW r \in Requests, RequestStep(r), ~Release(r)
  PROVE  /\ pc[r] = "held" => pc' = pc
         /\ pc' = pc \/ \E x : pc' = [pc EXCEPT ![r] = x]
<1>1. ASSUME Start(r) \/ Resume(r) \/ \E a \in Accounts : Scan(r, a)
      PROVE  pc[r] # "held" /\ \E x : pc' = [pc EXCEPT ![r] = x]
  BY <1>1 DEF Start, Resume, Scan, BeginScan, End
<1>2. ASSUME GiveUp(r) \/ WaitTimeout(r) \/ BindAll(r) \/ \E a \in Accounts : Reserve(r, a) \/ Enqueue(r, a)
      PROVE  pc[r] # "held" /\ \E x : pc' = [pc EXCEPT ![r] = x]
  BY <1>2 DEF GiveUp, WaitTimeout, BindAll, Reserve, Enqueue, End
<1>3. ASSUME Abort(r)
      PROVE  pc[r] # "held" /\ (pc' = pc \/ \E x : pc' = [pc EXCEPT ![r] = x])
  BY <1>3 DEF Abort, End, Selecting
<1>4. ASSUME Expire(r) \/ MarkSuccess(r) \/ MarkCooldown(r) PROVE pc' = pc
  BY <1>4 DEF Expire, MarkSuccess, MarkCooldown
<1> QED  BY <1>1, <1>2, <1>3, <1>4 DEF RequestStep

(* The steps of the platform only wake requests.                            *)
LEMMA PlatformWakes ==
  ASSUME PlatformStep \/ UNCHANGED vars
  PROVE  (pc' = pc \/ \E W : pc' = PcAfterWake(W)) /\ UNCHANGED <<cleared, waitSticky>>
BY DEF PlatformStep, CooldownLapses, GateChanges, SetConcurrency, CooldownWake, CooldownCleared,
       Reload, vars, local, queue

LEMMA HeldEnds ==
  ASSUME TypeOK, [Next]_vars, NEW r \in Requests, pc[r] = "held", pc'[r] = "idle"
  PROVE  Release(r)
<1>1. pc \in [Requests -> {"idle"} \cup Selecting \cup Reserved]
  BY DEF TypeOK, RequestTypeOK
<1>2. ASSUME NEW W, pc' = PcAfterWake(W) PROVE FALSE
  BY <1>2 DEF PcAfterWake
<1>3. CASE PlatformStep \/ UNCHANGED vars
  BY <1>2, <1>3, PlatformWakes
<1>4. ASSUME NEW q \in Requests, RequestStep(q), ~Release(q) PROVE FALSE
  <2>1. CASE q = r
    BY <1>4, <2>1, OwnSteps
  <2>2. CASE q # r
    BY <1>1, <1>4, <2>2, OwnSteps
  <2> QED  BY <2>1, <2>2
<1>5. ASSUME NEW q \in Requests, Release(q), q # r PROVE FALSE
  BY <1>1, <1>5 DEF Release, PcAfterWake
<1> QED  BY <1>3, <1>4, <1>5 DEF Next

(* A request that waits has just been queued, or waits as it did before.    *)
LEMMA WaitBegins ==
  ASSUME TypeOK, [Next]_vars, NEW q \in Requests, pc'[q] = "wait"
  PROVE  \/ \E a \in Accounts : Enqueue(q, a)
         \/ pc[q] = "wait" /\ cleared'[q] = cleared[q] /\ waitSticky'[q] = waitSticky[q]
<1>1. /\ pc \in [Requests -> {"idle"} \cup Selecting \cup Reserved]
      /\ cleared \in [Requests -> BOOLEAN] /\ waitSticky \in [Requests -> BOOLEAN]
  BY DEF TypeOK, RequestTypeOK, LocalTypeOK
<1>2. ASSUME NEW W, pc' = PcAfterWake(W) PROVE pc[q] = "wait"
  BY <1>2 DEF PcAfterWake
<1>3. CASE PlatformStep \/ UNCHANGED vars
  BY <1>2, <1>3, PlatformWakes
<1>4. ASSUME NEW r \in Requests, RequestStep(r), r # q
      PROVE  pc[q] = "wait" /\ cleared'[q] = cleared[q] /\ waitSticky'[q] = waitSticky[q]
  <2>1. CASE Release(r)
    BY <1>1, <1>4, <2>1 DEF Release, PcAfterWake, local, queue
  <2>2. CASE ~Release(r)
    <3>1. pc[q] = "wait"
      BY <1>1, <1>4, <2>2, OwnSteps
    <3>2. /\ cleared' = cleared \/ \E x : cleared' = [cleared EXCEPT ![r] = x]
          /\ waitSticky' = waitSticky \/ \E x : waitSticky' = [waitSticky EXCEPT ![r] = x]
      <4>1. CASE \/ Start(r) \/ Resume(r) \/ GiveUp(r) \/ WaitTimeout(r) \/ Abort(r)
                 \/ \E a \in Accounts : Scan(r, a) \/ Reserve(r, a) \/ Enqueue(r, a)
        BY <4>1 DEF Start, Resume, GiveUp, WaitTimeout, Abort, Scan, Reserve, Enqueue,
                    End, Forget, local, queue
      <4>2. CASE Expire(r) \/ BindAll(r) \/ MarkSuccess(r) \/ MarkCooldown(r)
        BY <4>2 DEF Expire, BindAll, MarkSuccess, MarkCooldown, local, queue
      <4> QED  BY <1>4, <2>2, <4>1, <4>2 DEF RequestStep
    <3> QED  BY <1>1, <1>4, <3>1, <3>2
  <2> QED  BY <2>1, <2>2
<1>5. ASSUME RequestStep(q), \A a \in Accounts : ~Enqueue(q, a)
      PROVE  pc[q] = "wait" /\ cleared'[q] = cleared[q] /\ waitSticky'[q] = waitSticky[q]
  <2>1. ASSUME \/ Start(q) \/ Resume(q) \/ GiveUp(q) \/ BindAll(q) \/ Release(q)
               \/ \E a \in Accounts : Scan(q, a) \/ Reserve(q, a)
        PROVE  FALSE
    <3>1. CASE Start(q) \/ Resume(q)
      BY <1>1, <3>1 DEF Start, Resume, BeginScan, End
    <3>2. CASE GiveUp(q) \/ BindAll(q)
      BY <1>1, <3>2 DEF GiveUp, BindAll, End
    <3>3. CASE Release(q)
      BY <1>1, <3>3 DEF Release, PcAfterWake
    <3>4. CASE \E a \in Accounts : Scan(q, a)
      BY <1>1, <3>4 DEF Scan, End
    <3>5. CASE \E a \in Accounts : Reserve(q, a)
      BY <1>1, <3>5 DEF Reserve
    <3> QED  BY <2>1, <3>1, <3>2, <3>3, <3>4, <3>5
  <2>2. CASE WaitTimeout(q)
    BY <1>1, <2>2 DEF WaitTimeout, End
  <2>3. CASE Abort(q)
    BY <1>1, <2>3 DEF Abort, End
  <2>4. CASE Expire(q) \/ MarkSuccess(q) \/ MarkCooldown(q)
    BY <2>4 DEF Expire, MarkSuccess, MarkCooldown, local, queue
  <2> QED  BY <1>5, <2>1, <2>2, <2>3, <2>4 DEF RequestStep
<1> QED  BY <1>3, <1>4, <1>5 DEF Next

(* A selection that has dropped its binding never waits under a sticky plan *)
(* (stickyCleared of selectAndReserve, resolveWaitPlan).                    *)
THEOREM RotationCorrect == Spec => []UnboundRotates
<1>1. Init => UnboundRotates
  BY DEF Init, UnboundRotates
<1>2. IInv /\ UnboundRotates /\ [Next]_vars => UnboundRotates'
  <2> SUFFICES ASSUME IInv, UnboundRotates, [Next]_vars,
                      NEW q \in Requests, pc'[q] = "wait", waitSticky'[q]
               PROVE  ~cleared'[q]
    BY DEF UnboundRotates
  <2>1. CASE pc[q] = "wait" /\ cleared'[q] = cleared[q] /\ waitSticky'[q] = waitSticky[q]
    BY <2>1 DEF UnboundRotates
  <2>2. CASE \E a \in Accounts : Enqueue(q, a)
    <3>1. /\ waitSticky' = [waitSticky EXCEPT ![q] = StickyPlan(q)]
          /\ cleared' = [cleared EXCEPT ![q] = ClearedNow(q)]
      BY <2>2 DEF Enqueue
    <3>2. waitSticky'[q] = StickyPlan(q) /\ cleared'[q] = ClearedNow(q)
      BY <3>1 DEF IInv, TypeOK, LocalTypeOK
    <3>3. StickyPlan(q) => ~ClearedNow(q)
      BY Zenon DEF StickyPlan
    <3> QED  BY <3>2, <3>3, Zenon
  <2> QED  BY <2>1, <2>2, WaitBegins DEF IInv
<1> QED  BY <1>1, <1>2, Invariance, PTL DEF Spec

(* release wakes every request queued on the account, and every other one   *)
(* that waits without a sticky plan (notifyCapacity).                       *)
THEOREM NotifyCorrect == Spec => ReleaseNotifies
<1>1. ASSUME IInv, [Next]_vars, NEW r \in Requests, NEW q \in Requests,
             pc[r] = "held", pc'[r] = "idle", pc[q] = "wait", pool[q] = pool[r],
             ~waitSticky[q] \/ q \in waiters[pool[r]][acct[r]]
      PROVE  pc'[q] = "woken"
  <2>1. Release(r)
    BY <1>1, HeldEnds DEF IInv
  <2>2. PICK a \in Accounts : q \in waiters[pool[r]][a]
    BY <1>1 DEF IInv, QueuesExact, WaitersQueuedOnce
  <2>3. q \in NotifiedBy(pool[r], acct[r])
    BY <1>1, <2>2 DEF NotifiedBy, AllWaiters
  <2>4. pc' = [PcAfterWake(NotifiedBy(pool[r], acct[r])) EXCEPT ![r] = "idle"] /\ q # r
    BY <1>1, <2>1 DEF Release
  <2> QED  BY <2>3, <2>4 DEF PcAfterWake
<1>2. IInv /\ [Next]_vars =>
        [\A r, q \in Requests :
           (pc[r] = "held" /\ pc'[r] = "idle" /\ pc[q] = "wait" /\ pool[q] = pool[r]
              /\ (~waitSticky[q] \/ q \in waiters[pool[r]][acct[r]])) =>
             pc'[q] = "woken"]_vars
  BY <1>1
<1> QED  BY <1>2, Invariance, PTL DEF Spec, ReleaseNotifies

-----------------------------------------------------------------------------
(* The refinement of AccountPool.                                           *)

PhaseOf(x) == IF x \in Selecting THEN "asking" ELSE IF x \in Reserved THEN "holding" ELSE "out"

LEMMA PhaseIsPhaseOf == Phase = [q \in Requests |-> PhaseOf(pc[q])]
BY DEF Phase, PhaseOf

LEMMA PhaseUpdate ==
  ASSUME TypeOK, NEW r \in Requests, NEW x, pc' = [pc EXCEPT ![r] = x]
  PROVE  Phase' = [Phase EXCEPT ![r] = PhaseOf(x)]
BY DEF Phase, PhaseOf, TypeOK, RequestTypeOK

LEMMA PhaseAfterWake ==
  ASSUME TypeOK, QueuesExact, NEW p \in Pools, NEW W \in SUBSET AllWaiters(p), NEW q \in Requests
  PROVE  PhaseOf(PcAfterWake(W)[q]) = PhaseOf(pc[q])
<1>1. q \in W => pc[q] = "wait"
  BY DEF AllWaiters, QueuesExact, QueuedWait
<1> QED  BY <1>1 DEF PcAfterWake, PhaseOf, Selecting

LEMMA EndRefuses ==
  ASSUME TypeOK, NEW r \in Requests, pc[r] \in Selecting, End(r)
  PROVE  Abstract!Refuse(r)
<1>1. Phase' = [Phase EXCEPT ![r] = "out"]
  BY PhaseUpdate DEF End, PhaseOf, Selecting, Reserved
<1>2. Phase[r] = "asking"
  BY DEF Phase
<1>3. UNCHANGED <<acct, cap>>
  BY DEF End, env
<1> QED  BY <1>1, <1>2, <1>3 DEF Abstract!Refuse

(* A step that leaves every request in its phase is invisible.              *)
LEMMA SamePhaseStutters ==
  ASSUME TypeOK, UNCHANGED <<acct, cap>>, \A q \in Requests : PhaseOf(pc'[q]) = PhaseOf(pc[q])
  PROVE  UNCHANGED Abstract!vars
BY DEF Phase, PhaseOf, Abstract!vars

LEMMA RefinementStep ==
  TypeOK /\ QueuesExact /\ CountersExact /\ [Next]_vars => [Abstract!Next]_(Abstract!vars)
<1> SUFFICES ASSUME TypeOK, QueuesExact, CountersExact, [Next]_vars
             PROVE  Abstract!Next \/ UNCHANGED Abstract!vars
  OBVIOUS
<1>0. pc \in [Requests -> {"idle"} \cup Selecting \cup Reserved]
  BY DEF TypeOK, RequestTypeOK
<1>1. ASSUME NEW r \in Requests, pc[r] \in Selecting, End(r)
      PROVE  Abstract!Next
  BY <1>1, EndRefuses DEF Abstract!Next
<1>2. ASSUME NEW r \in Requests, NEW x, pc' = [pc EXCEPT ![r] = x], PhaseOf(x) = PhaseOf(pc[r]),
             UNCHANGED <<acct, cap>>
      PROVE  UNCHANGED Abstract!vars
  BY <1>0, <1>2, SamePhaseStutters
<1>3. ASSUME NEW r \in Requests, Start(r) PROVE Abstract!Next
  <2>1. PICK x \in {"decide", "scan"} : pc' = [pc EXCEPT ![r] = x]
    BY <1>3 DEF Start, BeginScan
  <2>2. Phase' = [Phase EXCEPT ![r] = "asking"]
    BY <2>1, PhaseUpdate DEF PhaseOf, Selecting
  <2>3. Phase[r] = "out" /\ UNCHANGED <<acct, cap>>
    BY <1>3 DEF Start, Phase, Selecting, Reserved, env
  <2> QED  BY <2>2, <2>3 DEF Abstract!Next, Abstract!Ask
<1>4. ASSUME NEW r \in Requests, Resume(r) PROVE Abstract!Next \/ UNCHANGED Abstract!vars
  <2>1. pc[r] = "woken" /\ pc[r] \in Selecting
    BY <1>4 DEF Resume, Selecting
  <2>2. CASE End(r)
    BY <1>1, <2>1, <2>2
  <2>3. CASE ~End(r)
    <3>1. PICK x \in {"decide", "scan"} : pc' = [pc EXCEPT ![r] = x]
      BY <1>4, <2>3 DEF Resume, BeginScan
    <3>2. PhaseOf(x) = PhaseOf(pc[r]) /\ UNCHANGED <<acct, cap>>
      BY <1>4, <2>1, <2>3 DEF Resume, PhaseOf, Selecting, env
    <3> QED  BY <1>2, <3>1, <3>2
  <2> QED  BY <2>2, <2>3
<1>5. ASSUME NEW r \in Requests, GiveUp(r) PROVE Abstract!Next
  BY <1>1, <1>5 DEF GiveUp, Selecting
<1>6. ASSUME NEW r \in Requests, WaitTimeout(r) PROVE Abstract!Next \/ UNCHANGED Abstract!vars
  <2>1. pc[r] = "wait" /\ pc[r] \in Selecting
    BY <1>6 DEF WaitTimeout, Selecting
  <2>2. CASE End(r)
    BY <1>1, <2>1, <2>2
  <2>3. CASE ~End(r)
    <3>1. pc' = [pc EXCEPT ![r] = "woken"] /\ UNCHANGED <<acct, cap>>
      BY <1>6, <2>3 DEF WaitTimeout, env
    <3>2. PhaseOf("woken") = PhaseOf(pc[r])
      BY <2>1 DEF PhaseOf, Selecting
    <3> QED  BY <1>2, <3>1, <3>2
  <2> QED  BY <2>2, <2>3
<1>7. ASSUME NEW r \in Requests, Abort(r) PROVE Abstract!Next \/ UNCHANGED Abstract!vars
  <2>1. CASE End(r)
    BY <1>1, <1>7, <2>1 DEF Abort
  <2>2. CASE ~End(r)
    BY <1>7, <2>2, SamePhaseStutters DEF Abort, env
  <2> QED  BY <2>1, <2>2
<1>8. ASSUME NEW r \in Requests, NEW a \in Accounts, Scan(r, a)
      PROVE  Abstract!Next \/ UNCHANGED Abstract!vars
  <2>1. pc[r] = "scan" /\ pc[r] \in Selecting
    BY <1>8 DEF Scan, Selecting
  <2>2. CASE End(r)
    BY <1>1, <2>1, <2>2
  <2>3. CASE ~End(r)
    <3>1. PICK x \in {"decide", "scan"} : pc' = [pc EXCEPT ![r] = x]
      BY <1>8, <2>3 DEF Scan
    <3>2. PhaseOf(x) = PhaseOf(pc[r]) /\ UNCHANGED <<acct, cap>>
      BY <1>8, <2>1, <2>3 DEF Scan, PhaseOf, Selecting
    <3> QED  BY <1>2, <3>1, <3>2
  <2> QED  BY <2>2, <2>3
<1>9. ASSUME NEW r \in Requests, NEW a \in Accounts, Reserve(r, a) PROVE Abstract!Next
  <2>1. Phase' = [Phase EXCEPT ![r] = "holding"]
    BY <1>9, PhaseUpdate DEF Reserve, PhaseOf, Selecting, Reserved
  <2>2. Phase[r] = "asking"
    BY <1>9 DEF Reserve, Phase, Selecting
  <2>3. acct' = [acct EXCEPT ![r] = a] /\ UNCHANGED cap
    BY <1>9 DEF Reserve, env
  <2>4. Cardinality(Abstract!Holders(a)) < cap[a]
    BY <1>9, ReserveUnderCap DEF AllHolders, Abstract!Holders
  <2>5. Abstract!Cardinality(Abstract!Holders(a)) = Cardinality(Abstract!Holders(a))
    BY Zenon DEF Abstract!Cardinality, Cardinality, Abstract!IsFiniteSet, IsFiniteSet
  <2>6. Abstract!Grant(r, a)
    BY <2>1, <2>2, <2>3, <2>4, <2>5 DEF Abstract!Grant
  <2> QED  BY <2>6 DEF Abstract!Next
<1>10. ASSUME NEW r \in Requests, NEW a \in Accounts, Enqueue(r, a) PROVE UNCHANGED Abstract!vars
  <2>1. pc' = [pc EXCEPT ![r] = "wait"] /\ UNCHANGED <<acct, cap>> /\ pc[r] = "decide"
    BY <1>10 DEF Enqueue, env
  <2>2. PhaseOf("wait") = PhaseOf(pc[r])
    BY <2>1 DEF PhaseOf, Selecting
  <2> QED  BY <1>2, <2>1, <2>2
<1>11. ASSUME NEW r \in Requests, BindAll(r) PROVE UNCHANGED Abstract!vars
  <2>1. pc' = [pc EXCEPT ![r] = "held"] /\ UNCHANGED <<acct, cap>> /\ pc[r] = "reserved"
    BY <1>11 DEF BindAll, env
  <2>2. PhaseOf("held") = PhaseOf(pc[r])
    BY <2>1 DEF PhaseOf, Selecting, Reserved
  <2> QED  BY <1>2, <2>1, <2>2
<1>12. ASSUME NEW r \in Requests, Release(r) PROVE Abstract!Next
  <2>1. pool[r] \in Pools /\ acct[r] \in Accounts /\ pc[r] = "held"
    BY <1>12 DEF Release, TypeOK, RequestTypeOK, Reserved
  <2> DEFINE W == NotifiedBy(pool[r], acct[r])
  <2>2. W \in SUBSET AllWaiters(pool[r])
    BY <2>1, NotifiedAreWaiters
  <2>3. pc' = [PcAfterWake(W) EXCEPT ![r] = "idle"]
    BY <1>12 DEF Release
  <2> HIDE DEF W
  <2>4. \A q \in Requests \ {r} : PhaseOf(pc'[q]) = PhaseOf(pc[q])
    <3> TAKE q \in Requests \ {r}
    <3>1. pc'[q] = PcAfterWake(W)[q]
      BY <2>3 DEF PcAfterWake
    <3> QED  BY <2>1, <2>2, <3>1, PhaseAfterWake
  <2>5. PhaseOf(pc'[r]) = "out"
    BY <2>3 DEF PcAfterWake, PhaseOf, Selecting, Reserved
  <2>6. Phase' = [Phase EXCEPT ![r] = "out"]
    BY <2>4, <2>5 DEF Phase, PhaseOf
  <2>7. Phase[r] = "holding"
    BY <2>1 DEF Phase, Selecting, Reserved
  <2>8. acct' = [acct EXCEPT ![r] = NoAccount] /\ UNCHANGED cap
    BY <1>12 DEF Release, env
  <2> QED  BY <2>6, <2>7, <2>8 DEF Abstract!Next, Abstract!Return
<1>13. ASSUME NEW a \in Accounts, SetConcurrency(a) PROVE Abstract!Next
  <2>1. UNCHANGED <<pc, acct>> /\ \E n \in Caps : cap' = [cap EXCEPT ![a] = n]
    BY <1>13 DEF SetConcurrency
  <2>2. UNCHANGED Phase
    BY <2>1 DEF Phase
  <2>3. Abstract!SetLimit(a)
    BY <2>1, <2>2 DEF Abstract!SetLimit
  <2> QED  BY <2>3 DEF Abstract!Next
<1>14. ASSUME NEW p \in Pools, NEW a \in Accounts, CooldownWake(p, a) \/ CooldownCleared(p, a)
       PROVE  UNCHANGED Abstract!vars
  <2>1. pc' = PcAfterWake(AllWaiters(p)) /\ UNCHANGED <<acct, cap>>
    BY <1>14 DEF CooldownWake, CooldownCleared
  <2>2. \A q \in Requests : PhaseOf(pc'[q]) = PhaseOf(pc[q])
    BY <2>1, PhaseAfterWake
  <2> QED  BY <2>1, <2>2, SamePhaseStutters
<1>15. ASSUME \/ UNCHANGED vars \/ Reload
              \/ \E r \in Requests : Expire(r) \/ MarkSuccess(r) \/ MarkCooldown(r)
              \/ \E a \in Accounts : CooldownLapses(a) \/ GateChanges(a)
       PROVE  UNCHANGED Abstract!vars
  <2>1. UNCHANGED <<pc, acct, cap>>
    BY <1>15 DEF vars, env, Reload, Expire, MarkSuccess, MarkCooldown, CooldownLapses, GateChanges
  <2> QED  BY <2>1, SamePhaseStutters
<1> QED
  BY <1>3, <1>4, <1>5, <1>6, <1>7, <1>8, <1>9, <1>10, <1>11, <1>12, <1>13, <1>14, <1>15
     DEF Next, RequestStep, PlatformStep

(* selectAndReserve and release implement the abstract account pool.        *)
THEOREM Refinement == Spec => ImplementsAccountPool
<1>1. Init => Abstract!Init
  BY PoolAssumption DEF Init, Abstract!Init, Phase, Selecting, Reserved, PoolAssumption
<1>2. IInv /\ [Next]_vars => [Abstract!Next]_(Abstract!vars)
  BY RefinementStep DEF IInv
<1> QED  BY <1>1, <1>2, Invariance, PTL DEF Spec, ImplementsAccountPool, Abstract!Spec
=============================================================================
