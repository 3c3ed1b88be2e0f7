---------------------------- MODULE KernelProofs ----------------------------
(* Machine-checked theorems about the two ways a request reaches a kernel     *)
(* process: KernelHop (Claude) and CodexPath (GPT).  The specifications share *)
(* no variable.  The theorems hold for every finite set of hops, any number   *)
(* of overlapping restarts and of kernel slots, and for any requests and      *)
(* slots of the Codex path.                                                   *)
EXTENDS KernelHop, CodexPath, FiniteSetTheorems, WellFoundedInduction, TLAPS

-----------------------------------------------------------------------------
(* The inductive invariant.                                                   *)

(* A hop with a call in startRustKernel is waiting for it and nowhere else, a *)
(* restart with one has been begun, and only a caller that joined a start     *)
(* points at another caller.                                                  *)
StartsPlaced ==
  /\ \A h \in Hops : start[h] # "no" => pc[h] = "start"
  /\ \A j \in Jobs : start[j] # "no" => job[j] = "starting"
  /\ \A c \in Callers : joined[c] # NoCaller => start[c] = "joined"

(* The restart that new hops wait for is under way.                           *)
PendingUnderWay == pending # NoJob => job[pending] # "idle"

(* A restart that is still to kill the processes that hold leaked slots: it   *)
(* has yet to begin, or to launch the kernel anew.                            *)
Unlaunched(j) == job[j] \in {"scheduled", "killed"} \/ start[j] \in {"probe", "launch"}

(* Leaked slots have somebody who will ask for a recycle, or such a restart.  *)
LeakHasOwner ==
  leaked > 0 /\ ~missed => deferred \/ (pending # NoJob /\ Unlaunched(pending))

IInv ==
  /\ TypeOK /\ StartsPlaced /\ PendingUnderWay
  /\ InflightExact /\ DeferredHasOwner /\ LeakHasOwner

HopsInWrap == {h \in Hops : pc[h] \in InWrap}

-----------------------------------------------------------------------------
(* Counting hops.                                                             *)

LEMMA HopsInWrapFinite == IsFiniteSet(HopsInWrap) /\ Cardinality(HopsInWrap) \in Nat
BY HopAssumption, FS_Subset, FS_CardinalityType DEF HopAssumption, HopsInWrap

(* Hops that join the wrap are counted.                                       *)
LEMMA JoinCounted ==
  ASSUME InflightExact, NEW S \in SUBSET Hops, S \cap HopsInWrap = {},
         HopsInWrap' = HopsInWrap \cup S, inflight' = inflight + Cardinality(S)
  PROVE  InflightExact'
<1>1. IsFiniteSet(S) /\ IsFiniteSet(HopsInWrap)
  BY HopsInWrapFinite, HopAssumption, FS_Subset DEF HopAssumption
<1>2. Cardinality(HopsInWrap \cup S) = Cardinality(HopsInWrap) + Cardinality(S) - Cardinality(HopsInWrap \cap S)
  BY <1>1, FS_Union
<1>3. Cardinality(HopsInWrap \cap S) = 0
  <2>1. HopsInWrap \cap S = {}
    OBVIOUS
  <2> QED  BY <2>1, FS_EmptySet
<1>4. Cardinality(S) \in Nat /\ Cardinality(HopsInWrap) \in Nat
  BY <1>1, FS_CardinalityType
<1>5. inflight = Cardinality(HopsInWrap) /\ (InflightExact' <=> inflight' = Cardinality(HopsInWrap'))
  BY Zenon DEF InflightExact, HopsInWrap
<1> QED  BY <1>2, <1>3, <1>4, <1>5

(* A hop that leaves it is taken off.                                         *)
LEMMA LeaveCounted ==
  ASSUME InflightExact, NEW h \in HopsInWrap, HopsInWrap' = HopsInWrap \ {h},
         inflight' = inflight - 1
  PROVE  InflightExact'
<1>1. Cardinality(HopsInWrap \ {h}) = Cardinality(HopsInWrap) - 1
  BY HopsInWrapFinite, FS_RemoveElement
<1> QED  BY <1>1 DEF InflightExact, HopsInWrap

LEMMA SameCounted ==
  ASSUME InflightExact, HopsInWrap' = HopsInWrap, inflight' = inflight
  PROVE  InflightExact'
BY DEF InflightExact, HopsInWrap

LEMMA InWrapPositive ==
  ASSUME InflightExact, NEW h \in HopsInWrap
  PROVE  inflight \in Nat /\ inflight > 0
<1>1. Cardinality(HopsInWrap) # 0
  BY HopsInWrapFinite, FS_EmptySet
<1> QED  BY <1>1, HopsInWrapFinite DEF InflightExact, HopsInWrap

-----------------------------------------------------------------------------
(* The building blocks of the actions.                                        *)

(* The types of the flags of a hop.                                           *)
LEMMA SendFromType ==
  ASSUME TypeOK, NEW S, SendFrom(S)
  PROVE  live' \in [Hops -> BOOLEAN] /\ committed' \in [Hops -> BOOLEAN]
<1>1. (kernel = "up") \in BOOLEAN
  OBVIOUS
<1>2. \A h \in Hops : (h \notin S /\ committed[h]) \in BOOLEAN
  BY Zenon
<1> QED  BY <1>1, <1>2 DEF TypeOK, SendFrom

(* scheduleWrapRecycle leaves the restart that hops wait for under way.       *)
LEMMA ScheduleFacts ==
  ASSUME TypeOK, PendingUnderWay, NEW now \in BOOLEAN, Schedule(now)
  PROVE  /\ job' \in [Jobs -> {"idle", "scheduled", "killed", "starting"}]
         /\ pending' \in Jobs \cup {NoJob} /\ cooling' \in BOOLEAN
         /\ PendingUnderWay'
         /\ \A j \in Jobs : job[j] # "idle" => job'[j] = job[j]
         /\ now /\ ~cooling => pending' # NoJob /\ job'[pending'] = "scheduled"
         /\ ~now \/ cooling => UNCHANGED <<job, pending>>
<1>1. CASE now /\ ~cooling
  <2>1. PICK j \in Jobs : /\ job[j] = "idle" /\ job' = [job EXCEPT ![j] = "scheduled"]
                          /\ pending' = j /\ cooling' = TRUE
    BY <1>1 DEF Schedule
  <2>2. j # NoJob
    BY HopAssumption DEF HopAssumption
  <2> QED  BY <1>1, <2>1, <2>2 DEF TypeOK, PendingUnderWay
<1>2. CASE ~(now /\ ~cooling)
  BY <1>2 DEF Schedule, TypeOK, PendingUnderWay
<1> QED  BY <1>1, <1>2

(* The end of a hop: endWrapHop, and the recycle it may schedule.             *)
LEMMA EndWrapHopStep ==
  ASSUME IInv, NEW h \in HopsInWrap, NEW dead \in BOOLEAN, EndWrapHop(h, dead),
         leaked' \in 0..SlotMax, leaked' > leaked => dead,
         UNCHANGED <<waits, committed, retried, renewed, startVars, kernel, stale>>
  PROVE  IInv'
<1> USE DEF IInv
<1>1. h \in Hops /\ pc[h] \in InWrap
  BY DEF HopsInWrap
<1>2. inflight \in Nat /\ inflight > 0
  BY InWrapPositive
<1>3. Due(dead) \in BOOLEAN /\ DeferredAfter(dead) \in BOOLEAN
  BY Zenon DEF Due, DeferredAfter
<1>4. /\ job' \in [Jobs -> {"idle", "scheduled", "killed", "starting"}]
      /\ pending' \in Jobs \cup {NoJob} /\ cooling' \in BOOLEAN
      /\ PendingUnderWay'
      /\ \A j \in Jobs : job[j] # "idle" => job'[j] = job[j]
      /\ Due(dead) /\ ~cooling => pending' # NoJob /\ job'[pending'] = "scheduled"
      /\ ~Due(dead) \/ cooling => UNCHANGED <<job, pending>>
  BY <1>3, ScheduleFacts DEF EndWrapHop
<1>5. pc' = [pc EXCEPT ![h] = "done"] /\ live' = [live EXCEPT ![h] = FALSE]
      /\ inflight' = inflight - 1 /\ deferred' = DeferredAfter(dead)
  BY DEF EndWrapHop, Goto, Left
<1>6. TypeOK'
  <2>1. missed' \in BOOLEAN /\ cached' \in BOOLEAN
    <3>1. (missed \/ (Due(dead) /\ cooling)) \in BOOLEAN /\ (cached /\ ~dead) \in BOOLEAN
      BY Zenon
    <3> QED  BY <3>1 DEF EndWrapHop
  <2>2. inflight' \in Nat /\ deferred' \in BOOLEAN
    BY <1>2, <1>3, <1>5
  <2>3. \A x \in Hops : waits'[x] # NoJob => job'[waits'[x]] # "idle"
    BY <1>4 DEF TypeOK
  <2>4. /\ pc' \in [Hops -> {"idle", "await", "renew", "bounced", "health", "poll", "start", "done"} \cup InWrap]
        /\ live' \in [Hops -> BOOLEAN]
    BY <1>5 DEF TypeOK
  <2> QED  BY <1>4, <2>1, <2>2, <2>3, <2>4 DEF TypeOK, startVars
<1>7. StartsPlaced'
  <2>1. start[h] = "no"
    BY <1>1 DEF StartsPlaced, InWrap
  <2>2. \A x \in Hops : start'[x] # "no" => pc'[x] = "start"
    BY <1>5, <2>1 DEF StartsPlaced, startVars, TypeOK
  <2>3. \A j \in Jobs : start'[j] # "no" => job'[j] = "starting"
    BY <1>4 DEF StartsPlaced, startVars
  <2> QED  BY <2>2, <2>3 DEF StartsPlaced, startVars
<1>8. InflightExact'
  <2>1. HopsInWrap' = HopsInWrap \ {h}
    BY <1>1, <1>5 DEF HopsInWrap, InWrap, TypeOK
  <2> QED  BY <1>5, <2>1, LeaveCounted
<1>9. DeferredHasOwner'
  <2>1. deferred' => inflight > 1
    BY <1>5, Zenon DEF DeferredAfter
  <2> QED  BY <1>2, <1>5, <2>1 DEF DeferredHasOwner
<1>10. LeakHasOwner'
  <2> SUFFICES ASSUME leaked' > 0, ~missed', ~deferred'
               PROVE  pending' # NoJob /\ Unlaunched(pending)'
    BY DEF LeakHasOwner
  <2>1. ~missed /\ ~(Due(dead) /\ cooling)
    BY Zenon DEF EndWrapHop
  <2>2. CASE Due(dead)
    BY <1>4, <2>1, <2>2 DEF Unlaunched
  <2>3. CASE ~Due(dead)
    <3>1. ~deferred /\ ~dead
      <4>1. ~(inflight > 1 /\ (deferred \/ dead)) /\ ~(inflight = 1 /\ (deferred \/ dead))
        BY <1>5, <2>3, Zenon DEF Due, DeferredAfter
      <4>2. inflight > 1 \/ inflight = 1
        BY <1>2
      <4> QED  BY <4>1, <4>2, Zenon
    <3>2. leaked > 0
      BY <3>1 DEF TypeOK
    <3>3. pending # NoJob /\ Unlaunched(pending)
      BY <2>1, <3>1, <3>2 DEF LeakHasOwner
    <3> QED  BY <1>4, <2>3, <3>3 DEF Unlaunched, startVars
  <2> QED  BY <2>2, <2>3
<1> QED  BY <1>4, <1>6, <1>7, <1>8, <1>9, <1>10

(* The end of a start, good or bad, and of the restart it belongs to.         *)
LEMMA EndStartStep ==
  ASSUME IInv, NEW c \in Callers, start[c] \notin {"no", "joined"}, NEW good \in BOOLEAN,
         EndStart(c, good),
         good => BeginWrapHop(Returning(c) \cap Hops),
         ~good => UNCHANGED <<inflight, committed>> /\ live' \in [Hops -> BOOLEAN],
         kernel' \in {"up", "booting", "down", "dead"}, stale' \in BOOLEAN,
         leaked' \in {0, leaked}, leaked' = 0 \/ c \notin Jobs \/ start[c] \notin {"probe", "launch"}
  PROVE  IInv'
<1> DEFINE S == Returning(c) \cap Hops
<1> USE DEF IInv
<1>2. joined[c] = NoCaller /\ NoCaller \notin Callers /\ NoJob \notin Jobs /\ Hops \cap Jobs = {}
  BY HopAssumption DEF StartsPlaced, HopAssumption
<1>1. \A h \in S : pc[h] = "start"
  BY <1>2 DEF Returning, StartsPlaced, TypeOK, Callers
<1>3. c \in Jobs => job[c] = "starting"
  BY DEF StartsPlaced
<1>4. TypeOK'
  <2>1. /\ pc' \in [Hops -> {"idle", "await", "renew", "bounced", "health", "poll", "start", "done"} \cup InWrap]
        /\ start' \in [Callers -> {"no", "probe", "wait", "launch", "boot", "joined"}]
        /\ joined' \in [Callers -> Callers \cup {NoCaller}]
        /\ starting' \in Callers \cup {NoCaller}
    BY DEF EndStart, TypeOK, InWrap
  <2>2. /\ job' \in [Jobs -> {"idle", "scheduled", "killed", "starting"}]
        /\ pending' \in Jobs \cup {NoJob} /\ waits' \in [Hops -> Jobs \cup {NoJob}]
    BY DEF EndStart, TypeOK
  <2>3. \A x \in Hops : waits'[x] # NoJob => job'[waits'[x]] # "idle"
    BY <1>2 DEF EndStart, TypeOK
  <2>4. cached' \in BOOLEAN
    <3>1. (good /\ Reachable) \in BOOLEAN
      BY Zenon
    <3> QED  BY <3>1 DEF EndStart, TypeOK
  <2>5. inflight' \in Nat /\ live' \in [Hops -> BOOLEAN] /\ committed' \in [Hops -> BOOLEAN]
    <3>1. CASE good
      <4>1. Cardinality(S) \in Nat
        BY HopAssumption, FS_Subset, FS_CardinalityType DEF HopAssumption
      <4>2. inflight' = inflight + Cardinality(S) /\ SendFrom(S)
        BY <3>1 DEF BeginWrapHop
      <4> QED  BY <4>1, <4>2, SendFromType DEF TypeOK
    <3>2. CASE ~good
      BY <3>2 DEF TypeOK
    <3> QED  BY <3>1, <3>2
  <2> QED  BY <2>1, <2>2, <2>3, <2>4, <2>5, HopAssumption DEF EndStart, TypeOK, HopAssumption
<1>5. StartsPlaced'
  BY <1>1, <1>2, <1>3 DEF EndStart, StartsPlaced, Returning, TypeOK, Callers
<1>6. PendingUnderWay'
  BY <1>2 DEF EndStart, PendingUnderWay, TypeOK
<1>7. InflightExact'
  <2>1. CASE good
    <3>1. HopsInWrap' = HopsInWrap \cup S /\ S \cap HopsInWrap = {}
      BY <1>1, <2>1 DEF EndStart, HopsInWrap, InWrap, TypeOK
    <3>2. S \in SUBSET Hops /\ inflight' = inflight + Cardinality(S)
      BY <2>1 DEF BeginWrapHop
    <3> QED  BY <3>1, <3>2, JoinCounted
  <2>2. CASE ~good
    <3>1. HopsInWrap' = HopsInWrap
      BY <1>1, <2>2 DEF EndStart, HopsInWrap, InWrap, TypeOK
    <3> QED  BY <2>2, <3>1, SameCounted
  <2> QED  BY <2>1, <2>2
<1>8. DeferredHasOwner'
  <2>1. Cardinality(S) \in Nat
    BY HopAssumption, FS_Subset, FS_CardinalityType DEF HopAssumption
  <2>2. inflight' = inflight + Cardinality(S) \/ inflight' = inflight
    BY DEF BeginWrapHop
  <2> QED  BY <2>1, <2>2 DEF DeferredHasOwner, EndStart, TypeOK
<1>9. LeakHasOwner'
  <2> SUFFICES ASSUME leaked' > 0, ~missed', ~deferred'
               PROVE  pending' # NoJob /\ Unlaunched(pending)'
    BY DEF LeakHasOwner
  <2>1. leaked > 0 /\ leaked' # 0 /\ ~missed /\ ~deferred
    BY HopAssumption DEF EndStart, TypeOK, HopAssumption
  <2>2. pending \in Jobs /\ Unlaunched(pending)
    BY <2>1 DEF LeakHasOwner, TypeOK
  <2>3. pending # c
    BY <1>3, <2>1, <2>2 DEF Unlaunched
  <2>4. pending \in Callers /\ pending' = pending /\ job'[pending] = job[pending]
    BY <2>2, <2>3 DEF EndStart, Callers
  <2>5. CASE job[pending] \in {"scheduled", "killed"}
    BY <1>2, <2>2, <2>4, <2>5 DEF Unlaunched
  <2>6. CASE start[pending] \in {"probe", "launch"}
    <3>1. joined[pending] # c
      BY <1>2, <2>4, <2>6 DEF StartsPlaced
    <3>2. start'[pending] = start[pending]
      BY <2>3, <2>4, <3>1 DEF EndStart, Returning
    <3> QED  BY <1>2, <2>2, <2>4, <2>6, <3>2 DEF Unlaunched
  <2> QED  BY <2>2, <2>5, <2>6 DEF Unlaunched
<1> QED  BY <1>4, <1>5, <1>6, <1>7, <1>8, <1>9

(* A hop moves on without touching the recycling or the start of the kernel.  *)
LEMMA HopMoves ==
  ASSUME IInv, NEW h \in Hops, pc[h] # "start",
         NEW where \in {"await", "renew", "health", "poll", "done"} \cup InWrap, Goto(h, where),
         \/ (pc[h] \in InWrap <=> where \in InWrap) /\ inflight' = inflight
         \/ pc[h] \notin InWrap /\ where = "send" /\ inflight' = inflight + Cardinality({h}),
         waits' = waits \/ waits' = [waits EXCEPT ![h] = pending],
         live' \in [Hops -> BOOLEAN], committed' \in [Hops -> BOOLEAN], cached' \in BOOLEAN,
         UNCHANGED <<retried, renewed, recycleVars, startVars, kernel, leaked, stale>>
  PROVE  IInv'
<1> USE DEF IInv
<1>1. pc' = [pc EXCEPT ![h] = where]
  BY DEF Goto
<1>2. Cardinality({h}) = 1
  BY FS_Singleton
<1>3. TypeOK'
  <2>1. inflight' \in Nat
    BY <1>2 DEF TypeOK
  <2>2. waits' \in [Hops -> Jobs \cup {NoJob}] /\ \A x \in Hops : waits'[x] # NoJob => job[waits'[x]] # "idle"
    BY DEF TypeOK, PendingUnderWay
  <2>3. pc' \in [Hops -> {"idle", "await", "renew", "bounced", "health", "poll", "start", "done"} \cup InWrap]
    BY <1>1 DEF TypeOK
  <2> QED  BY <2>1, <2>2, <2>3 DEF TypeOK, recycleVars, startVars
<1>4. StartsPlaced'
  <2>1. start[h] = "no"
    BY DEF StartsPlaced
  <2> QED  BY <1>1, <2>1 DEF StartsPlaced, TypeOK, recycleVars, startVars
<1>5. PendingUnderWay'
  BY DEF PendingUnderWay, recycleVars
<1>6. InflightExact'
  <2>1. CASE (pc[h] \in InWrap <=> where \in InWrap) /\ inflight' = inflight
    <3>1. HopsInWrap' = HopsInWrap
      BY <1>1, <2>1 DEF HopsInWrap, InWrap, TypeOK
    <3> QED  BY <2>1, <3>1, SameCounted
  <2>2. CASE pc[h] \notin InWrap /\ where = "send" /\ inflight' = inflight + Cardinality({h})
    <3>1. HopsInWrap' = HopsInWrap \cup {h} /\ {h} \cap HopsInWrap = {}
      BY <1>1, <2>2 DEF HopsInWrap, InWrap, TypeOK
    <3>2. {h} \in SUBSET Hops
      OBVIOUS
    <3> QED  BY <2>2, <3>1, <3>2, JoinCounted
  <2> QED  BY <2>1, <2>2
<1>7. DeferredHasOwner'
  BY <1>2 DEF DeferredHasOwner, recycleVars, TypeOK
<1>8. LeakHasOwner'
  BY DEF LeakHasOwner, Unlaunched, recycleVars, startVars
<1> QED  BY <1>3, <1>4, <1>5, <1>6, <1>7, <1>8

(* ensureRustKernel, called by a hop that begins to wait or by the watchdog.  *)
LEMMA EnsureStep ==
  ASSUME IInv, NEW c \in Callers \ Jobs, start[c] = "no", EnsureRustKernel(c),
         \/ c \in Hops /\ pc[c] \notin InWrap /\ Goto(c, "start")
         \/ c \notin Hops /\ pc' = pc,
         cached' \in BOOLEAN,
         UNCHANGED <<waits, committed, retried, renewed, inflight, recycleVars, kernelVars>>
  PROVE  IInv'
<1> USE DEF IInv
<1>1. joined[c] = NoCaller
  BY DEF StartsPlaced
<1>2. /\ pc' \in [Hops -> {"idle", "await", "renew", "bounced", "health", "poll", "start", "done"} \cup InWrap]
      /\ \A x \in Hops : pc[x] = "start" \/ x = c => pc'[x] = "start"
      /\ HopsInWrap' = HopsInWrap
  BY DEF Goto, TypeOK, HopsInWrap, InWrap
<1>3. /\ start' \in [Callers -> {"no", "probe", "wait", "launch", "boot", "joined"}]
      /\ joined' \in [Callers -> Callers \cup {NoCaller}]
      /\ starting' \in Callers \cup {NoCaller}
      /\ \A x \in Callers : x # c => start'[x] = start[x] /\ joined'[x] = joined[x]
      /\ joined'[c] # NoCaller => start'[c] = "joined"
  BY <1>1 DEF EnsureRustKernel, TypeOK
<1>4. TypeOK'
  BY <1>2, <1>3 DEF TypeOK, recycleVars, kernelVars
<1>5. StartsPlaced'
  BY <1>2, <1>3 DEF StartsPlaced, recycleVars, Callers
<1>6. InflightExact'
  BY <1>2, SameCounted
<1>7. LeakHasOwner'
  <2>1. pending # NoJob => pending \in Callers /\ pending # c
    BY DEF TypeOK, Callers
  <2> QED  BY <1>3, <2>1 DEF LeakHasOwner, Unlaunched, recycleVars, kernelVars
<1> QED
  BY <1>4, <1>5, <1>6, <1>7 DEF PendingUnderWay, DeferredHasOwner, recycleVars

(* The kernel, its cache or its cooldown changes, or a start goes on.         *)
LEMMA KernelMoves ==
  ASSUME IInv,
         kernel' \in {"up", "booting", "down", "dead"}, stale' \in BOOLEAN,
         leaked' \in {0, leaked}, live' \in [Hops -> BOOLEAN],
         cached' \in BOOLEAN, cooling' \in BOOLEAN,
         \/ start' = start
         \/ \E c \in Callers, s \in {"wait", "launch", "boot"} :
              /\ start[c] \notin {"no", "joined"} /\ start' = [start EXCEPT ![c] = s]
              /\ leaked' = 0 \/ c \notin Jobs \/ s = "launch",
         UNCHANGED <<hopVars, inflight, deferred, pending, job, missed, starting, joined>>
  PROVE  IInv'
<1> USE DEF IInv
<1>1. SlotMax \in Nat
  BY HopAssumption DEF HopAssumption
<1>2. TypeOK'
  <2>1. leaked' \in 0..SlotMax /\ start' \in [Callers -> {"no", "probe", "wait", "launch", "boot", "joined"}]
    BY <1>1 DEF TypeOK
  <2> QED  BY <2>1 DEF TypeOK, hopVars
<1>3. StartsPlaced'
  BY DEF StartsPlaced, TypeOK, hopVars, Callers
<1>4. InflightExact'
  BY SameCounted DEF HopsInWrap, hopVars
<1>5. PendingUnderWay' /\ DeferredHasOwner'
  BY DEF PendingUnderWay, DeferredHasOwner
<1>6. LeakHasOwner'
  <2> SUFFICES ASSUME leaked' > 0, ~missed', ~deferred'
               PROVE  pending' # NoJob /\ Unlaunched(pending)'
    BY DEF LeakHasOwner
  <2>1. leaked' # 0 /\ pending \in Jobs /\ pending # NoJob /\ Unlaunched(pending)
    BY <1>1 DEF LeakHasOwner, TypeOK
  <2>2. start[pending] \in {"probe", "launch"} => start'[pending] \in {"probe", "launch"}
    BY <2>1 DEF TypeOK, Callers
  <2> QED  BY <2>1, <2>2 DEF Unlaunched
<1> QED  BY <1>2, <1>3, <1>4, <1>5, <1>6

-----------------------------------------------------------------------------
(* One lemma per group of actions.                                            *)

LEMMA InitHolds == Init => IInv
<1> SUFFICES ASSUME Init PROVE IInv
  OBVIOUS
<1>1. HopsInWrap = {}
  BY DEF Init, HopsInWrap, InWrap
<1>2. InflightExact
  <2>1. Cardinality(HopsInWrap) = 0 /\ inflight = 0
    BY <1>1, FS_EmptySet DEF Init
  <2>2. InflightExact <=> inflight = Cardinality(HopsInWrap)
    BY Zenon DEF InflightExact, HopsInWrap
  <2> QED  BY <2>1, <2>2
<1>3. TypeOK
  <2>1. deferred \in BOOLEAN /\ cooling \in BOOLEAN /\ missed \in BOOLEAN /\ cached \in BOOLEAN /\ stale \in BOOLEAN
    BY DEF Init
  <2>2. /\ live \in [Hops -> BOOLEAN] /\ committed \in [Hops -> BOOLEAN]
        /\ retried \in [Hops -> BOOLEAN] /\ renewed \in [Hops -> BOOLEAN]
    BY DEF Init
  <2> QED  BY <2>1, <2>2, HopAssumption DEF Init, TypeOK, HopAssumption
<1>4. StartsPlaced /\ PendingUnderWay /\ DeferredHasOwner /\ LeakHasOwner
  BY DEF Init, StartsPlaced, PendingUnderWay, DeferredHasOwner, LeakHasOwner, Callers
<1> QED  BY <1>2, <1>3, <1>4 DEF IInv

(* A hop before it is sent.                                                   *)
LEMMA PrepareStep ==
  ASSUME IInv, NEW h \in Hops,
         Arrive(h) \/ Prepare(h) \/ Health(h) \/ Poll(h) \/ Bounced(h)
  PROVE  IInv'
<1> USE DEF IInv
<1>1. TypeOK /\ h \in Callers \ Jobs
  BY HopAssumption DEF Callers, HopAssumption
<1>2. ASSUME NEW where \in {"send"}, pc[h] \notin InWrap, pc[h] # "start", Goto(h, where),
             BeginWrapHop({h}), cached' \in BOOLEAN,
             UNCHANGED <<waits, retried, renewed, recycleVars, startVars, kernel, leaked, stale>>
      PROVE  IInv'
  <2>1. live' \in [Hops -> BOOLEAN] /\ committed' \in [Hops -> BOOLEAN]
    BY <1>1, <1>2, SendFromType DEF BeginWrapHop
  <2>2. inflight' = inflight + Cardinality({h})
    BY <1>2 DEF BeginWrapHop
  <2> QED  BY <1>2, <2>1, <2>2, HopMoves DEF InWrap
<1>3. CASE Arrive(h)
  BY <1>1, <1>3, HopMoves DEF Arrive, InWrap, TypeOK, kernelVars
<1>4. CASE Prepare(h)
  <2>1. CASE ~stale /\ cached
    BY <1>1, <1>2, <1>4, <2>1 DEF Prepare, InWrap, TypeOK
  <2>2. CASE ~(~stale /\ cached)
    <3>1. PICK where \in {"renew", "health"} : Goto(h, where)
      BY <1>4, <2>2 DEF Prepare
    <3> QED  BY <1>1, <1>4, <2>2, <3>1, HopMoves DEF Prepare, InWrap, TypeOK
  <2> QED  BY <2>1, <2>2
<1>5. CASE Health(h)
  <2>1. CASE cached' = TRUE /\ Goto(h, "send") /\ BeginWrapHop({h}) /\ UNCHANGED startVars
    BY <1>2, <1>5, <2>1 DEF Health, InWrap
  <2>2. CASE Goto(h, "poll") /\ UNCHANGED <<cached, inflight, live, committed, startVars>>
    BY <1>1, <1>5, <2>2, HopMoves DEF Health, InWrap, TypeOK
  <2>3. CASE Goto(h, "start") /\ EnsureRustKernel(h) /\ UNCHANGED <<cached, inflight, live, committed>>
    <3>1. start[h] = "no"
      BY <1>5 DEF Health, StartsPlaced
    <3> QED  BY <1>1, <1>5, <2>3, <3>1, EnsureStep DEF Health, InWrap, TypeOK, kernelVars
  <2> QED  BY <1>5, <2>1, <2>2, <2>3 DEF Health
<1>6. CASE Poll(h)
  <2>1. CASE cached' = TRUE /\ Goto(h, "send") /\ BeginWrapHop({h})
    BY <1>2, <1>6, <2>1 DEF Poll, InWrap
  <2>2. CASE Goto(h, "done") /\ UNCHANGED <<cached, inflight, live, committed>>
    BY <1>1, <1>6, <2>2, HopMoves DEF Poll, InWrap, TypeOK
  <2> QED  BY <1>6, <2>1, <2>2 DEF Poll
<1>7. CASE Bounced(h)
  <2>1. start[h] = "no"
    BY <1>7 DEF Bounced, StartsPlaced
  <2> QED  BY <1>1, <1>7, <2>1, EnsureStep DEF Bounced, InWrap
<1> QED  BY <1>3, <1>4, <1>5, <1>6, <1>7

(* A hop asks for a restart at once, or as scheduleWrapRecycle allows.        *)
LEMMA RecycleStep ==
  ASSUME IInv, NEW h \in Hops, Bounce(h) \/ Renewed(h)
  PROVE  IInv'
<1> USE DEF IInv
<1>1. start[h] = "no" /\ NoJob \notin Jobs
  BY HopAssumption DEF Bounce, Renewed, StartsPlaced, HopAssumption
<1>2. /\ job' \in [Jobs -> {"idle", "scheduled", "killed", "starting"}]
      /\ pending' \in Jobs \cup {NoJob} /\ cooling' \in BOOLEAN
      /\ PendingUnderWay'
      /\ \A j \in Jobs : job[j] # "idle" => job'[j] = job[j]
      /\ (pending' # NoJob /\ job'[pending'] = "scheduled") \/ UNCHANGED <<job, pending>>
  <2>1. CASE Bounce(h)
    BY <1>1, <2>1 DEF Bounce, TypeOK, PendingUnderWay
  <2>2. CASE Renewed(h)
    <3>1. TRUE \in BOOLEAN /\ Schedule(TRUE)
      BY <2>2 DEF Renewed
    <3> QED  BY <3>1, ScheduleFacts
  <2> QED  BY <2>1, <2>2
<1>3. PICK where \in {"bounced", "again"} :
        /\ pc' = [pc EXCEPT ![h] = where] /\ (pc[h] \in InWrap <=> where \in InWrap)
        /\ waits' = [waits EXCEPT ![h] = pending']
  BY DEF Bounce, Renewed, Goto, InWrap
<1>4. /\ renewed' \in [Hops -> BOOLEAN] /\ stale' \in BOOLEAN
      /\ UNCHANGED <<committed, retried, inflight, deferred, missed, cached, startVars, kernel, leaked, live>>
  <2>1. HasSocket \in BOOLEAN
    BY DEF HasSocket
  <2>2. CASE Bounce(h)
    BY <2>2 DEF Bounce, TypeOK, kernelVars
  <2>3. CASE Renewed(h)
    BY <2>1, <2>3 DEF Renewed, TypeOK
  <2> QED  BY <2>2, <2>3
<1>5. TypeOK'
  <2>1. pc' \in [Hops -> {"idle", "await", "renew", "bounced", "health", "poll", "start", "done"} \cup InWrap]
    BY <1>3 DEF TypeOK, InWrap
  <2>2. /\ waits' \in [Hops -> Jobs \cup {NoJob}]
        /\ \A x \in Hops : waits'[x] # NoJob => job'[waits'[x]] # "idle"
    BY <1>2, <1>3 DEF TypeOK, PendingUnderWay
  <2> QED  BY <1>2, <1>4, <2>1, <2>2 DEF TypeOK, startVars
<1>6. StartsPlaced'
  BY <1>1, <1>2, <1>3, <1>4 DEF StartsPlaced, startVars, TypeOK
<1>7. InflightExact'
  <2>1. HopsInWrap' = HopsInWrap
    BY <1>3 DEF HopsInWrap, TypeOK, InWrap
  <2> QED  BY <1>4, <2>1, SameCounted
<1>8. DeferredHasOwner' /\ LeakHasOwner'
  BY <1>2, <1>4 DEF DeferredHasOwner, LeakHasOwner, Unlaunched, startVars
<1> QED  BY <1>2, <1>5, <1>6, <1>7, <1>8

(* A hop in the wrap.                                                         *)
LEMMA WrapStep ==
  ASSUME IInv, NEW h \in Hops, NEW k \in {"ok", "incomplete", "transport", "auth"},
         Commit(h) \/ Resend(h, k) \/ Unauthorised(h, k) \/ Answered(h, k) \/ NotRenewed(h) \/ Again(h)
  PROVE  IInv'
<1> USE DEF IInv
<1>1. TypeOK /\ SlotMax \in Nat
  BY HopAssumption DEF HopAssumption
<1>2. CASE Commit(h)
  <2>1. Goto(h, "send")
    BY <1>2 DEF Commit, Goto, TypeOK
  <2> QED  BY <1>1, <1>2, <2>1, HopMoves DEF Commit, InWrap, TypeOK, kernelVars
<1>3. CASE Resend(h, k)
  <2>1. /\ UNCHANGED <<pc, waits, renewed, inflight, deferred, cooling, pending, job, cached, startVars, kernel, stale>>
        /\ SendFrom({h}) /\ retried' \in [Hops -> BOOLEAN] /\ leaked' \in 0..SlotMax
    BY <1>1, <1>3 DEF Resend, Leaks, TypeOK
  <2>2. live' \in [Hops -> BOOLEAN] /\ committed' \in [Hops -> BOOLEAN]
    BY <1>1, <2>1, SendFromType
  <2>3. missed' \in BOOLEAN
    <3>1. (missed \/ leaked' > leaked) \in BOOLEAN
      BY Zenon
    <3> QED  BY <1>3, <3>1 DEF Resend
  <2>4. TypeOK'
    BY <2>1, <2>2, <2>3 DEF TypeOK, startVars
  <2>5. StartsPlaced' /\ PendingUnderWay' /\ DeferredHasOwner'
    BY <2>1 DEF StartsPlaced, PendingUnderWay, DeferredHasOwner, startVars
  <2>6. InflightExact'
    BY <2>1, SameCounted DEF HopsInWrap
  <2>7. LeakHasOwner'
    <3>1. ~missed' => ~missed /\ ~(leaked' > leaked)
      BY <1>3, Zenon DEF Resend
    <3> QED  BY <2>1, <3>1 DEF LeakHasOwner, Unlaunched, startVars, TypeOK
  <2> QED  BY <2>4, <2>5, <2>6, <2>7
<1>4. CASE Unauthorised(h, k)
  BY <1>1, <1>4, HopMoves DEF Unauthorised, InWrap, TypeOK
<1>5. CASE Answered(h, k)
  <2>1. h \in HopsInWrap /\ DeadWrapHop(h, k) \in BOOLEAN
    BY <1>5 DEF Answered, HopsInWrap, InWrap, DeadWrapHop
  <2>2. leaked' \in 0..SlotMax /\ (leaked' > leaked => DeadWrapHop(h, k))
    BY <1>1, <1>5 DEF Answered, Leaks, DeadWrapHop, TypeOK
  <2> QED  BY <1>5, <2>1, <2>2, EndWrapHopStep DEF Answered
<1>6. CASE NotRenewed(h)
  <2>1. PICK fatal \in BOOLEAN : EndWrapHop(h, ~fatal /\ committed[h])
    BY <1>6 DEF NotRenewed
  <2>2. h \in HopsInWrap /\ leaked' \in 0..SlotMax /\ ~(leaked' > leaked)
    BY <1>1, <1>6 DEF NotRenewed, HopsInWrap, InWrap, TypeOK
  <2>3. (~fatal /\ committed[h]) \in BOOLEAN
    BY Zenon
  <2> QED  BY <1>6, <2>1, <2>2, <2>3, EndWrapHopStep DEF NotRenewed
<1>7. CASE Again(h)
  <2>1. live' \in [Hops -> BOOLEAN] /\ committed' \in [Hops -> BOOLEAN]
    BY <1>1, <1>7, SendFromType DEF Again
  <2> QED  BY <1>1, <1>7, <2>1, HopMoves DEF Again, InWrap, TypeOK
<1> QED  BY <1>2, <1>3, <1>4, <1>5, <1>6, <1>7

(* A restart kills the processes of the slot,                                 *)
LEMMA KillStep ==
  ASSUME IInv, NEW j \in Jobs, KillWrapDataplane(j)
  PROVE  IInv'
<1> USE DEF IInv, KillWrapDataplane
<1>1. SlotMax \in Nat /\ start[j] = "no"
  BY HopAssumption DEF StartsPlaced, HopAssumption
<1>2. /\ job' \in [Jobs -> {"idle", "scheduled", "killed", "starting"}]
      /\ \A x \in Jobs : job[x] # "idle" => job'[x] # "idle"
      /\ \A x \in Jobs : job[x] = "starting" => job'[x] = "starting"
  BY DEF TypeOK
<1>3. TypeOK'
  <2>1. kernel' \in {"up", "booting", "down", "dead"} /\ leaked' \in 0..SlotMax /\ live' \in [Hops -> BOOLEAN]
    BY <1>1
  <2>2. \A h \in Hops : waits'[h] # NoJob => job'[waits'[h]] # "idle"
    BY <1>2 DEF TypeOK, hopVars
  <2> QED  BY <1>2, <2>1, <2>2 DEF TypeOK, hopVars, startVars
<1>4. StartsPlaced'
  BY <1>2 DEF StartsPlaced, hopVars, startVars
<1>5. InflightExact'
  BY SameCounted DEF HopsInWrap, hopVars
<1>6. PendingUnderWay' /\ DeferredHasOwner' /\ LeakHasOwner'
  BY <1>2 DEF PendingUnderWay, DeferredHasOwner, LeakHasOwner, TypeOK
<1> QED  BY <1>3, <1>4, <1>5, <1>6

(* removes the socket and begins its own start.                               *)
LEMMA RestartStep ==
  ASSUME IInv, NEW j \in Jobs, RestartRustKernel(j)
  PROVE  IInv'
<1> USE DEF IInv, RestartRustKernel
<1>1. j \in Callers /\ start[j] = "no" /\ joined[j] = NoCaller /\ SlotMax \in Nat
  BY HopAssumption DEF StartsPlaced, Callers, HopAssumption
<1>2. TypeOK'
  <2>1. /\ job' \in [Jobs -> {"idle", "scheduled", "killed", "starting"}]
        /\ \A x \in Jobs : job[x] # "idle" => job'[x] # "idle"
        /\ start' \in [Callers -> {"no", "probe", "wait", "launch", "boot", "joined"}]
        /\ starting' \in Callers \cup {NoCaller}
    BY <1>1 DEF TypeOK
  <2>2. kernel' \in {"up", "booting", "down", "dead"} /\ stale' = FALSE
    OBVIOUS
  <2>3. \A h \in Hops : waits'[h] # NoJob => job'[waits'[h]] # "idle"
    BY <2>1 DEF TypeOK, hopVars
  <2> QED  BY <2>1, <2>2, <2>3 DEF TypeOK, hopVars
<1>3. StartsPlaced'
  BY <1>1, HopAssumption DEF StartsPlaced, TypeOK, hopVars, Callers, HopAssumption
<1>4. InflightExact'
  BY SameCounted DEF HopsInWrap, hopVars
<1>5. PendingUnderWay' /\ DeferredHasOwner'
  BY DEF PendingUnderWay, DeferredHasOwner, TypeOK
<1>6. LeakHasOwner'
  <2>1. \A x \in Jobs : Unlaunched(x) => Unlaunched(x)'
    BY <1>1 DEF Unlaunched, TypeOK, Callers
  <2> QED  BY <2>1 DEF LeakHasOwner, TypeOK
<1> QED  BY <1>2, <1>3, <1>4, <1>5, <1>6

(* The steps of a start.                                                      *)
LEMMA StartStepHolds ==
  ASSUME IInv, NEW c \in Callers, StartStep(c)
  PROVE  IInv'
<1> USE DEF IInv
<1>1. start[c] \notin {"no", "joined"}
  BY DEF StartStep, Probe, BootWait, Launch, Boot
<1>2. TypeOK
  OBVIOUS
<1>3. ASSUME StartOver(c), c \notin Jobs \/ start[c] \notin {"probe", "launch"}
      PROVE  IInv'
  <2>1. /\ kernel' \in {"up", "booting", "down", "dead"} /\ stale' \in BOOLEAN /\ leaked' \in {0, leaked}
        /\ TRUE \in BOOLEAN /\ EndStart(c, TRUE) /\ BeginWrapHop(Returning(c) \cap Hops)
    BY <1>2, <1>3 DEF StartOver, TypeOK
  <2> QED  BY <1>1, <1>3, <2>1, EndStartStep
<1>4. ASSUME StartFails(c), kernel' \in {"up", "booting", "down", "dead"}, stale' \in BOOLEAN,
             leaked' \in {0, leaked}, live' \in [Hops -> BOOLEAN],
             leaked' = 0 \/ start[c] \notin {"probe", "launch"}
      PROVE  IInv'
  BY <1>1, <1>4, EndStartStep DEF StartFails
<1>5. ASSUME NEW s \in {"wait", "launch"}, start' = [start EXCEPT ![c] = s], c \notin Jobs \/ s = "launch",
             UNCHANGED <<hopVars, inflight, recycleVars, cached, starting, joined, kernelVars>>
      PROVE  IInv'
  BY <1>1, <1>2, <1>5, KernelMoves DEF recycleVars, kernelVars, TypeOK
<1>6. CASE Probe(c)
  <2>1. CASE c \in Jobs \/ stale
    BY <1>3, <1>5, <1>6, <2>1 DEF Probe
  <2>2. CASE ~(c \in Jobs \/ stale)
    BY <1>3, <1>5, <1>6, <2>2 DEF Probe
  <2> QED  BY <2>1, <2>2
<1>7. CASE BootWait(c)
  BY <1>3, <1>5, <1>7 DEF BootWait
<1>8. CASE Launch(c)
  <2>1. CASE Killed("booting") /\ start' = [start EXCEPT ![c] = "boot"]
             /\ UNCHANGED <<hopVars, inflight, recycleVars, cached, starting, joined>>
    BY <1>1, <1>2, <2>1, KernelMoves DEF Killed, recycleVars, TypeOK
  <2>2. CASE Killed("down") /\ StartFails(c)
    BY <1>4, <2>2 DEF Killed
  <2> QED  BY <1>8, <2>1, <2>2 DEF Launch
<1>9. CASE Boot(c)
  BY <1>2, <1>3, <1>4, <1>9 DEF Boot, kernelVars, TypeOK
<1> QED  BY <1>6, <1>7, <1>8, <1>9 DEF StartStep

(* The watchdog, the kernel, the ticket and the clock.                        *)
LEMMA EnvironmentStep ==
  ASSUME IInv, Tick \/ KernelBoots \/ KernelDies \/ RotateTicket \/ CacheExpires \/ CooldownEnds
  PROVE  IInv'
<1> USE DEF IInv
<1>1. TypeOK
  OBVIOUS
<1>2. CASE Tick
  <2>1. Watchdog \in Callers \ Jobs /\ Watchdog \notin Hops
    BY HopAssumption DEF Callers, HopAssumption
  <2> QED  BY <1>1, <1>2, <2>1, EnsureStep DEF Tick, hopVars, TypeOK
<1>3. CASE KernelBoots
  BY <1>1, <1>3, KernelMoves DEF KernelBoots, recycleVars, startVars, TypeOK
<1>4. CASE KernelDies
  BY <1>1, <1>4, KernelMoves DEF KernelDies, recycleVars, startVars, TypeOK
<1>5. CASE RotateTicket
  BY <1>1, <1>5, KernelMoves DEF RotateTicket, recycleVars, startVars, TypeOK
<1>6. CASE CacheExpires
  BY <1>1, <1>6, KernelMoves DEF CacheExpires, recycleVars, startVars, kernelVars, TypeOK
<1>7. CASE CooldownEnds
  BY <1>1, <1>7, KernelMoves DEF CooldownEnds, startVars, kernelVars, TypeOK
<1> QED  BY <1>2, <1>3, <1>4, <1>5, <1>6, <1>7

LEMMA NextHolds == IInv /\ [Next]_vars => IInv'
<1> SUFFICES ASSUME IInv, [Next]_vars PROVE IInv'
  OBVIOUS
<1>1. ASSUME NEW h \in Hops, HopStep(h) \/ Commit(h) PROVE IInv'
  <2>1. CASE Arrive(h) \/ Prepare(h) \/ Health(h) \/ Poll(h) \/ Bounced(h)
    BY <2>1, PrepareStep
  <2>2. CASE Bounce(h) \/ Renewed(h)
    BY <2>2, RecycleStep
  <2>3. CASE \E k \in {"ok", "incomplete", "transport", "auth"} :
               Commit(h) \/ Resend(h, k) \/ Unauthorised(h, k) \/ Answered(h, k) \/ NotRenewed(h) \/ Again(h)
    BY <2>3, WrapStep
  <2> QED  BY <1>1, <2>1, <2>2, <2>3 DEF HopStep
<1>2. CASE UNCHANGED vars
  <2>1. UNCHANGED <<hopVars, inflight, recycleVars, cached, startVars, kernelVars>>
    BY <1>2 DEF vars
  <2>2. TypeOK
    BY DEF IInv
  <2> QED  BY <2>1, <2>2, KernelMoves DEF recycleVars, startVars, kernelVars, TypeOK
<1> QED  BY <1>1, <1>2, KillStep, RestartStep, StartStepHolds, EnvironmentStep DEF Next

-----------------------------------------------------------------------------
(* The theorems.                                                              *)

(* The invariant holds throughout: the bookkeeping of the hops, of the        *)
(* recycling and of the starts of a slot's kernel stays consistent.           *)
THEOREM Inductive == Spec => []IInv
BY InitHolds, NextHolds, PTL DEF Spec

(* Every wait of a hop for a restart is a wait for one that is under way      *)
(* (awaitWrapRecycle), whatever the order of recycles, bounces and starts.    *)
THEOREM TypeCorrect == Spec => []TypeOK
<1>1. IInv => TypeOK
  BY DEF IInv
<1> QED  BY <1>1, Inductive, PTL

(* wrapInflight never drifts: beginWrapHop and the finally of runHop balance  *)
(* on every path, through resends, ticket renewals and failed starts.         *)
THEOREM InflightCorrect == Spec => []InflightExact
<1>1. IInv => InflightExact
  BY DEF IInv
<1> QED  BY <1>1, Inductive, PTL

(* A deferred recycle always has a hop in flight whose end will run it.       *)
THEOREM DeferredCorrect == Spec => []DeferredHasOwner
<1>1. IInv => DeferredHasOwner
  BY DEF IInv
<1> QED  BY <1>1, Inductive, PTL

(* When the last hop has ended, leaked slots are about to be freed by a       *)
(* restart, unless a due recycle fell into the 30 s cooldown or the leaking   *)
(* answer was replaced by a resend.                                           *)
THEOREM LeakCorrect == Spec => []LeakIsRecycled
<1>1. IInv => LeakIsRecycled
  BY DEF IInv, DeferredHasOwner, LeakHasOwner, LeakIsRecycled, TypeOK
<1> QED  BY <1>1, Inductive, PTL

-----------------------------------------------------------------------------
(* A hop ends.                                                                *)

(* How far a hop is from its end: its preparation, then its sends, of which   *)
(* the flags of the two repetitions tell how many are left.                   *)
HopRank(h) ==
  IF pc[h] = "idle" THEN 13
  ELSE IF pc[h] = "await" THEN 12
  ELSE IF pc[h] = "renew" THEN 11
  ELSE IF pc[h] \in {"bounced", "health"} THEN 10
  ELSE IF pc[h] \in {"poll", "start"} THEN 9
  ELSE IF pc[h] = "auth" THEN 5
  ELSE IF pc[h] = "again" THEN 4
  ELSE IF pc[h] = "send"
       THEN IF renewed[h] THEN IF committed[h] THEN 2 ELSE 3
            ELSE IF committed[h] THEN 6 ELSE IF retried[h] THEN 7 ELSE 8
  ELSE 0

HopRests(h) == UNCHANGED <<pc[h], committed[h], retried[h], renewed[h]>>

(* Only a renewed ticket leads to a send from within the wrap.                *)
AgainRenewed == \A h \in Hops : pc[h] = "again" => renewed[h]

LEMMA RankRests ==
  ASSUME NEW h, HopRests(h) PROVE HopRank(h)' = HopRank(h)
BY DEF HopRests, HopRank

(* The steps of a hop before it is sent.                                      *)
LEMMA PrepareLowers ==
  ASSUME TypeOK, NEW h \in Hops,
         Arrive(h) \/ Prepare(h) \/ Bounce(h) \/ Bounced(h) \/ Health(h) \/ Poll(h)
  PROVE  /\ HopRank(h)' < HopRank(h) /\ pc'[h] # "again"
         /\ \A x \in Hops \ {h} : HopRests(x)
<1>1. ASSUME NEW where, Goto(h, where)
      PROVE  pc'[h] = where /\ \A x \in Hops \ {h} : pc'[x] = pc[x]
  BY <1>1 DEF Goto, TypeOK
<1>2. ASSUME BeginWrapHop({h}) PROVE \A x \in Hops \ {h} : committed'[x] = committed[x]
  BY <1>2, Zenon DEF BeginWrapHop, SendFrom, TypeOK
<1>3. retried' = retried /\ renewed' = renewed
  BY DEF Arrive, Prepare, Bounce, Bounced, Health, Poll
<1>4. \A x \in Hops \ {h} : committed'[x] = committed[x]
  BY <1>2 DEF Arrive, Prepare, Bounce, Bounced, Health, Poll
<1>5. \/ pc[h] = "idle" /\ Goto(h, "await")
      \/ pc[h] = "await" /\ (Goto(h, "send") \/ Goto(h, "renew") \/ Goto(h, "health"))
      \/ pc[h] = "renew" /\ Goto(h, "bounced")
      \/ pc[h] = "bounced" /\ Goto(h, "start")
      \/ pc[h] = "health" /\ (Goto(h, "send") \/ Goto(h, "poll") \/ Goto(h, "start"))
      \/ pc[h] = "poll" /\ (Goto(h, "send") \/ Goto(h, "done"))
  BY DEF Arrive, Prepare, Bounce, Bounced, Health, Poll
<1>6. \A x \in Hops \ {h} : pc'[x] = pc[x]
  BY <1>1, <1>5
<1>7. \/ pc[h] = "idle" /\ pc'[h] = "await"
      \/ pc[h] = "await" /\ pc'[h] \in {"send", "renew", "health"}
      \/ pc[h] = "renew" /\ pc'[h] = "bounced"
      \/ pc[h] = "bounced" /\ pc'[h] = "start"
      \/ pc[h] = "health" /\ pc'[h] \in {"send", "poll", "start"}
      \/ pc[h] = "poll" /\ pc'[h] \in {"send", "done"}
  BY <1>1, <1>5
<1>8. HopRank(h)' < HopRank(h) /\ pc'[h] # "again"
  BY <1>7 DEF HopRank
<1> QED  BY <1>3, <1>4, <1>6, <1>8 DEF HopRests

(* The steps of a hop in the wrap, and the output it passes on.               *)
LEMMA WrapLowers ==
  ASSUME TypeOK, AgainRenewed, NEW h \in Hops, NEW k,
         \/ Commit(h) \/ Resend(h, k) \/ Unauthorised(h, k) \/ Answered(h, k)
         \/ Renewed(h) \/ NotRenewed(h) \/ Again(h)
  PROVE  /\ HopRank(h)' < HopRank(h) /\ (pc'[h] = "again" => renewed'[h])
         /\ \A x \in Hops \ {h} : HopRests(x)
<1>1. ASSUME NEW where, Goto(h, where)
      PROVE  pc'[h] = where /\ \A x \in Hops \ {h} : pc'[x] = pc[x]
  BY <1>1 DEF Goto, TypeOK
<1>2. ASSUME SendFrom({h})
      PROVE  ~committed'[h] /\ \A x \in Hops \ {h} : committed'[x] = committed[x]
  BY <1>2, Zenon DEF SendFrom, TypeOK
<1>3. CASE Commit(h)
  <2>1. /\ pc[h] = "send" /\ ~committed[h] /\ committed'[h] /\ UNCHANGED <<pc, retried, renewed>>
        /\ \A x \in Hops \ {h} : committed'[x] = committed[x]
    BY <1>3 DEF Commit, TypeOK
  <2>2. HopRank(h)' < HopRank(h)
    BY <2>1 DEF HopRank
  <2> QED  BY <2>1, <2>2 DEF HopRests
<1>4. CASE Resend(h, k)
  <2>1. /\ pc[h] = "send" /\ ~committed[h] /\ ~retried[h] /\ ~renewed[h] /\ UNCHANGED <<pc, renewed>>
        /\ retried'[h] /\ \A x \in Hops \ {h} : retried'[x] = retried[x]
    BY <1>4 DEF Resend, Resends, TypeOK
  <2>2. ~committed'[h] /\ \A x \in Hops \ {h} : committed'[x] = committed[x]
    BY <1>2, <1>4 DEF Resend
  <2>3. HopRank(h)' < HopRank(h)
    BY <2>1, <2>2 DEF HopRank
  <2> QED  BY <2>1, <2>2, <2>3 DEF HopRests
<1>5. CASE Unauthorised(h, k)
  <2>1. pc[h] = "send" /\ ~renewed[h] /\ Goto(h, "auth") /\ UNCHANGED <<committed, retried, renewed>>
    BY <1>5 DEF Unauthorised, Renews
  <2>2. pc'[h] = "auth" /\ \A x \in Hops \ {h} : pc'[x] = pc[x]
    BY <1>1, <2>1
  <2>3. HopRank(h)' < HopRank(h)
    BY <2>1, <2>2 DEF HopRank
  <2> QED  BY <2>1, <2>2, <2>3 DEF HopRests
<1>6. CASE Answered(h, k) \/ NotRenewed(h)
  <2>1. pc[h] \in {"send", "auth"} /\ Goto(h, "done") /\ UNCHANGED <<committed, retried, renewed>>
    BY <1>6 DEF Answered, NotRenewed, EndWrapHop
  <2>2. pc'[h] = "done" /\ \A x \in Hops \ {h} : pc'[x] = pc[x]
    BY <1>1, <2>1
  <2>3. HopRank(h)' < HopRank(h)
    BY <2>1, <2>2 DEF HopRank
  <2> QED  BY <2>1, <2>2, <2>3 DEF HopRests
<1>7. CASE Renewed(h)
  <2>1. /\ pc[h] = "auth" /\ Goto(h, "again") /\ UNCHANGED <<committed, retried>>
        /\ renewed'[h] /\ \A x \in Hops \ {h} : renewed'[x] = renewed[x]
    BY <1>7 DEF Renewed, TypeOK
  <2>2. pc'[h] = "again" /\ \A x \in Hops \ {h} : pc'[x] = pc[x]
    BY <1>1, <2>1
  <2>3. HopRank(h)' < HopRank(h)
    BY <2>1, <2>2 DEF HopRank
  <2> QED  BY <2>1, <2>2, <2>3 DEF HopRests
<1>8. CASE Again(h)
  <2>1. /\ pc[h] = "again" /\ renewed[h] /\ Goto(h, "send") /\ UNCHANGED <<retried, renewed>>
    BY <1>8 DEF Again, AgainRenewed
  <2>2. ~committed'[h] /\ \A x \in Hops \ {h} : committed'[x] = committed[x]
    BY <1>2, <1>8 DEF Again
  <2>3. pc'[h] = "send" /\ \A x \in Hops \ {h} : pc'[x] = pc[x]
    BY <1>1, <2>1
  <2>4. HopRank(h)' < HopRank(h)
    BY <2>1, <2>2, <2>3 DEF HopRank
  <2> QED  BY <2>1, <2>2, <2>3, <2>4 DEF HopRests
<1> QED  BY <1>3, <1>4, <1>5, <1>6, <1>7, <1>8

(* The end of a start moves the hops that wait for it, and nobody else.       *)
LEMMA StartLowers ==
  ASSUME TypeOK, StartsPlaced, NEW c \in Callers, StartStep(c), NEW h \in Hops
  PROVE  HopRests(h) \/ (HopRank(h)' < HopRank(h) /\ pc'[h] # "again")
<1>1. ASSUME NEW good \in BOOLEAN, EndStart(c, good),
             BeginWrapHop(Returning(c) \cap Hops) \/ UNCHANGED committed
      PROVE  HopRests(h) \/ (HopRank(h)' < HopRank(h) /\ pc'[h] # "again")
  <2>1. retried' = retried /\ renewed' = renewed
    BY <1>1 DEF EndStart
  <2>2. CASE h \in Returning(c)
    <3>1. start[h] # "no"
      BY <2>2, HopAssumption DEF StartStep, Probe, BootWait, Launch, Boot, Returning, StartsPlaced, HopAssumption
    <3>2. pc[h] = "start"
      BY <3>1 DEF StartsPlaced
    <3>3. pc'[h] \in {"send", "done"}
      BY <1>1, <2>2 DEF EndStart
    <3> QED  BY <3>2, <3>3 DEF HopRank
  <2>3. CASE h \notin Returning(c)
    <3>1. pc'[h] = pc[h]
      BY <1>1, <2>3 DEF EndStart
    <3>2. ASSUME BeginWrapHop(Returning(c) \cap Hops) PROVE committed'[h] = committed[h]
      <4>1. committed' = [x \in Hops |-> x \notin Returning(c) \cap Hops /\ committed[x]]
        BY <3>2 DEF BeginWrapHop, SendFrom
      <4>2. CASE committed[h] = TRUE
        BY <2>3, <4>1, <4>2
      <4>3. CASE committed[h] = FALSE
        BY <2>3, <4>1, <4>3
      <4> QED  BY <4>2, <4>3 DEF TypeOK
    <3> QED  BY <1>1, <2>1, <3>1, <3>2 DEF HopRests
  <2> QED  BY <2>2, <2>3
<1>2. CASE UNCHANGED hopVars
  BY <1>2 DEF hopVars, HopRests
<1>3. CASE StartOver(c)
  <2>1. TRUE \in BOOLEAN /\ EndStart(c, TRUE) /\ BeginWrapHop(Returning(c) \cap Hops)
    BY <1>3 DEF StartOver
  <2> QED  BY <1>1, <2>1
<1>4. CASE StartFails(c)
  <2>1. FALSE \in BOOLEAN /\ EndStart(c, FALSE) /\ UNCHANGED committed
    BY <1>4 DEF StartFails
  <2> QED  BY <1>1, <2>1
<1> QED  BY <1>2, <1>3, <1>4 DEF StartStep, Probe, BootWait, Launch, Boot

(* What a step does to the ranks of the hops.                                 *)
LEMMA StepLowers ==
  ASSUME TypeOK, StartsPlaced, AgainRenewed, [Next]_vars
  PROVE  /\ AgainRenewed'
         /\ \A h \in Hops : HopRests(h) \/ HopRank(h)' < HopRank(h)
         /\ \A h \in Hops : HopStep(h) => HopRank(h)' < HopRank(h)
<1>1. ASSUME NEW h \in Hops, HopStep(h) \/ Commit(h)
      PROVE  /\ HopRank(h)' < HopRank(h) /\ (pc'[h] = "again" => renewed'[h])
             /\ \A x \in Hops \ {h} : HopRests(x)
  BY <1>1, PrepareLowers, WrapLowers DEF HopStep
<1>2. ASSUME NEW c \in Callers, StartStep(c), NEW h \in Hops
      PROVE  HopRests(h) \/ (HopRank(h)' < HopRank(h) /\ pc'[h] # "again")
  BY <1>2, StartLowers
<1>3. ASSUME \/ UNCHANGED vars \/ \E j \in Jobs : KillWrapDataplane(j) \/ RestartRustKernel(j)
             \/ Tick \/ KernelBoots \/ KernelDies \/ RotateTicket \/ CacheExpires \/ CooldownEnds,
             NEW h \in Hops
      PROVE  HopRests(h)
  <2>1. UNCHANGED hopVars
    BY <1>3 DEF vars, KillWrapDataplane, RestartRustKernel, Tick, KernelBoots, KernelDies, RotateTicket, CacheExpires, CooldownEnds
  <2> QED  BY <2>1 DEF hopVars, HopRests
<1> HIDE DEF HopRank
<1>4. \A h \in Hops : HopRests(h) \/ (HopRank(h)' < HopRank(h) /\ (pc'[h] = "again" => renewed'[h]))
  <2>1. CASE \E h \in Hops : HopStep(h) \/ Commit(h)
    BY <1>1, <2>1
  <2>2. CASE \E c \in Callers : StartStep(c)
    BY <1>2, <2>2
  <2>3. CASE ~(\E h \in Hops : HopStep(h) \/ Commit(h)) /\ ~(\E c \in Callers : StartStep(c))
    <3>1. \/ UNCHANGED vars \/ \E j \in Jobs : KillWrapDataplane(j) \/ RestartRustKernel(j)
          \/ Tick \/ KernelBoots \/ KernelDies \/ RotateTicket \/ CacheExpires \/ CooldownEnds
      BY <2>3 DEF Next
    <3> QED  BY <1>3, <3>1
  <2> QED  BY <2>1, <2>2, <2>3
<1>5. AgainRenewed'
  BY <1>4 DEF AgainRenewed, HopRests
<1> QED  BY <1>1, <1>4, <1>5

(* Restarts, shared starts, resends and renewed tickets never send a hop back *)
(* (prepareRust, runHop): nobody's step raises its rank, each of its own and  *)
(* each end of a start it waits for lowers it, so it makes at most 13 moves   *)
(* and three sends.  This is the argument of HopsSettle for every number of   *)
(* hops and restarts; that a step is always enabled is left to the model      *)
(* checker.                                                                   *)
THEOREM HopProgress ==
  Spec => [][\A h \in Hops :
               /\ HopRank(h) \in 0..13
               /\ HopRests(h) \/ HopRank(h)' < HopRank(h)
               /\ HopStep(h) => HopRank(h)' < HopRank(h)]_vars
<1>1. Init => AgainRenewed
  BY DEF Init, AgainRenewed
<1>2. \A h \in Hops : HopRank(h) \in 0..13
  BY DEF HopRank
<1>3. IInv /\ AgainRenewed /\ [Next]_vars => AgainRenewed'
  BY StepLowers DEF IInv
<1>4. IInv /\ AgainRenewed /\ [Next]_vars =>
        [\A h \in Hops :
           /\ HopRank(h) \in 0..13
           /\ HopRests(h) \/ HopRank(h)' < HopRank(h)
           /\ HopStep(h) => HopRank(h)' < HopRank(h)]_vars
  BY <1>2, StepLowers DEF IInv
<1> QED  BY <1>1, <1>3, <1>4, Inductive, PTL DEF Spec

-----------------------------------------------------------------------------
(* The Codex path: its kernels.                                               *)

(* A kernel that runs is in the map of started kernels.                       *)
CodexStarted ==
  /\ procs \in [Slots -> Nat] /\ starts \in [Slots -> BOOLEAN]
  /\ \A s \in Slots : procs[s] > 0 => starts[s]

CodexKernels == CodexStarted /\ OneKernelPerSlot

LEMMA CodexKernelsInit == CodexInit => CodexKernels
BY DEF CodexInit, CodexKernels, CodexStarted, OneKernelPerSlot

LEMMA CodexKernelsStep == CodexKernels /\ [CodexNext]_codexVars => CodexKernels'
<1> SUFFICES ASSUME CodexKernels, [CodexNext]_codexVars PROVE CodexKernels'
  OBVIOUS
<1> USE DEF CodexKernels, CodexStarted, OneKernelPerSlot
<1>1. ASSUME NEW r \in Requests, Start(r) PROVE CodexKernels'
  <2> DEFINE s == Slot(r)
  <2>1. /\ starts' = [starts EXCEPT ![s] = TRUE]
        /\ procs' = [procs EXCEPT ![s] = IF starts[s] THEN procs[s] ELSE procs[s] + 1]
    BY <1>1 DEF Start
  <2> HIDE DEF s
  <2>2. CASE s \in Slots
    BY <2>1, <2>2
  <2>3. CASE s \notin Slots
    <3>1. procs' = procs /\ starts' = starts
      BY <2>1, <2>3
    <3> QED  BY <3>1
  <2> QED  BY <2>2, <2>3
<1>2. ASSUME NEW s \in Volatile, Stop(s) PROVE CodexKernels'
  <2>1. /\ starts' = [starts EXCEPT ![s] = FALSE] /\ procs' = [procs EXCEPT ![s] = 0]
    BY <1>2 DEF Stop
  <2>2. /\ procs' \in [Slots -> Nat] /\ starts' \in [Slots -> BOOLEAN]
        /\ \A t \in Slots : t # s => procs'[t] = procs[t] /\ starts'[t] = starts[t]
        /\ s \in Slots => procs'[s] = 0
    BY <2>1
  <2> QED  BY <2>2
<1>3. ASSUME NEW s \in Volatile, Fails(s) PROVE CodexKernels'
  <2>1. PICK p \in {0, procs[s]} : procs' = [procs EXCEPT ![s] = p]
    BY <1>3 DEF Fails
  <2>2. starts' = starts
    BY <1>3 DEF Fails
  <2>3. CASE s \in Slots
    BY <2>1, <2>2, <2>3
  <2>4. CASE s \notin Slots
    <3>1. procs' = procs
      BY <2>1, <2>4
    <3> QED  BY <2>2, <3>1
  <2> QED  BY <2>3, <2>4
<1>4. ASSUME NEW s \in Volatile, Boots(s) \/ OperatorSwitch(s) PROVE CodexKernels'
  BY <1>4 DEF Boots, OperatorSwitch, codexKernelVars
<1>5. ASSUME NEW s \in Slots, Reconcile(s) \/ ParkEnds(s) PROVE CodexKernels'
  BY <1>5 DEF Reconcile, ParkEnds, codexKernelVars
<1>6. ASSUME NEW r \in Requests,
             \/ Pick(r) \/ Healthy(r) \/ NotReady(r) \/ Headers(r) \/ Emit(r)
             \/ TransportError(r) \/ Succeed(r) \/ Refuse(r) \/ Leave(r)
      PROVE  CodexKernels'
  BY <1>6 DEF Pick, Healthy, NotReady, Headers, Emit, TransportError,
              Succeed, Refuse, Leave, codexKernelVars
<1>7. CASE UNCHANGED codexVars
  BY <1>7 DEF codexVars, codexKernelVars
<1> QED  BY <1>1, <1>2, <1>3, <1>4, <1>5, <1>6, <1>7 DEF CodexNext, Step, Timed

(* ensureCodexKernel starts one kernel for a slot, however many requests find *)
(* its socket silent and whenever it crashes, hangs or is stopped: a kernel   *)
(* that runs is in the map of started ones, and nobody starts a second while  *)
(* an entry is there.                                                         *)
THEOREM CodexKernelCorrect == CodexSpec => []OneKernelPerSlot
<1>1. CodexKernels => OneKernelPerSlot
  BY DEF CodexKernels
<1> QED  BY <1>1, CodexKernelsInit, CodexKernelsStep, PTL DEF CodexSpec

-----------------------------------------------------------------------------
(* The Codex path: the slots a request has left.                              *)

(* A set of numbers has a least one: < is well-founded.                       *)
LEMMA LeastNumber ==
  ASSUME NEW S \in SUBSET Nat, S # {}
  PROVE  \E x \in S : \A y \in S : x <= y
<1> DEFINE R == OpToRel(<, Nat)
<1>1. IsWellFoundedOn(R, Nat)
  BY NatLessThanWellFounded
<1>2. \A x, y \in Nat : <<x, y>> \in R <=> x < y
  BY DEF OpToRel
<1> HIDE DEF R
<1>3. PICK x \in S : \A y \in S : <<y, x>> \notin R
  BY <1>1, WFMin
<1>4. ASSUME NEW y \in S PROVE x <= y
  <2>1. x \in Nat /\ y \in Nat /\ <<y, x>> \notin R
    BY <1>3
  <2>2. ~(y < x)
    BY <1>2, <2>1
  <2> QED  BY <2>1, <2>2
<1> QED  BY <1>4

LEMMA SlotIsLeft ==
  ASSUME NEW r, ids[r] \subseteq Slots, ids[r] # {}
  PROVE  Slot(r) \in ids[r]
<1>1. ids[r] \in SUBSET Nat
  BY CodexAssumption DEF CodexAssumption
<1>2. \E s \in ids[r] : \A t \in ids[r] : s <= t
  BY <1>1, LeastNumber
<1> QED  BY <1>2 DEF Slot

LEMMA SlotKept == ASSUME NEW r, ids'[r] = ids[r] PROVE Slot(r)' = Slot(r)
BY DEF Slot

(* slice(0, CODEX_FAILOVER_MAX): the slots with fewer than n before them.     *)
LEMMA FirstOnes ==
  ASSUME NEW S \in SUBSET Nat, IsFiniteSet(S), NEW n \in Nat
  PROVE  LET list == {s \in S : Cardinality({t \in S : t < s}) < n} IN
         IsFiniteSet(list) /\ Cardinality(list) \in Nat /\ Cardinality(list) <= n
<1> DEFINE Below(s) == {t \in S : t < s}
           list == {s \in S : Cardinality(Below(s)) < n}
           place == [s \in list |-> Cardinality(Below(s))]
<1>1. ASSUME NEW s \in S
      PROVE  IsFiniteSet(Below(s)) /\ Cardinality(Below(s)) \in Nat /\ s \notin Below(s)
  <2>1. Below(s) \in SUBSET S /\ s \notin Below(s)
    OBVIOUS
  <2> QED  BY <2>1, FS_Subset, FS_CardinalityType
<1>2. ASSUME NEW s \in S, NEW t \in S, t < s
      PROVE  Cardinality(Below(t)) < Cardinality(Below(s))
  <2>1. ASSUME NEW x \in Below(t) PROVE x \in Below(s)
    <3>1. x \in S /\ x \in Nat /\ s \in Nat /\ t \in Nat /\ x < t
      OBVIOUS
    <3>2. x < s
      BY <1>2, <3>1
    <3> QED  BY <3>1, <3>2
  <2>2. Below(t) \cup {t} \in SUBSET Below(s)
    BY <1>2, <2>1
  <2> HIDE DEF Below
  <2>3. Cardinality(Below(t) \cup {t}) = Cardinality(Below(t)) + 1
    BY <1>1, FS_AddElement
  <2>4. Cardinality(Below(t) \cup {t}) <= Cardinality(Below(s))
    BY <1>1, <2>2, FS_Subset
  <2> QED  BY <1>1, <2>3, <2>4
<1>3. list \in SUBSET S
  OBVIOUS
<1>4. place \in [list -> 0..(n - 1)]
  <2>1. ASSUME NEW s \in list PROVE Cardinality(Below(s)) \in 0..(n - 1)
    <3>1. s \in S /\ Cardinality(Below(s)) < n
      OBVIOUS
    <3>2. Cardinality(Below(s)) \in Nat
      BY <1>1, <3>1
    <3> QED  BY <3>1, <3>2
  <2> HIDE DEF list
  <2> QED  BY <2>1
<1>5. ASSUME NEW s \in list, NEW t \in list, place[s] = place[t] PROVE s = t
  <2>1. /\ s \in S /\ t \in S /\ s \in Nat /\ t \in Nat
        /\ Cardinality(Below(s)) = Cardinality(Below(t)) /\ Cardinality(Below(s)) \in Nat
    BY <1>1, <1>5
  <2> HIDE DEF Below
  <2>2. ~(s < t) /\ ~(t < s)
    BY <1>2, <2>1
  <2> QED  BY <2>1, <2>2
<1> HIDE DEF list, place
<1>6. place \in Injection(list, 0..(n - 1))
  BY <1>4, <1>5 DEF Injection, IsInjective
<1>7. IsFiniteSet(0..(n - 1)) /\ Cardinality(0..(n - 1)) = n
  BY FS_Interval
<1>8. IsFiniteSet(list) /\ Cardinality(list) <= n
  BY <1>6, <1>7, FS_Injection
<1> QED  BY <1>8, FS_CardinalityType DEF list

-----------------------------------------------------------------------------
(* The Codex path: its types.                                                 *)

LEMMA FileFacts ==
  ASSUME NEW f \in File
  PROVE  /\ Synced(f) \in File
         /\ \A h \in {"none", "left", "spent"}, spent \in BOOLEAN : Ingested(f, h, spent) \in File
<1>1. ASSUME NEW g \in File PROVE Synced(g) \in File
  BY DEF File, Synced
<1>2. ASSUME NEW h \in {"none", "left", "spent"}, NEW spent \in BOOLEAN PROVE Ingested(f, h, spent) \in File
  <2> DEFINE p == spent \/ h = "spent"
             g == [f EXCEPT !.parked = p]
  <2>1. p \in BOOLEAN
    BY Zenon
  <2> HIDE DEF p
  <2>2. g \in File
    BY <2>1 DEF File
  <2> QED  BY <1>1, <2>2 DEF Ingested, p
<1> QED  BY <1>1, <1>2

(* The types of a request's variables.                                        *)
RequestTyped(r) ==
  /\ at[r] \in Points /\ send[r] \in {1, 2} /\ ids[r] \subseteq Slots
  /\ lines[r] \subseteq Sends /\ got[r] \subseteq Sends
  /\ Cardinality(ids[r]) <= FailoverMax
  /\ at[r] \in {"ensure", "boot", "hop", "body"} => ids[r] # {}

RequestsTyped ==
  /\ at = [r \in Requests |-> at[r]] /\ send = [r \in Requests |-> send[r]]
  /\ ids = [r \in Requests |-> ids[r]] /\ lines = [r \in Requests |-> lines[r]]
  /\ got = [r \in Requests |-> got[r]]
  /\ \A r \in Requests : RequestTyped(r)

SlotsTyped ==
  /\ file \in [Slots -> File] /\ up \in [Slots -> BOOLEAN]
  /\ procs \in [Slots -> Nat] /\ starts \in [Slots -> BOOLEAN]

LEMMA CodexTypeParts == CodexTypeOK <=> SlotsTyped /\ RequestsTyped
<1>1. CodexTypeOK => SlotsTyped /\ RequestsTyped
  BY DEF CodexTypeOK, SlotsTyped, RequestsTyped, RequestTyped
<1>2. SlotsTyped /\ RequestsTyped => CodexTypeOK
  BY DEF CodexTypeOK, SlotsTyped, RequestsTyped, RequestTyped
<1> QED  BY <1>1, <1>2

(* The variables of one request are written.                                  *)
Moves(r, p, l, n, L, G) ==
  /\ at' = [at EXCEPT ![r] = p] /\ ids' = [ids EXCEPT ![r] = l] /\ send' = [send EXCEPT ![r] = n]
  /\ lines' = [lines EXCEPT ![r] = L] /\ got' = [got EXCEPT ![r] = G]

LEMMA MovesFacts ==
  ASSUME RequestsTyped, NEW r \in Requests, NEW p, NEW l, NEW n, NEW L, NEW G, Moves(r, p, l, n, L, G)
  PROVE  /\ at' = [q \in Requests |-> at'[q]] /\ send' = [q \in Requests |-> send'[q]]
         /\ ids' = [q \in Requests |-> ids'[q]] /\ lines' = [q \in Requests |-> lines'[q]]
         /\ got' = [q \in Requests |-> got'[q]]
         /\ at'[r] = p /\ ids'[r] = l /\ send'[r] = n /\ lines'[r] = L /\ got'[r] = G
         /\ \A q \in Requests : q # r => /\ at'[q] = at[q] /\ ids'[q] = ids[q] /\ send'[q] = send[q]
                                        /\ lines'[q] = lines[q] /\ got'[q] = got[q]
BY DEF RequestsTyped, Moves

(* No line of the slot has come back.                                         *)
Silent(r) == at[r] = "boot" \/ (at[r] = "body" /\ lines[r] = {})

Sent(r) == at[r] \in {"hop", "body"}

(* What the steps of a request do to its variables.                           *)
StepKinds(r) ==
  \/ at[r] = "idle" /\ \E l \in SUBSET Slots :
       /\ Cardinality(l) <= FailoverMax
       /\ Moves(r, IF l = {} THEN "answered" ELSE "ensure", l, 1, {}, {})
  \/ at[r] \in {"ensure", "boot"} /\ Moves(r, "hop", ids[r], send[r], lines[r], got[r])
  \/ at[r] = "ensure" /\ Moves(r, "boot", ids[r], send[r], lines[r], got[r])
  \/ at[r] = "hop" /\ Moves(r, "body", ids[r], send[r], lines[r], got[r])
  \/ at[r] = "body" /\ \E L \in {lines[r], lines[r] \cup {<<Slot(r), send[r]>>}} :
       \E G \in {got[r], got[r] \cup {<<Slot(r), send[r]>>}} :
         G \subseteq got[r] \cup L /\ Moves(r, "body", ids[r], send[r], L, G)
  \/ Sent(r) /\ send[r] = 1 /\ lines[r] = {} /\ Moves(r, "hop", ids[r], 2, lines[r], got[r])
  \/ Sent(r) /\ \E G \in {got[r], lines[r]} : Moves(r, "answered", ids[r], send[r], lines[r], G)
  \/ Silent(r) /\ ids[r] # {Slot(r)}
     /\ Moves(r, "ensure", ids[r] \ {Slot(r)}, 1, {}, got[r])
  \/ Silent(r) /\ Moves(r, "answered", ids[r], 1, {}, got[r])
  \/ at[r] = "answered" /\ Moves(r, "idle", {}, 1, {}, {})

LEMMA ContinueKinds ==
  ASSUME RequestsTyped, NEW r \in Requests, Continue(r)
  PROVE  \/ ids[r] # {Slot(r)} /\ Moves(r, "ensure", ids[r] \ {Slot(r)}, 1, {}, got[r])
         \/ Moves(r, "answered", ids[r], 1, {}, got[r])
<1>1. ids = [ids EXCEPT ![r] = ids[r]] /\ got = [got EXCEPT ![r] = got[r]]
  BY DEF RequestsTyped
<1> QED  BY <1>1 DEF Continue, Reset, Moves

LEMMA PickKind ==
  ASSUME RequestsTyped, NEW r \in Requests, Pick(r)
  PROVE  StepKinds(r)
<1> DEFINE all  == PickCodexSlots(file')
           list == IF Pin[r] # NoPin THEN {Pin[r]}
                   ELSE {s \in all : Cardinality({t \in all : t < s}) < FailoverMax}
<1>1. at[r] = "idle" /\ Moves(r, IF list = {} THEN "answered" ELSE "ensure", list, 1, {}, {})
  BY DEF Pick, Reset, Moves
<1>2. all \in SUBSET Slots /\ all \in SUBSET Nat /\ IsFiniteSet(all) /\ FailoverMax \in Nat \ {0}
  BY CodexAssumption, FS_Subset DEF CodexAssumption, PickCodexSlots
<1>3. list \in SUBSET Slots /\ Cardinality(list) <= FailoverMax
  <2>1. CASE Pin[r] # NoPin
    <3>1. Pin[r] \in Slots
      BY <2>1, CodexAssumption DEF CodexAssumption
    <3>2. Cardinality({Pin[r]}) = 1
      BY FS_Singleton
    <3>3. 1 <= FailoverMax
      BY <1>2
    <3> QED  BY <2>1, <3>1, <3>2, <3>3
  <2>2. CASE Pin[r] = NoPin
    <3> HIDE DEF all
    <3> QED  BY <1>2, <2>2, FirstOnes
  <2> QED  BY <2>1, <2>2
<1> HIDE DEF list
<1> QED  BY <1>1, <1>3 DEF StepKinds

LEMMA RequestKinds ==
  ASSUME RequestsTyped, NEW r \in Requests, Pick(r) \/ Step(r) \/ Emit(r) \/ Leave(r)
  PROVE  StepKinds(r)
<1>1. /\ ids = [ids EXCEPT ![r] = ids[r]] /\ got = [got EXCEPT ![r] = got[r]] /\ at = [at EXCEPT ![r] = at[r]]
      /\ send = [send EXCEPT ![r] = send[r]] /\ lines = [lines EXCEPT ![r] = lines[r]]
  BY DEF RequestsTyped
<1>2. CASE Healthy(r)
  BY <1>1, <1>2 DEF Healthy, Moves, StepKinds
<1>3. CASE Start(r)
  BY <1>1, <1>3 DEF Start, Moves, StepKinds
<1>4. CASE NotReady(r)
  BY <1>4, ContinueKinds DEF NotReady, Silent, StepKinds
<1>5. CASE TransportError(r)
  <2>1. \/ send[r] = 1 /\ lines[r] = {} /\ Moves(r, "hop", ids[r], 2, lines[r], got[r])
        \/ Moves(r, "answered", ids[r], send[r], lines[r], got[r])
    <3>1. CASE MayResend(r)
      BY <1>1, <1>5, <3>1 DEF TransportError, MayResend, Emitted, Moves
    <3>2. CASE ~MayResend(r)
      BY <1>1, <1>5, <3>2 DEF TransportError, Moves
    <3> QED  BY <3>1, <3>2
  <2> QED  BY <1>5, <2>1 DEF TransportError, Sent, StepKinds
<1>6. CASE Succeed(r)
  <2>1. /\ at[r] = "body" /\ at' = [at EXCEPT ![r] = "answered"] /\ UNCHANGED <<ids, send, lines>>
        /\ got' = [got EXCEPT ![r] = got[r]] \/ got' = [got EXCEPT ![r] = lines[r]]
    BY <1>6 DEF Succeed
  <2> QED  BY <1>1, <2>1 DEF Moves, Sent, StepKinds
<1>7. CASE Refuse(r)
  <2>1. at[r] = "body"
    BY <1>7 DEF Refuse
  <2>2. CASE lines[r] = {} /\ Continue(r)
    BY <2>1, <2>2, ContinueKinds DEF Silent, StepKinds
  <2>3. CASE at' = [at EXCEPT ![r] = "answered"] /\ UNCHANGED <<ids, send, lines, got>>
    BY <1>1, <2>1, <2>3 DEF Moves, Sent, StepKinds
  <2> QED  BY <1>7, <2>2, <2>3 DEF Refuse, Emitted
<1>8. CASE Emit(r)
  <2> DEFINE x == <<Slot(r), send[r]>>
  <2>1. /\ at[r] = "body" /\ UNCHANGED <<at, ids, send>> /\ lines' = [lines EXCEPT ![r] = lines[r] \cup {x}]
        /\ got' = [got EXCEPT ![r] = got[r] \cup {x}] \/ got' = [got EXCEPT ![r] = got[r]]
    BY <1>8 DEF Emit
  <2> HIDE DEF x
  <2>2. \/ Moves(r, "body", ids[r], send[r], lines[r] \cup {x}, got[r] \cup {x})
        \/ Moves(r, "body", ids[r], send[r], lines[r] \cup {x}, got[r])
    BY <1>1, <2>1 DEF Moves
  <2> QED  BY <2>1, <2>2 DEF StepKinds, x
<1>9. CASE Leave(r)
  BY <1>9 DEF Leave, Reset, Moves, StepKinds
<1>10. CASE Headers(r)
  BY <1>1, <1>10 DEF Headers, Moves, StepKinds
<1> QED  BY <1>2, <1>3, <1>4, <1>5, <1>6, <1>7, <1>8, <1>9, <1>10, PickKind DEF Step, Timed

(* A step of CodexNext is one of a request, or leaves the requests alone.     *)
LEMMA CodexSteps ==
  ASSUME RequestsTyped, [CodexNext]_codexVars
  PROVE  (\E r \in Requests : StepKinds(r)) \/ UNCHANGED request
<1>1. ASSUME NEW s \in Volatile, Boots(s) \/ OperatorSwitch(s) \/ Stop(s) \/ Fails(s)
      PROVE  UNCHANGED request
  BY <1>1 DEF Boots, OperatorSwitch, Stop, Fails
<1>2. ASSUME NEW s \in Slots, Reconcile(s) \/ ParkEnds(s) PROVE UNCHANGED request
  BY <1>2 DEF Reconcile, ParkEnds
<1>3. CASE UNCHANGED codexVars
  BY <1>3 DEF codexVars
<1> QED  BY <1>1, <1>2, <1>3, RequestKinds DEF CodexNext

(* Every kind of step keeps the types of its request.                         *)
LEMMA RequestTypedStep ==
  ASSUME RequestsTyped, NEW r \in Requests, StepKinds(r)
  PROVE  RequestsTyped'
<1>1. ASSUME NEW p \in Points, NEW l \in SUBSET Slots, NEW n \in {1, 2}, NEW L \in SUBSET Sends,
             NEW G \in SUBSET Sends, Moves(r, p, l, n, L, G), Cardinality(l) <= FailoverMax,
             p \in {"ensure", "boot", "hop", "body"} => l # {}
      PROVE  RequestsTyped'
  <2>1. RequestTyped(r)'
    BY <1>1, MovesFacts DEF RequestTyped
  <2>2. ASSUME NEW q \in Requests, q # r PROVE RequestTyped(q)'
    <3>1. /\ at'[q] = at[q] /\ ids'[q] = ids[q] /\ send'[q] = send[q]
          /\ lines'[q] = lines[q] /\ got'[q] = got[q]
      BY <1>1, <2>2, MovesFacts
    <3> QED  BY <3>1 DEF RequestsTyped, RequestTyped
  <2> QED  BY <1>1, <2>1, <2>2, MovesFacts DEF RequestsTyped
<1>2. RequestTyped(r)
  BY DEF RequestsTyped
<1>3. ids[r] # {} => Slot(r) \in ids[r]
  BY <1>2, SlotIsLeft DEF RequestTyped
<1>4. at[r] \in {"ensure", "boot", "hop", "body"} => <<Slot(r), send[r]>> \in Sends
  BY <1>2, <1>3 DEF RequestTyped, Sends
<1>5. ids[r] # {} => Cardinality(ids[r] \ {Slot(r)}) <= FailoverMax
  <2>1. IsFiniteSet(ids[r]) /\ Cardinality(ids[r]) \in Nat /\ FailoverMax \in Nat
    BY <1>2, CodexAssumption, FS_Subset, FS_CardinalityType DEF CodexAssumption, RequestTyped
  <2>2. ids[r] # {} => Cardinality(ids[r] \ {Slot(r)}) = Cardinality(ids[r]) - 1
    BY <1>3, <2>1, FS_RemoveElement
  <2> QED  BY <1>2, <2>1, <2>2 DEF RequestTyped
<1>6. CASE at[r] = "idle" /\ \E l \in SUBSET Slots :
             /\ Cardinality(l) <= FailoverMax
             /\ Moves(r, IF l = {} THEN "answered" ELSE "ensure", l, 1, {}, {})
  <2>1. PICK l \in SUBSET Slots :
          /\ Cardinality(l) <= FailoverMax
          /\ Moves(r, IF l = {} THEN "answered" ELSE "ensure", l, 1, {}, {})
    BY <1>6
  <2> DEFINE p == IF l = {} THEN "answered" ELSE "ensure"
  <2>2. p \in Points /\ (p \in {"ensure", "boot", "hop", "body"} => l # {})
    BY DEF Points
  <2> HIDE DEF p
  <2>3. Moves(r, p, l, 1, {}, {})
    BY <2>1 DEF p
  <2> QED  BY <1>1, <2>1, <2>2, <2>3
<1>7. CASE at[r] \in {"ensure", "boot"} /\ Moves(r, "hop", ids[r], send[r], lines[r], got[r])
  BY <1>1, <1>2, <1>7 DEF RequestTyped, Points
<1>8. CASE at[r] = "ensure" /\ Moves(r, "boot", ids[r], send[r], lines[r], got[r])
  BY <1>1, <1>2, <1>8 DEF RequestTyped, Points
<1>9. CASE at[r] = "body" /\ \E L \in {lines[r], lines[r] \cup {<<Slot(r), send[r]>>}} :
             \E G \in {got[r], got[r] \cup {<<Slot(r), send[r]>>}} : Moves(r, "body", ids[r], send[r], L, G)
  <2>1. PICK L \in {lines[r], lines[r] \cup {<<Slot(r), send[r]>>}},
             G \in {got[r], got[r] \cup {<<Slot(r), send[r]>>}} : Moves(r, "body", ids[r], send[r], L, G)
    BY <1>9
  <2>2. L \in SUBSET Sends /\ G \in SUBSET Sends
    BY <1>2, <1>4, <1>9 DEF RequestTyped
  <2> QED  BY <1>1, <1>2, <1>9, <2>1, <2>2 DEF RequestTyped, Points
<1>10. CASE Sent(r) /\ Moves(r, "hop", ids[r], 2, lines[r], got[r])
  BY <1>1, <1>2, <1>10 DEF Sent, RequestTyped, Points
<1>11. CASE Sent(r) /\ \E G \in {got[r], lines[r]} : Moves(r, "answered", ids[r], send[r], lines[r], G)
  BY <1>1, <1>2, <1>11 DEF RequestTyped, Points
<1>12. CASE Silent(r) /\ ids[r] # {Slot(r)} /\ Moves(r, "ensure", ids[r] \ {Slot(r)}, 1, {}, got[r])
  <2>1. ids[r] # {} /\ ids[r] \ {Slot(r)} # {} /\ ids[r] \ {Slot(r)} \in SUBSET Slots
    BY <1>2, <1>3, <1>12 DEF Silent, RequestTyped
  <2> QED  BY <1>1, <1>2, <1>5, <1>12, <2>1 DEF RequestTyped, Points
<1>13. CASE Silent(r) /\ Moves(r, "answered", ids[r], 1, {}, got[r])
  BY <1>1, <1>2, <1>13 DEF RequestTyped, Points
<1>14. CASE at[r] = "answered" /\ Moves(r, "idle", {}, 1, {}, {})
  <2>1. Cardinality({}) <= FailoverMax
    BY CodexAssumption, FS_EmptySet DEF CodexAssumption
  <2> QED  BY <1>1, <1>14, <2>1 DEF Points
<1>15. CASE at[r] = "hop" /\ Moves(r, "body", ids[r], send[r], lines[r], got[r])
  BY <1>1, <1>2, <1>15 DEF RequestTyped, Points
<1> QED  BY <1>6, <1>7, <1>8, <1>9, <1>10, <1>11, <1>12, <1>13, <1>14, <1>15 DEF StepKinds

LEMMA SlotsTypedStep ==
  ASSUME CodexTypeOK, [CodexNext]_codexVars
  PROVE  SlotsTyped'
<1>1. SlotsTyped /\ RequestsTyped
  BY CodexTypeParts
<1>2. \A s \in Slots : Synced(file[s]) \in File
  BY <1>1, FileFacts DEF SlotsTyped
<1>3. ASSUME NEW r \in Requests, Pick(r) PROVE SlotsTyped'
  BY <1>1, <1>2, <1>3 DEF Pick, SlotsTyped, codexKernelVars
<1>4. ASSUME NEW r \in Requests, Start(r) PROVE SlotsTyped'
  <2>1. Slot(r) \in Slots
    BY <1>1, <1>4, SlotIsLeft DEF Start, RequestsTyped, RequestTyped
  <2> QED  BY <1>1, <1>4, <2>1 DEF Start, SlotsTyped
<1>5. ASSUME NEW r \in Requests, Succeed(r) \/ Refuse(r) PROVE SlotsTyped'
  <2>1. Slot(r) \in Slots
    BY <1>1, <1>5, SlotIsLeft DEF Succeed, Refuse, RequestsTyped, RequestTyped
  <2>2. \E h \in {"none", "left", "spent"}, spent \in BOOLEAN :
          file' = [file EXCEPT ![Slot(r)] = Ingested(file[Slot(r)], h, spent)]
    <3>1. CASE Succeed(r)
      BY <3>1 DEF Succeed
    <3>2. CASE Refuse(r)
      <4>1. PICK kind \in {"quota", "auth", "other"}, h \in {"none", "left", "spent"} :
              file' = [file EXCEPT ![Slot(r)] =
                         Ingested(@, h, kind = "quota" /\ (kind # "other" /\ ~Emitted(r)))]
        BY <3>2 DEF Refuse
      <4> DEFINE spent == kind = "quota" /\ (kind # "other" /\ ~Emitted(r))
      <4>2. spent \in BOOLEAN
        BY Zenon
      <4> HIDE DEF spent
      <4>3. file' = [file EXCEPT ![Slot(r)] = Ingested(file[Slot(r)], h, spent)]
        BY <4>1 DEF spent
      <4> QED  BY <4>2, <4>3
    <3> QED  BY <1>5, <3>1, <3>2
  <2>3. UNCHANGED codexKernelVars
    BY <1>5 DEF Succeed, Refuse
  <2>4. \A h \in {"none", "left", "spent"}, spent \in BOOLEAN : Ingested(file[Slot(r)], h, spent) \in File
    BY <1>1, <2>1, FileFacts DEF SlotsTyped
  <2> QED  BY <1>1, <2>2, <2>3, <2>4 DEF SlotsTyped, codexKernelVars
<1>6. ASSUME UNCHANGED <<file, codexKernelVars>> PROVE SlotsTyped'
  BY <1>1, <1>6 DEF SlotsTyped, codexKernelVars
<1>7. ASSUME NEW r \in Requests, Healthy(r) \/ NotReady(r) \/ Headers(r) \/ TransportError(r) \/ Emit(r) \/ Leave(r)
      PROVE  SlotsTyped'
  BY <1>6, <1>7 DEF Healthy, NotReady, Headers, TransportError, Emit, Leave
<1>8. ASSUME NEW s \in Slots, Reconcile(s) PROVE SlotsTyped'
  BY <1>1, <1>2, <1>8 DEF Reconcile, SlotsTyped, codexKernelVars
<1>9. ASSUME NEW s \in Slots, ParkEnds(s) PROVE SlotsTyped'
  BY <1>1, <1>9 DEF ParkEnds, SlotsTyped, File, codexKernelVars
<1>10. ASSUME NEW s \in Volatile, OperatorSwitch(s) PROVE SlotsTyped'
  <2>1. PICK v \in {"on", "off"} : file' = [file EXCEPT ![s].switch = v]
    BY <1>10 DEF OperatorSwitch
  <2>2. s \in Slots /\ file[s] \in File
    BY <1>1, CodexAssumption DEF CodexAssumption, SlotsTyped
  <2>3. [file[s] EXCEPT !.switch = v] \in File
    BY <2>2 DEF File
  <2> QED  BY <1>1, <1>10, <2>1, <2>3 DEF OperatorSwitch, SlotsTyped, codexKernelVars
<1>11. ASSUME NEW s \in Volatile, Stop(s) PROVE SlotsTyped'
  <2> DEFINE f == [file[s] EXCEPT !.switch = "off", !.stopped = TRUE]
  <2>1. s \in Slots /\ file[s] \in File
    BY <1>1, CodexAssumption DEF CodexAssumption, SlotsTyped
  <2>2. f \in File
    BY <2>1 DEF File
  <2>3. file' = [file EXCEPT ![s] = f]
    BY <1>1, <1>11, <2>1 DEF Stop, SlotsTyped
  <2> HIDE DEF f
  <2> QED  BY <1>1, <1>11, <2>2, <2>3 DEF Stop, SlotsTyped
<1>12. ASSUME NEW s \in Volatile, Boots(s) PROVE SlotsTyped'
  BY <1>1, <1>12 DEF Boots, SlotsTyped
<1>13. ASSUME NEW s \in Volatile, Fails(s) PROVE SlotsTyped'
  BY <1>1, <1>13, CodexAssumption DEF CodexAssumption, Fails, SlotsTyped
<1> QED  BY <1>3, <1>4, <1>5, <1>6, <1>7, <1>8, <1>9, <1>10, <1>11, <1>12, <1>13
         DEF CodexNext, Step, Timed, codexVars

(* Every state of the Codex path has its type; a request under way always has *)
(* a slot to ask, and never more than CODEX_FAILOVER_MAX of them.             *)
THEOREM CodexTypeCorrect == CodexSpec => []CodexTypeOK
<1>1. CodexInit => CodexTypeOK
  <2>1. Cardinality({}) = 0 /\ FailoverMax \in Nat
    BY CodexAssumption, FS_EmptySet DEF CodexAssumption
  <2>2. NewFile("on") \in File /\ NewFile("leftover") \in File
    BY DEF NewFile, File
  <2>3. CodexInit => file \in [Slots -> File]
    BY <2>2 DEF CodexInit
  <2>4. CodexInit => up \in [Slots -> BOOLEAN]
    BY Zenon DEF CodexInit
  <2> QED  BY <2>1, <2>3, <2>4 DEF CodexInit, CodexTypeOK, Points
<1>2. CodexTypeOK /\ [CodexNext]_codexVars => CodexTypeOK'
  <2> SUFFICES ASSUME CodexTypeOK, [CodexNext]_codexVars PROVE CodexTypeOK'
    OBVIOUS
  <2>1. RequestsTyped /\ SlotsTyped'
    BY CodexTypeParts, SlotsTypedStep
  <2>2. RequestsTyped'
    <3>1. CASE UNCHANGED request
      BY <2>1, <3>1 DEF request, RequestsTyped, RequestTyped
    <3> QED  BY <2>1, <3>1, CodexSteps, RequestTypedStep
  <2> QED  BY <2>1, <2>2 DEF CodexTypeOK, SlotsTyped, RequestsTyped, RequestTyped
<1> QED  BY <1>1, <1>2, PTL DEF CodexSpec

-----------------------------------------------------------------------------
(* The Codex path: a request ends.                                            *)

UnderWay(r) == at[r] \in {"ensure", "boot", "hop", "body"}

(* How far a request is from its end: the slots it has left, and the stage    *)
(* with the current one.                                                      *)
Stage(r) ==
  CASE at[r] = "ensure" -> 6
    [] at[r] = "boot" -> 5
    [] at[r] = "hop" -> 6 - 2 * send[r]
    [] at[r] = "body" -> 5 - 2 * send[r]
    [] OTHER -> 0

Rank(r) == 7 * Cardinality(ids[r]) + Stage(r)

LEMMA SlotsLeft ==
  ASSUME RequestsTyped, NEW r \in Requests
  PROVE  /\ IsFiniteSet(ids[r]) /\ Cardinality(ids[r]) \in 0..FailoverMax /\ FailoverMax \in Nat
         /\ ids[r] # {} => /\ Slot(r) \in ids[r]
                           /\ Cardinality(ids[r] \ {Slot(r)}) = Cardinality(ids[r]) - 1
<1>1. ids[r] \in SUBSET Slots /\ Cardinality(ids[r]) <= FailoverMax
  BY DEF RequestsTyped, RequestTyped
<1>2. IsFiniteSet(ids[r]) /\ Cardinality(ids[r]) \in Nat /\ FailoverMax \in Nat
  BY <1>1, CodexAssumption, FS_Subset, FS_CardinalityType DEF CodexAssumption
<1>3. ids[r] # {} => Slot(r) \in ids[r]
  BY <1>1, SlotIsLeft
<1>4. ids[r] # {} => Cardinality(ids[r] \ {Slot(r)}) = Cardinality(ids[r]) - 1
  BY <1>2, <1>3, FS_RemoveElement
<1>5. Cardinality(ids[r]) \in 0..FailoverMax
  BY <1>1, <1>2
<1> QED  BY <1>2, <1>3, <1>4, <1>5

(* The rank after one kind of step.                                           *)
LEMMA RankAfter ==
  ASSUME RequestsTyped, NEW r \in Requests, NEW p \in Points, NEW l, NEW n \in {1, 2}, NEW L, NEW G,
         Moves(r, p, l, n, L, G)
  PROVE  Rank(r)' = 7 * Cardinality(l) + (IF p = "ensure" THEN 6 ELSE IF p = "boot" THEN 5
                                          ELSE IF p = "hop" THEN 6 - 2 * n
                                          ELSE IF p = "body" THEN 5 - 2 * n ELSE 0)
<1>1. at'[r] = p /\ ids'[r] = l /\ send'[r] = n
  BY MovesFacts
<1>2. Stage(r)' = IF p = "ensure" THEN 6 ELSE IF p = "boot" THEN 5
                  ELSE IF p = "hop" THEN 6 - 2 * n ELSE IF p = "body" THEN 5 - 2 * n ELSE 0
  BY <1>1 DEF Stage
<1> QED  BY <1>1, <1>2 DEF Rank

(* The steps of a request that has begun: lines that come back leave the rank *)
(* as it is, everything else brings it down.                                  *)
LEMMA RankStep ==
  ASSUME RequestsTyped, NEW r \in Requests, UnderWay(r), StepKinds(r)
  PROVE  Rank(r)' < Rank(r) \/ (Rank(r)' = Rank(r) /\ at' = at /\ ids' = ids /\ send' = send)
<1> DEFINE c == Cardinality(ids[r])
<1>1. /\ c \in Nat /\ send[r] \in {1, 2} /\ ids[r] # {} /\ Cardinality(ids[r] \ {Slot(r)}) = c - 1
  BY SlotsLeft DEF UnderWay, RequestsTyped, RequestTyped
<1>2. Rank(r) = 7 * c + (IF at[r] = "ensure" THEN 6 ELSE IF at[r] = "boot" THEN 5
                         ELSE IF at[r] = "hop" THEN 6 - 2 * send[r] ELSE 5 - 2 * send[r])
  BY DEF Rank, Stage, UnderWay
<1> HIDE DEF c
<1>3. CASE at[r] \in {"ensure", "boot"} /\ Moves(r, "hop", ids[r], send[r], lines[r], got[r])
  <2>1. Rank(r)' = 7 * c + (6 - 2 * send[r])
    BY <1>1, <1>3, RankAfter DEF c, Points
  <2> QED  BY <1>1, <1>2, <1>3, <2>1
<1>4. CASE at[r] = "ensure" /\ Moves(r, "boot", ids[r], send[r], lines[r], got[r])
  <2>1. Rank(r)' = 7 * c + 5
    BY <1>1, <1>4, RankAfter DEF c, Points
  <2> QED  BY <1>1, <1>2, <1>4, <2>1
<1>5. CASE at[r] = "body" /\ \E L, G : Moves(r, "body", ids[r], send[r], L, G)
  <2>1. Rank(r)' = 7 * c + (5 - 2 * send[r])
    BY <1>1, <1>5, RankAfter DEF c, Points
  <2>2. at' = at /\ ids' = ids /\ send' = send
    BY <1>5 DEF Moves, RequestsTyped
  <2> QED  BY <1>1, <1>2, <1>5, <2>1, <2>2
<1>6. CASE Sent(r) /\ send[r] = 1 /\ Moves(r, "hop", ids[r], 2, lines[r], got[r])
  <2>1. Rank(r)' = 7 * c + 2
    BY <1>1, <1>6, RankAfter DEF c, Points
  <2> QED  BY <1>1, <1>2, <1>6, <2>1 DEF Sent
<1>7. CASE \E n \in {1, 2} : \E L, G : Moves(r, "answered", ids[r], n, L, G)
  <2>1. Rank(r)' = 7 * c + 0
    BY <1>1, <1>7, RankAfter DEF c, Points
  <2> QED  BY <1>1, <1>2, <2>1
<1>8. CASE Silent(r) /\ Moves(r, "ensure", ids[r] \ {Slot(r)}, 1, {}, got[r])
  <2>1. Rank(r)' = 7 * (c - 1) + 6
    BY <1>1, <1>8, RankAfter DEF c, Points
  <2> QED  BY <1>1, <1>2, <1>8, <2>1 DEF Silent
<1>9. CASE at[r] = "hop" /\ Moves(r, "body", ids[r], send[r], lines[r], got[r])
  <2>1. Rank(r)' = 7 * c + (5 - 2 * send[r])
    BY <1>1, <1>9, RankAfter DEF c, Points
  <2> QED  BY <1>1, <1>2, <1>9, <2>1
<1> QED  BY <1>1, <1>3, <1>4, <1>5, <1>6, <1>7, <1>8, <1>9 DEF StepKinds, UnderWay

(* Step(r) is none of the steps that leave the rank as it is.                 *)
LEMMA StepMoves ==
  ASSUME RequestsTyped, NEW r \in Requests, Step(r)
  PROVE  at' # at \/ ids' # ids \/ send' # send
<1>1. at = [q \in Requests |-> at[q]] /\ send = [q \in Requests |-> send[q]]
  BY DEF RequestsTyped
<1>2. CASE Healthy(r) \/ Start(r) \/ Headers(r) \/ Succeed(r)
  BY <1>1, <1>2 DEF Healthy, Start, Headers, Succeed
<1>3. CASE TransportError(r)
  BY <1>1, <1>3 DEF TransportError, MayResend
<1>4. ASSUME at[r] \in {"boot", "body"}, Continue(r) PROVE at' # at
  BY <1>1, <1>4 DEF Continue
<1>5. CASE NotReady(r)
  BY <1>4, <1>5 DEF NotReady
<1>6. CASE Refuse(r)
  <2>1. at[r] = "body" /\ (Continue(r) \/ at' = [at EXCEPT ![r] = "answered"])
    BY <1>6 DEF Refuse
  <2> QED  BY <1>1, <1>4, <2>1
<1> QED  BY <1>2, <1>3, <1>5, <1>6 DEF Step, Timed

(* While a request is under way nothing sends it back: its rank is a number   *)
(* up to 7 * CODEX_FAILOVER_MAX + 6 that no step of anybody raises and that   *)
(* each of its own steps lowers, so it ends after that many steps of its own  *)
(* whatever the kernels, the panel and other requests do.  (Lines that come   *)
(* back are not steps of the loop.)  This is the argument of CodexSettles,    *)
(* for every number of slots; what it leaves to the model checker is that a   *)
(* step is always enabled and is taken, unless a body hangs.                  *)
THEOREM CodexProgress ==
  CodexSpec => [][\A r \in Requests : UnderWay(r) =>
                    /\ Rank(r) \in 0..(7 * FailoverMax + 6)
                    /\ Rank(r)' < Rank(r) \/ (Rank(r)' = Rank(r) /\ UNCHANGED <<at[r], ids[r], send[r]>>)
                    /\ Step(r) => Rank(r)' < Rank(r)]_codexVars
<1>1. ASSUME CodexTypeOK, [CodexNext]_codexVars, NEW r \in Requests, UnderWay(r)
      PROVE  /\ Rank(r) \in 0..(7 * FailoverMax + 6)
             /\ Rank(r)' < Rank(r) \/ (Rank(r)' = Rank(r) /\ UNCHANGED <<at[r], ids[r], send[r]>>)
             /\ Step(r) => Rank(r)' < Rank(r)
  <2>1. RequestsTyped
    BY <1>1, CodexTypeParts
  <2>2. Rank(r) \in 0..(7 * FailoverMax + 6)
    <3>1. Stage(r) \in 0..6
      BY <2>1 DEF Stage, RequestsTyped, RequestTyped
    <3>2. Cardinality(ids[r]) \in 0..FailoverMax /\ FailoverMax \in Nat
      BY <2>1, SlotsLeft
    <3> QED  BY <3>1, <3>2 DEF Rank
  <2>3. CASE StepKinds(r)
    <3>1. Rank(r)' < Rank(r) \/ (Rank(r)' = Rank(r) /\ at' = at /\ ids' = ids /\ send' = send)
      BY <1>1, <2>1, <2>3, RankStep
    <3>2. Step(r) => at' # at \/ ids' # ids \/ send' # send
      BY <2>1, StepMoves
    <3> QED  BY <2>2, <3>1, <3>2
  <2>4. CASE ~StepKinds(r)
    <3>1. at'[r] = at[r] /\ ids'[r] = ids[r] /\ send'[r] = send[r]
      <4>1. CASE UNCHANGED request
        BY <4>1 DEF request
      <4>2. ASSUME NEW q \in Requests, StepKinds(q)
            PROVE  at'[r] = at[r] /\ ids'[r] = ids[r] /\ send'[r] = send[r]
        <5>1. q # r
          BY <2>4, <4>2
        <5>2. \E p, l, n, L, G : Moves(q, p, l, n, L, G)
          BY <4>2 DEF StepKinds
        <5> QED  BY <2>1, <5>1, <5>2, MovesFacts
      <4> QED  BY <1>1, <2>1, <4>1, <4>2, CodexSteps
    <3>2. Rank(r)' = Rank(r)
      BY <3>1 DEF Rank, Stage
    <3>3. ~Step(r)
      BY <2>1, <2>4, RequestKinds
    <3> QED  BY <2>2, <3>1, <3>2, <3>3
  <2> QED  BY <2>3, <2>4
<1>2. CodexTypeOK /\ [CodexNext]_codexVars =>
        [\A r \in Requests : UnderWay(r) =>
                    /\ Rank(r) \in 0..(7 * FailoverMax + 6)
                    /\ Rank(r)' < Rank(r) \/ (Rank(r)' = Rank(r) /\ UNCHANGED <<at[r], ids[r], send[r]>>)
                    /\ Step(r) => Rank(r)' < Rank(r)]_codexVars
  BY <1>1
<1> QED  BY <1>2, CodexTypeCorrect, PTL DEF CodexSpec

-----------------------------------------------------------------------------
(* The Codex path: what its clients get.                                      *)

(* The lines a request has seen are those of its current send, and a client   *)
(* has none that were not seen; on the way to a slot there are none at all.   *)
CodexAnswers ==
  /\ \A r \in Requests :
       /\ at[r] \in {"idle", "ensure", "boot"} => lines[r] = {} /\ got[r] = {}
       /\ Sent(r) =>
            got[r] \subseteq lines[r] /\ lines[r] \subseteq {<<Slot(r), send[r]>>}
  /\ OneAnswer

(* One request moves.                                                         *)
LEMMA AnswersAfter ==
  ASSUME RequestsTyped, CodexAnswers, NEW r \in Requests, NEW p, NEW l, NEW n, NEW L, NEW G,
         Moves(r, p, l, n, L, G),
         p \in {"idle", "ensure", "boot"} => L = {} /\ G = {},
         p \in {"hop", "body"} => l = ids[r] /\ G \subseteq L /\ L \subseteq {<<Slot(r), n>>},
         \A x, y \in G : x = y
  PROVE  CodexAnswers'
<1>1. /\ at'[r] = p /\ ids'[r] = l /\ send'[r] = n /\ lines'[r] = L /\ got'[r] = G
      /\ \A q \in Requests : q # r => /\ at'[q] = at[q] /\ ids'[q] = ids[q] /\ send'[q] = send[q]
                                     /\ lines'[q] = lines[q] /\ got'[q] = got[q]
  BY MovesFacts
<1>2. p \in {"hop", "body"} => Slot(r)' = Slot(r)
  BY <1>1, SlotKept
<1>3. \A q \in Requests : q # r => Slot(q)' = Slot(q)
  BY <1>1, SlotKept
<1>4. OneAnswer'
  BY <1>1 DEF OneAnswer, CodexAnswers
<1> QED  BY <1>1, <1>2, <1>3, <1>4 DEF CodexAnswers, Sent

LEMMA CodexAnswersStep ==
  ASSUME RequestsTyped, CodexAnswers, NEW r \in Requests, StepKinds(r)
  PROVE  CodexAnswers'
<1>1. /\ at[r] \in {"idle", "ensure", "boot"} => lines[r] = {} /\ got[r] = {}
      /\ Sent(r) => got[r] \subseteq lines[r] /\ lines[r] \subseteq {<<Slot(r), send[r]>>}
      /\ \A x, y \in got[r] : x = y
  BY DEF CodexAnswers, OneAnswer
<1>2. CASE \E p, l : Moves(r, p, l, 1, {}, {}) /\ p \notin {"hop", "body"}
  BY <1>2, AnswersAfter
<1>3. CASE at[r] \in {"ensure", "boot"} /\ Moves(r, "hop", ids[r], send[r], lines[r], got[r])
  BY <1>1, <1>3, AnswersAfter
<1>4. CASE at[r] = "ensure" /\ Moves(r, "boot", ids[r], send[r], lines[r], got[r])
  BY <1>1, <1>4, AnswersAfter
<1>5. CASE at[r] = "body" /\ \E L \in {lines[r], lines[r] \cup {<<Slot(r), send[r]>>}} :
             \E G \in {got[r], got[r] \cup {<<Slot(r), send[r]>>}} :
               G \subseteq got[r] \cup L /\ Moves(r, "body", ids[r], send[r], L, G)
  <2>1. PICK L \in {lines[r], lines[r] \cup {<<Slot(r), send[r]>>}},
             G \in {got[r], got[r] \cup {<<Slot(r), send[r]>>}} :
               G \subseteq got[r] \cup L /\ Moves(r, "body", ids[r], send[r], L, G)
    BY <1>5
  <2>2. G \subseteq L /\ L \subseteq {<<Slot(r), send[r]>>}
    BY <1>1, <1>5, <2>1 DEF Sent
  <2>3. \A x, y \in G : x = y
    BY <2>2
  <2> QED  BY <2>1, <2>2, <2>3, AnswersAfter
<1>6. CASE Sent(r) /\ lines[r] = {} /\ Moves(r, "hop", ids[r], 2, lines[r], got[r])
  BY <1>1, <1>6, AnswersAfter
<1>7. CASE Sent(r) /\ \E G \in {got[r], lines[r]} : Moves(r, "answered", ids[r], send[r], lines[r], G)
  <2>1. PICK G \in {got[r], lines[r]} : Moves(r, "answered", ids[r], send[r], lines[r], G)
    BY <1>7
  <2>2. \A x, y \in G : x = y
    BY <1>1, <1>7
  <2> QED  BY <2>1, <2>2, AnswersAfter
<1>8. CASE Silent(r) /\ \E p \in {"ensure", "answered"} : \E l : Moves(r, p, l, 1, {}, got[r])
  <2>1. got[r] = {}
    BY <1>1, <1>8 DEF Silent, Sent
  <2> QED  BY <1>2, <1>8, <2>1
<1>9. CASE \E l : Moves(r, IF l = {} THEN "answered" ELSE "ensure", l, 1, {}, {})
  BY <1>2, <1>9
<1>10. CASE Moves(r, "idle", {}, 1, {}, {})
  BY <1>2, <1>10
<1>11. CASE at[r] = "hop" /\ Moves(r, "body", ids[r], send[r], lines[r], got[r])
  BY <1>1, <1>11, AnswersAfter DEF Sent
<1> QED  BY <1>3, <1>4, <1>5, <1>6, <1>7, <1>8, <1>9, <1>10, <1>11 DEF StepKinds

(* What a client gets comes from one send to one slot: runCodexKernelHop      *)
(* repeats, and isCodexFailoverError goes on to the next slot, only while no  *)
(* line of the current send has been seen, and by then the client has none.   *)
THEOREM CodexAnswerCorrect == CodexSpec => []OneAnswer
<1>1. CodexInit => CodexAnswers
  BY DEF CodexInit, CodexAnswers, Sent, OneAnswer
<1>2. CodexTypeOK /\ CodexAnswers /\ [CodexNext]_codexVars => CodexAnswers'
  <2> SUFFICES ASSUME CodexTypeOK, CodexAnswers, [CodexNext]_codexVars PROVE CodexAnswers'
    OBVIOUS
  <2>1. RequestsTyped
    BY CodexTypeParts
  <2>2. CASE UNCHANGED request
    <3>1. \A q \in Requests : Slot(q)' = Slot(q)
      BY <2>2, SlotKept DEF request
    <3> QED  BY <2>2, <3>1 DEF request, CodexAnswers, Sent, OneAnswer
  <2> QED  BY <2>1, <2>2, CodexSteps, CodexAnswersStep
<1>3. CodexAnswers => OneAnswer
  BY DEF CodexAnswers
<1> QED  BY <1>1, <1>2, <1>3, CodexTypeCorrect, PTL DEF CodexSpec
=============================================================================
