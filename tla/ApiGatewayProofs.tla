-------------------------- MODULE ApiGatewayProofs --------------------------
(* Machine-checked theorems about ApiGateway and its ApiKeys, for any finite  *)
(* sets of keys and requests, any users, caps, quotas and endpoints.          *)
EXTENDS ApiGateway, FiniteSetTheorems, TLAPS

-----------------------------------------------------------------------------
(* The inductive invariant.                                                   *)

Typed ==
  /\ exists \subseteq ApiKeyIds /\ row \in [ApiKeyIds -> Row]
  /\ inflight \in [ApiKeyIds -> Nat] /\ banned \in [ApiKeyIds -> BOOLEAN]
  /\ pc \in [Requests -> {"idle", "authed", "running", "failing"}]

IInv == Typed /\ InflightExact /\ NoStuckExhaustion /\ DisabledStays

-----------------------------------------------------------------------------
(* The row of a key.                                                          *)

(* What NoStuckExhaustion and DisabledStays say of one row.                   *)
Sound(k, w, off) ==
  /\ w.status = "quota_exhausted" => OverQuota(w) \/ OverRequests(k, w)
  /\ off => w.status = "disabled"

(* One row is written.                                                        *)
LEMMA RowStep ==
  ASSUME Typed, NoStuckExhaustion, DisabledStays, NEW k \in ApiKeyIds, NEW w \in Row,
         NEW off \in BOOLEAN, row' = [row EXCEPT ![k] = w], banned' = [banned EXCEPT ![k] = off],
         Sound(k, w, off), exists' = exists
  PROVE  /\ row' \in [ApiKeyIds -> Row] /\ banned' \in [ApiKeyIds -> BOOLEAN]
         /\ NoStuckExhaustion' /\ DisabledStays'
<1>1. /\ row' \in [ApiKeyIds -> Row] /\ banned' \in [ApiKeyIds -> BOOLEAN]
      /\ row'[k] = w /\ banned'[k] = off
      /\ \A x \in ApiKeyIds : x # k => row'[x] = row[x] /\ banned'[x] = banned[x]
  BY DEF Typed
<1>2. NoStuckExhaustion'
  BY <1>1 DEF Sound, NoStuckExhaustion, OverQuota, OverRequests, Typed
<1>3. DisabledStays'
  BY <1>1 DEF Sound, DisabledStays, Typed
<1> QED  BY <1>1, <1>2, <1>3

(* recordUsage: what is over its quota stays over it.                         *)
LEMMA ChargedFacts ==
  ASSUME NEW k \in ApiKeyIds, NEW w \in Row, NEW off \in BOOLEAN, NEW cost \in {0, 1}, Sound(k, w, off)
  PROVE  LET x == Exhausted([w EXCEPT !.spent = @ + cost, !.requests = @ + 1]) IN
         x \in Row /\ Sound(k, x, off)
<1> DEFINE v == [w EXCEPT !.spent = @ + cost, !.requests = @ + 1]
<1>1. /\ w.spent \in Nat /\ w.requests \in Nat /\ w.quota \in Nat /\ RequestQuota[k] \in Nat
  BY KeysAssumption DEF Row, KeysAssumption
<1>2. /\ v \in Row /\ v.status = w.status /\ v.quota = w.quota
      /\ v.spent = w.spent + cost /\ v.requests = w.requests + 1
  <2>1. w.spent + cost \in Nat /\ w.requests + 1 \in Nat
    BY <1>1
  <2>2. v = [w EXCEPT !.spent = w.spent + cost, !.requests = w.requests + 1]
    BY DEF Row
  <2> HIDE DEF v
  <2> QED  BY <2>1, <2>2 DEF Row
<1> HIDE DEF v
<1>3. (OverQuota(w) => OverQuota(v)) /\ (OverRequests(k, w) => OverRequests(k, v))
  BY <1>1, <1>2 DEF OverQuota, OverRequests
<1>4. CASE v.status = "active" /\ OverQuota(v)
  <2>1. Exhausted(v) = [v EXCEPT !.status = "quota_exhausted"]
    BY <1>4 DEF Exhausted
  <2>2. /\ Exhausted(v) \in Row /\ Exhausted(v).status = "quota_exhausted"
        /\ Exhausted(v).quota = v.quota /\ Exhausted(v).spent = v.spent
    BY <1>2, <2>1 DEF Row
  <2>3. OverQuota(Exhausted(v)) /\ ~off
    BY <1>2, <1>4, <2>2 DEF OverQuota, Sound
  <2> QED  BY <2>2, <2>3 DEF Sound, v
<1>5. CASE ~(v.status = "active" /\ OverQuota(v))
  <2>1. Exhausted(v) = v
    BY <1>5 DEF Exhausted
  <2>2. Sound(k, v, off)
    BY <1>2, <1>3 DEF Sound
  <2> QED  BY <1>2, <2>1, <2>2 DEF v
<1> QED  BY <1>4, <1>5

(* update: a row that is under its caps does not stay exhausted.              *)
LEMMA RecoveredFacts ==
  ASSUME NEW k \in ApiKeyIds, NEW v \in Row, NEW off \in BOOLEAN, NEW reset \in BOOLEAN,
         off => v.status = "disabled"
  PROVE  Recovered(k, v, reset) \in Row /\ Sound(k, Recovered(k, v, reset), off)
<1>1. CASE v.status = "quota_exhausted" /\ ~OverQuota(v) /\ ~OverRequests(k, v)
  <2>1. Recovered(k, v, reset) = [v EXCEPT !.status = "active"] /\ ~off
    BY <1>1 DEF Recovered
  <2> QED  BY <2>1 DEF Row, Sound
<1>2. CASE ~(v.status = "quota_exhausted" /\ ~OverQuota(v) /\ ~OverRequests(k, v))
  <2>1. Recovered(k, v, reset) = v
    BY <1>2 DEF Recovered
  <2> QED  BY <1>2, <2>1 DEF Sound
<1> QED  BY <1>1, <1>2

-----------------------------------------------------------------------------
(* The requests of a key.                                                     *)

LEMMA HoldingFinite ==
  ASSUME NEW k
  PROVE  IsFiniteSet(Holding(k)) /\ Cardinality(Holding(k)) \in Nat
<1>1. Holding(k) \subseteq Requests
  BY DEF Holding
<1>2. IsFiniteSet(Holding(k))
  BY <1>1, GatewayAssumption, FS_Subset DEF GatewayAssumption
<1> QED  BY <1>2, FS_CardinalityType

Runs == {"running", "failing"}

(* A request moves.                                                           *)
LEMMA HoldingAfter ==
  ASSUME Typed, NEW r \in Requests, NEW where \in {"idle", "authed", "running", "failing"}, Goto(r, where)
  PROVE  /\ pc' \in [Requests -> {"idle", "authed", "running", "failing"}]
         /\ \A k : k # KeyOf[r] => Holding(k)' = Holding(k)
         /\ where \in Runs => Holding(KeyOf[r])' = Holding(KeyOf[r]) \cup {r}
         /\ where \notin Runs => Holding(KeyOf[r])' = Holding(KeyOf[r]) \ {r}
         /\ r \in Holding(KeyOf[r]) <=> pc[r] \in Runs
BY DEF Typed, Goto, Holding, Runs

(* A step that neither starts nor ends a run, and leaves the keys alone.      *)
LEMMA QuietStep ==
  ASSUME IInv, NEW r \in Requests, NEW where \in {"idle", "authed", "running", "failing"},
         Goto(r, where), pc[r] \in Runs <=> where \in Runs, UNCHANGED keyVars
  PROVE  IInv'
<1>1. exists' = exists /\ row' = row /\ inflight' = inflight /\ banned' = banned
  BY DEF keyVars
<1>2. Typed' /\ \A k : Holding(k)' = Holding(k)
  <2>1. /\ pc' \in [Requests -> {"idle", "authed", "running", "failing"}]
        /\ \A k : k # KeyOf[r] => Holding(k)' = Holding(k)
        /\ Holding(KeyOf[r])' = Holding(KeyOf[r])
    BY HoldingAfter DEF IInv
  <2> QED  BY <1>1, <2>1 DEF IInv, Typed
<1>3. InflightExact'
  BY <1>1, <1>2 DEF IInv, InflightExact
<1>4. NoStuckExhaustion' /\ DisabledStays'
  BY <1>1 DEF IInv, NoStuckExhaustion, DisabledStays
<1> QED  BY <1>2, <1>3, <1>4 DEF IInv

LEMMA AcquireStep == ASSUME IInv, NEW r \in Requests, Acquire(r) PROVE IInv'
<1> DEFINE k == KeyOf[r]
<1>1. /\ pc[r] = "authed" /\ inflight' = [inflight EXCEPT ![k] = @ + 1] /\ UNCHANGED <<exists, row, banned>>
      /\ k \in ApiKeyIds
  BY GatewayAssumption DEF Acquire, Acquired, GatewayAssumption
<1>2. PICK where \in Runs : Goto(r, where)
  BY DEF Acquire, Runs
<1>3. /\ pc' \in [Requests -> {"idle", "authed", "running", "failing"}]
      /\ \A x : x # k => Holding(x)' = Holding(x)
      /\ Holding(k)' = Holding(k) \cup {r} /\ r \notin Holding(k)
  <2>1. where \in {"idle", "authed", "running", "failing"} /\ pc[r] \notin Runs
    BY <1>1, <1>2 DEF Runs
  <2> QED  BY <1>2, <2>1, HoldingAfter DEF IInv
<1> HIDE DEF k
<1>4. /\ inflight' \in [ApiKeyIds -> Nat] /\ inflight'[k] = inflight[k] + 1
      /\ \A x \in ApiKeyIds : x # k => inflight'[x] = inflight[x]
  BY <1>1 DEF IInv, Typed
<1>5. Typed'
  BY <1>1, <1>3, <1>4 DEF IInv, Typed
<1>6. Cardinality(Holding(k)') = Cardinality(Holding(k)) + 1
  BY <1>3, HoldingFinite, FS_AddElement
<1>7. InflightExact'
  <2> SUFFICES ASSUME NEW x \in exists PROVE inflight'[x] = Cardinality(Holding(x)')
    BY <1>1 DEF InflightExact
  <2>1. x \in ApiKeyIds /\ inflight[x] = Cardinality(Holding(x))
    BY DEF IInv, Typed, InflightExact
  <2>2. CASE x = k
    BY <1>4, <1>6, <2>1, <2>2
  <2>3. CASE x # k
    BY <1>3, <1>4, <2>1, <2>3
  <2> QED  BY <2>2, <2>3
<1>8. NoStuckExhaustion' /\ DisabledStays'
  BY <1>1 DEF IInv, NoStuckExhaustion, DisabledStays
<1> QED  BY <1>5, <1>7, <1>8 DEF IInv

LEMMA FinishStep == ASSUME IInv, NEW r \in Requests, Finish(r) PROVE IInv'
<1> DEFINE k == KeyOf[r]
<1>1. /\ pc[r] \in Runs /\ inflight' = (IF inflight[k] > 0 THEN [inflight EXCEPT ![k] = @ - 1] ELSE inflight)
      /\ UNCHANGED <<exists, banned>> /\ Goto(r, "idle") /\ k \in ApiKeyIds
  BY GatewayAssumption DEF Finish, Released, Runs, GatewayAssumption
<1>2. /\ pc' \in [Requests -> {"idle", "authed", "running", "failing"}]
      /\ \A x : x # k => Holding(x)' = Holding(x)
      /\ Holding(k)' = Holding(k) \ {r} /\ r \in Holding(k)
  <2>1. "idle" \in {"idle", "authed", "running", "failing"} /\ "idle" \notin Runs
    BY DEF Runs
  <2> QED  BY <1>1, <2>1, HoldingAfter DEF IInv
<1>3. row' = row \/ \E cost \in {0, 1} : row' = Charged(k, cost)
  BY DEF Finish, Costs
<1> HIDE DEF k
<1>4. /\ inflight[k] \in Nat /\ inflight' \in [ApiKeyIds -> Nat]
      /\ inflight[k] > 0 => inflight'[k] = inflight[k] - 1
      /\ \A x \in ApiKeyIds : x # k => inflight'[x] = inflight[x]
  BY <1>1 DEF IInv, Typed
<1>5. Cardinality(Holding(k)') = Cardinality(Holding(k)) - 1 /\ Cardinality(Holding(k)) > 0
  <2>1. IsFiniteSet(Holding(k)) /\ Cardinality(Holding(k)) \in Nat
    BY HoldingFinite
  <2>2. Cardinality(Holding(k) \ {r}) = Cardinality(Holding(k)) - 1
    BY <1>2, <2>1, FS_RemoveElement
  <2>3. Cardinality(Holding(k)) # 0
    BY <1>2, <2>1, FS_EmptySet
  <2>4. Cardinality(Holding(k)) > 0
    BY <2>1, <2>3
  <2> QED  BY <1>2, <2>2, <2>4
<1>6. InflightExact'
  <2> SUFFICES ASSUME NEW x \in exists PROVE inflight'[x] = Cardinality(Holding(x)')
    BY <1>1 DEF InflightExact
  <2>1. x \in ApiKeyIds /\ inflight[x] = Cardinality(Holding(x))
    BY DEF IInv, Typed, InflightExact
  <2>2. CASE x = k
    BY <1>4, <1>5, <2>1, <2>2
  <2>3. CASE x # k
    BY <1>2, <1>4, <2>1, <2>3
  <2> QED  BY <2>2, <2>3
<1>7. row' \in [ApiKeyIds -> Row] /\ NoStuckExhaustion' /\ DisabledStays'
  <2>1. CASE row' = row
    BY <1>1, <2>1 DEF IInv, Typed, NoStuckExhaustion, DisabledStays
  <2>2. ASSUME NEW cost \in {0, 1}, row' = Charged(k, cost), k \in exists
        PROVE  row' \in [ApiKeyIds -> Row] /\ NoStuckExhaustion' /\ DisabledStays'
    <3> DEFINE w == Exhausted([row[k] EXCEPT !.spent = @ + cost, !.requests = @ + 1])
    <3>1. row[k] \in Row /\ banned[k] \in BOOLEAN /\ Sound(k, row[k], banned[k])
      BY <1>1, <2>2 DEF IInv, Typed, Sound, NoStuckExhaustion, DisabledStays
    <3>2. w \in Row /\ Sound(k, w, banned[k])
      BY <1>1, <3>1, ChargedFacts
    <3>3. row' = [row EXCEPT ![k] = w] /\ banned' = [banned EXCEPT ![k] = banned[k]]
      <4>1. banned' = [banned EXCEPT ![k] = banned[k]]
        BY <1>1 DEF IInv, Typed
      <4>2. Charged(k, cost) = [row EXCEPT ![k] = w]
        BY <2>2, Zenon DEF Charged
      <4> QED  BY <2>2, <4>1, <4>2
    <3> HIDE DEF w
    <3> QED  BY <1>1, <3>1, <3>2, <3>3, RowStep DEF IInv
  <2> QED  BY <1>3, <2>1, <2>2 DEF Charged
<1>8. Typed'
  BY <1>1, <1>2, <1>4, <1>7 DEF IInv, Typed
<1> QED  BY <1>6, <1>7, <1>8 DEF IInv

-----------------------------------------------------------------------------
(* The panel.                                                                 *)

LEMMA PanelStep == ASSUME IInv, Administer, UNCHANGED pc PROVE IInv'
<1>1. PICK k \in ApiKeyIds :
        \/ \E status \in {"active", "disabled"} : SetStatus(k, status)
        \/ \E maxc \in Caps[k], quota \in Quotas[k], reset \in BOOLEAN : SetLimits(k, maxc, quota, reset)
        \/ RemoveKey(k)
  BY KeysAssumption DEF Administer, KeysAssumption
<1>2. row[k] \in Row /\ banned[k] \in BOOLEAN /\ Caps[k] \subseteq Nat /\ Quotas[k] \subseteq Nat
  BY KeysAssumption DEF IInv, Typed, KeysAssumption
<1>3. \A x : Holding(x)' = Holding(x)
  BY DEF Holding
<1>4. ASSUME NEW w \in Row, NEW off \in BOOLEAN, row' = [row EXCEPT ![k] = w],
             banned' = [banned EXCEPT ![k] = off], Sound(k, w, off), UNCHANGED <<exists, inflight>>
      PROVE  IInv'
  <2>1. /\ row' \in [ApiKeyIds -> Row] /\ banned' \in [ApiKeyIds -> BOOLEAN]
        /\ NoStuckExhaustion' /\ DisabledStays'
    BY <1>4, RowStep DEF IInv
  <2>2. InflightExact'
    BY <1>3, <1>4 DEF IInv, InflightExact
  <2> QED  BY <1>4, <2>1, <2>2 DEF IInv, Typed
<1>5. ASSUME NEW status \in {"active", "disabled"}, SetStatus(k, status) PROVE IInv'
  <2> DEFINE v == [row[k] EXCEPT !.status = status]
             off == (status = "disabled")
  <2>1. v \in Row /\ v.status = status
    BY <1>2 DEF Row
  <2>2. off \in BOOLEAN /\ FALSE \in BOOLEAN
    BY Zenon
  <2>3. /\ row' = [row EXCEPT ![k] = Recovered(k, v, FALSE)] /\ banned' = [banned EXCEPT ![k] = off]
        /\ UNCHANGED <<exists, inflight>>
    BY <1>5 DEF SetStatus
  <2>4. off => v.status = "disabled"
    BY <2>1
  <2> HIDE DEF v, off
  <2>5. Recovered(k, v, FALSE) \in Row /\ Sound(k, Recovered(k, v, FALSE), off)
    BY <2>1, <2>2, <2>4, RecoveredFacts
  <2> QED  BY <1>4, <2>2, <2>3, <2>5
<1>6. ASSUME NEW maxc \in Caps[k], NEW quota \in Quotas[k], NEW reset \in BOOLEAN,
             SetLimits(k, maxc, quota, reset)
      PROVE  IInv'
  <2> DEFINE u == [row[k] EXCEPT !.maxc = maxc, !.quota = quota]
             v == IF reset THEN [u EXCEPT !.spent = 0, !.requests = 0] ELSE u
  <2>1. v \in Row /\ v.status = row[k].status
    BY <1>2 DEF Row
  <2>2. k \in exists
    BY <1>6 DEF SetLimits
  <2>3. banned[k] => v.status = "disabled"
    BY <2>1, <2>2 DEF IInv, DisabledStays
  <2>4. row' = [row EXCEPT ![k] = Recovered(k, v, reset)] /\ UNCHANGED <<exists, inflight>>
    BY <1>6 DEF SetLimits
  <2>5. banned' = [banned EXCEPT ![k] = banned[k]]
    BY <1>6 DEF SetLimits, IInv, Typed
  <2> HIDE DEF v
  <2>6. Recovered(k, v, reset) \in Row /\ Sound(k, Recovered(k, v, reset), banned[k])
    BY <1>2, <2>1, <2>3, RecoveredFacts
  <2> QED  BY <1>2, <1>4, <2>4, <2>5, <2>6
<1>7. CASE RemoveKey(k)
  <2>1. /\ exists' = exists \ {k} /\ inflight' = [inflight EXCEPT ![k] = 0] /\ UNCHANGED <<row, banned>>
    BY <1>7 DEF RemoveKey
  <2>2. Typed'
    BY <2>1 DEF IInv, Typed
  <2>3. InflightExact'
    <3> SUFFICES ASSUME NEW x \in exists' PROVE inflight'[x] = Cardinality(Holding(x)')
      BY DEF InflightExact
    <3>1. x # k /\ x \in exists /\ x \in ApiKeyIds
      BY <2>1 DEF IInv, Typed
    <3> QED  BY <1>3, <2>1, <3>1 DEF IInv, Typed, InflightExact
  <2>4. NoStuckExhaustion' /\ DisabledStays'
    BY <2>1 DEF IInv, NoStuckExhaustion, DisabledStays
  <2> QED  BY <2>2, <2>3, <2>4 DEF IInv
<1> QED  BY <1>1, <1>5, <1>6, <1>7

-----------------------------------------------------------------------------
(* The invariant holds.                                                       *)

LEMMA InitHolds == Init => IInv
<1> SUFFICES ASSUME Init PROVE IInv
  OBVIOUS
<1>1. PICK maxc, quota \in [ApiKeyIds -> UNION {Caps[k] \cup Quotas[k] : k \in ApiKeyIds}] :
        /\ \A k \in ApiKeyIds : maxc[k] \in Caps[k] /\ quota[k] \in Quotas[k]
        /\ row = [k \in ApiKeyIds |-> [status |-> "active", maxc |-> maxc[k], quota |-> quota[k],
                                       spent |-> 0, requests |-> 0]]
  BY DEF Init, InitKeys
<1>2. ASSUME NEW k \in ApiKeyIds PROVE row[k] \in Row /\ row[k].status = "active"
  <2>1. maxc[k] \in Nat /\ quota[k] \in Nat
    BY <1>1, KeysAssumption DEF KeysAssumption
  <2> QED  BY <1>1, <2>1 DEF Row
<1>3. Typed
  BY <1>1, <1>2 DEF Init, InitKeys, Typed
<1>4. InflightExact
  <2> SUFFICES ASSUME NEW k \in ApiKeyIds PROVE inflight[k] = Cardinality(Holding(k))
    BY <1>3 DEF InflightExact, Typed
  <2>1. Holding(k) = {}
    BY DEF Init, Holding
  <2>2. Cardinality(Holding(k)) = 0
    BY <2>1, FS_EmptySet
  <2> QED  BY <2>2 DEF Init, InitKeys
<1>5. NoStuckExhaustion /\ DisabledStays
  BY <1>2 DEF Init, InitKeys, NoStuckExhaustion, DisabledStays
<1> QED  BY <1>3, <1>4, <1>5 DEF IInv

LEMMA NextHolds == IInv /\ [Next]_vars => IInv'
<1> SUFFICES ASSUME IInv, [Next]_vars PROVE IInv'
  OBVIOUS
<1>1. ASSUME UNCHANGED <<keyVars, requestVars>> PROVE IInv'
  BY <1>1 DEF keyVars, requestVars, IInv, Typed, InflightExact, Holding, NoStuckExhaustion, DisabledStays
<1>2. ASSUME NEW r \in Requests, Authenticate(r) \/ Refuse(r) \/ RateLimited(r) \/ RunFails(r)
      PROVE  IInv'
  <2>1. CASE Authenticate(r)
    <3>1. pc[r] = "idle" /\ Goto(r, "authed") /\ UNCHANGED keyVars
      BY <2>1 DEF Authenticate
    <3> QED  BY <3>1, QuietStep DEF Runs
  <2>2. CASE Refuse(r)
    <3>1. pc[r] = "authed" /\ Goto(r, "idle") /\ UNCHANGED keyVars
      BY <2>2 DEF Refuse
    <3> QED  BY <3>1, QuietStep DEF Runs
  <2>3. CASE RateLimited(r) \/ RunFails(r)
    <3>1. pc[r] = "running" /\ Goto(r, "failing") /\ UNCHANGED keyVars
      BY <2>3 DEF RateLimited, RunFails
    <3> QED  BY <3>1, QuietStep DEF Runs
  <2> QED  BY <1>2, <2>1, <2>2, <2>3
<1>3. CASE Next
  <2>1. CASE Administer /\ UNCHANGED <<schedulerVars, requestVars>>
    BY <2>1, PanelStep DEF requestVars
  <2>2. CASE (CoolingEnds \/ SwitchEndpoint) /\ UNCHANGED <<keyVars, requestVars>>
    BY <1>1, <2>2
  <2> QED  BY <1>2, <1>3, <2>1, <2>2, AcquireStep, FinishStep DEF Next
<1> QED  BY <1>1, <1>3 DEF vars

(* Every reachable state satisfies the inductive invariant.                   *)
THEOREM Inductive == Spec => []IInv
BY InitHolds, NextHolds, PTL DEF Spec

(* acquire and release of the handler keep the count of a key equal to the    *)
(* number of its running requests, on every path a request takes to its end   *)
(* and whatever the panel does to the key meanwhile, short of removing it.    *)
THEOREM InflightCorrect == Spec => []InflightExact
<1>1. IInv => InflightExact
  BY DEF IInv
<1> QED  BY <1>1, Inductive, PTL

(* recordUsage and update together never leave a key quota_exhausted that is  *)
(* under its quotas.                                                          *)
THEOREM ExhaustionCorrect == Spec => []NoStuckExhaustion
<1>1. IInv => NoStuckExhaustion
  BY DEF IInv
<1> QED  BY <1>1, Inductive, PTL

(* Neither the billing write of a late request nor the recovery at the end of *)
(* update takes a key out of the disabled status the operator gave it.        *)
THEOREM DisabledCorrect == Spec => []DisabledStays
<1>1. IInv => DisabledStays
  BY DEF IInv
<1> QED  BY <1>1, Inductive, PTL

-----------------------------------------------------------------------------
(* The cap of a user.                                                         *)

(* The running requests of the keys that the owner of k has.                  *)
OwnerRuns(k) ==
  {r \in Requests : KeyOf[r] \in exists /\ OwnerOf[KeyOf[r]] = OwnerOf[k] /\ pc[r] \in Runs}

LEMMA OwnerRunsFinite ==
  ASSUME NEW k
  PROVE  IsFiniteSet(OwnerRuns(k)) /\ Cardinality(OwnerRuns(k)) \in Nat
<1>1. IsFiniteSet(OwnerRuns(k))
  BY GatewayAssumption, FS_Subset DEF GatewayAssumption, OwnerRuns
<1> QED  BY <1>1, FS_CardinalityType

(* canAccept adds up the counts of the keys; the requests can be numbered     *)
(* within their keys, so there are no more of them than the sum says.         *)
LEMMA RunsCounted ==
  ASSUME IInv, NEW k
  PROVE  UserInflight(k) \in Nat /\ Cardinality(OwnerRuns(k)) <= UserInflight(k)
<1> DEFINE N == Cardinality(Requests)
           P == UNION {{x} \X (1..inflight[x]) : x \in {y \in exists : OwnerOf[y] = OwnerOf[k]}}
           g == [x \in exists |-> CHOOSE f : f \in Bijection(Holding(x), 1..inflight[x])]
           h == [r \in OwnerRuns(k) |-> <<KeyOf[r], g[KeyOf[r]][r]>>]
<1>1. IsFiniteSet(Requests) /\ N \in Nat /\ IsFiniteSet(ApiKeyIds) /\ exists \subseteq ApiKeyIds
  BY GatewayAssumption, KeysAssumption, FS_CardinalityType
     DEF GatewayAssumption, KeysAssumption, IInv, Typed
<1>2. ASSUME NEW x \in exists
      PROVE  /\ inflight[x] \in Nat /\ inflight[x] <= N
             /\ g[x] \in Bijection(Holding(x), 1..inflight[x])
  <2>1. inflight[x] = Cardinality(Holding(x)) /\ inflight[x] \in Nat /\ IsFiniteSet(Holding(x))
    BY <1>1, HoldingFinite DEF IInv, Typed, InflightExact
  <2>2. Holding(x) \in SUBSET Requests
    BY DEF Holding
  <2>3. inflight[x] <= N
    BY <1>1, <2>1, <2>2, FS_Subset
  <2>4. IsFiniteSet(1..inflight[x]) /\ Cardinality(1..inflight[x]) = inflight[x]
    BY <2>1, FS_Interval
  <2>5. ExistsBijection(Holding(x), 1..inflight[x])
    BY <2>1, <2>4, FS_SameCardinalityBij
  <2> QED  BY <2>1, <2>3, <2>5 DEF ExistsBijection
<1> HIDE DEF N, g
<1>3. P \in SUBSET (ApiKeyIds \X (1..N))
  BY <1>1, <1>2
<1>4. IsFiniteSet(P)
  <2>1. IsFiniteSet(1..N)
    BY <1>1, FS_Interval
  <2>2. IsFiniteSet(ApiKeyIds \X (1..N))
    BY <1>1, <2>1, FS_Product
  <2> QED  BY <1>3, <2>2, FS_Subset
<1>5. ASSUME NEW r \in OwnerRuns(k)
      PROVE  /\ KeyOf[r] \in exists /\ OwnerOf[KeyOf[r]] = OwnerOf[k] /\ r \in Holding(KeyOf[r])
             /\ g[KeyOf[r]][r] \in 1..inflight[KeyOf[r]]
  <2>1. KeyOf[r] \in exists /\ OwnerOf[KeyOf[r]] = OwnerOf[k] /\ r \in Holding(KeyOf[r])
    BY DEF OwnerRuns, Holding, Runs
  <2> QED  BY <1>2, <2>1 DEF Bijection, Injection
<1>6. h \in [OwnerRuns(k) -> P]
  BY <1>5
<1>7. ASSUME NEW r \in OwnerRuns(k), NEW q \in OwnerRuns(k), h[r] = h[q] PROVE r = q
  <2>1. KeyOf[r] = KeyOf[q] /\ g[KeyOf[r]][r] = g[KeyOf[r]][q]
    BY <1>7
  <2> QED  BY <1>2, <1>5, <2>1 DEF Bijection, Injection, IsInjective
<1>8. h \in Injection(OwnerRuns(k), P)
  BY <1>6, <1>7 DEF Injection, IsInjective
<1> HIDE DEF h, P
<1>9. Cardinality(P) \in Nat /\ Cardinality(OwnerRuns(k)) <= Cardinality(P)
  BY <1>4, <1>8, FS_Injection, FS_CardinalityType
<1> QED  BY <1>9 DEF UserInflight, P

(* The gate of acquire.                                                       *)
LEMMA AcquireWithinCap ==
  ASSUME IInv, UserWithinCap, NEW r \in Requests, Acquire(r)
  PROVE  UserWithinCap'
<1> SUFFICES ASSUME NEW k \in exists, UserCap[OwnerOf[k]] > 0
             PROVE  Cardinality(OwnerRuns(k)') <= UserCap[OwnerOf[k]]
  BY DEF UserWithinCap, OwnerRuns, Runs, Acquire
<1>1. exists' = exists /\ pc \in [Requests -> {"idle", "authed", "running", "failing"}]
  BY DEF Acquire, IInv, Typed
<1>2. Cardinality(OwnerRuns(k)) <= UserCap[OwnerOf[k]] /\ UserCap[OwnerOf[k]] \in Nat
  BY KeysAssumption DEF KeysAssumption, IInv, Typed, UserWithinCap, OwnerRuns, Runs
<1>3. \E where : pc' = [pc EXCEPT ![r] = where]
  BY DEF Acquire, Goto
<1>4. CASE OwnerOf[KeyOf[r]] = OwnerOf[k]
  <2>1. UserInflight(KeyOf[r]) = UserInflight(k)
    BY <1>4 DEF UserInflight
  <2>2. UserInflight(k) < UserCap[OwnerOf[k]]
    BY <1>4, <2>1 DEF Acquire, HasRoom
  <2>3. Cardinality(OwnerRuns(k)) < UserCap[OwnerOf[k]]
    BY <1>2, <2>2, RunsCounted, OwnerRunsFinite
  <2>4. OwnerRuns(k)' \in SUBSET (OwnerRuns(k) \cup {r})
    BY <1>1, <1>3 DEF OwnerRuns
  <2>5. /\ IsFiniteSet(OwnerRuns(k) \cup {r})
        /\ Cardinality(OwnerRuns(k) \cup {r}) <= Cardinality(OwnerRuns(k)) + 1
        /\ Cardinality(OwnerRuns(k) \cup {r}) \in Nat
    <3> DEFINE S == OwnerRuns(k)
    <3>1. IsFiniteSet(S) /\ Cardinality(S) \in Nat
      BY OwnerRunsFinite
    <3> HIDE DEF S
    <3>2. /\ IsFiniteSet(S \cup {r})
          /\ Cardinality(S \cup {r}) = IF r \in S THEN Cardinality(S) ELSE Cardinality(S) + 1
      BY <3>1, FS_AddElement
    <3>3. Cardinality(S \cup {r}) <= Cardinality(S) + 1 /\ Cardinality(S \cup {r}) \in Nat
      BY <3>1, <3>2
    <3> QED  BY <3>2, <3>3 DEF S
  <2>6. Cardinality(OwnerRuns(k)') <= Cardinality(OwnerRuns(k) \cup {r}) /\ Cardinality(OwnerRuns(k)') \in Nat
    BY <2>4, <2>5, FS_Subset, FS_CardinalityType
  <2> QED  BY <1>2, <2>3, <2>5, <2>6, OwnerRunsFinite
<1>5. CASE OwnerOf[KeyOf[r]] # OwnerOf[k]
  <2>1. OwnerRuns(k)' = OwnerRuns(k)
    BY <1>1, <1>3, <1>5 DEF OwnerRuns
  <2> QED  BY <1>2, <2>1
<1> QED  BY <1>4, <1>5

(* Every other step: no key comes back and no run begins.                     *)
LEMMA OtherWithinCap ==
  ASSUME IInv, UserWithinCap, exists' \subseteq exists,
         \A q \in Requests : pc'[q] \in Runs => pc[q] \in Runs
  PROVE  UserWithinCap'
<1> SUFFICES ASSUME NEW k \in exists', UserCap[OwnerOf[k]] > 0
             PROVE  Cardinality(OwnerRuns(k)') <= UserCap[OwnerOf[k]]
  BY DEF UserWithinCap, OwnerRuns, Runs
<1>1. Cardinality(OwnerRuns(k)) <= UserCap[OwnerOf[k]] /\ UserCap[OwnerOf[k]] \in Nat
  BY KeysAssumption DEF KeysAssumption, IInv, Typed, UserWithinCap, OwnerRuns, Runs
<1>2. OwnerRuns(k)' \in SUBSET OwnerRuns(k)
  BY DEF OwnerRuns
<1>3. Cardinality(OwnerRuns(k)') <= Cardinality(OwnerRuns(k)) /\ Cardinality(OwnerRuns(k)') \in Nat
  BY <1>2, OwnerRunsFinite, FS_Subset, FS_CardinalityType
<1> QED  BY <1>1, <1>3, OwnerRunsFinite

(* A user's cap holds over all the keys of the user: the second look of       *)
(* acquire at the counts is what admits, so the requests that were            *)
(* authenticated side by side cannot pass it together.                        *)
THEOREM UserCapCorrect == Spec => []UserWithinCap
<1>1. Init => UserWithinCap
  <2> SUFFICES ASSUME Init, NEW k \in exists, UserCap[OwnerOf[k]] > 0
               PROVE  Cardinality(OwnerRuns(k)) <= UserCap[OwnerOf[k]]
    BY DEF UserWithinCap, OwnerRuns, Runs
  <2>1. OwnerRuns(k) = {} /\ UserCap[OwnerOf[k]] \in Nat
    BY KeysAssumption DEF KeysAssumption, Init, InitKeys, OwnerRuns, Runs
  <2> QED  BY <2>1, FS_EmptySet
<1>2. IInv /\ UserWithinCap /\ [Next]_vars => UserWithinCap'
  <2> SUFFICES ASSUME IInv, UserWithinCap, [Next]_vars, \A r \in Requests : ~Acquire(r)
               PROVE  UserWithinCap'
    BY AcquireWithinCap
  <2>1. pc \in [Requests -> {"idle", "authed", "running", "failing"}]
    BY DEF IInv, Typed
  <2>2. ASSUME NEW r \in Requests, Authenticate(r) \/ Refuse(r) \/ Finish(r)
        PROVE  exists' = exists /\ \A q \in Requests : pc'[q] \in Runs => pc[q] \in Runs
    BY <2>1, <2>2 DEF Authenticate, Refuse, Finish, Goto, Runs, keyVars
  <2>3. ASSUME NEW r \in Requests, RateLimited(r) \/ RunFails(r)
        PROVE  exists' = exists /\ \A q \in Requests : pc'[q] \in Runs => pc[q] \in Runs
    BY <2>1, <2>3 DEF RateLimited, RunFails, Goto, Runs, keyVars
  <2>4. ASSUME Administer, UNCHANGED requestVars PROVE exists' \subseteq exists /\ pc' = pc
    BY <2>4 DEF Administer, SetStatus, SetLimits, RemoveKey, requestVars
  <2>5. ASSUME UNCHANGED <<keyVars, requestVars>> PROVE exists' = exists /\ pc' = pc
    BY <2>5 DEF keyVars, requestVars
  <2> QED  BY <2>2, <2>3, <2>4, <2>5, OtherWithinCap DEF Next, vars
<1> QED  BY <1>1, <1>2, Inductive, PTL DEF Spec

-----------------------------------------------------------------------------
(* Places in a list, and the cursor.                                          *)

(* The two rounds of the cursor that a pick can see.                          *)
LEMMA Rounds ==
  ASSUME NEW n \in Nat \ {0}, NEW a \in 0..(n - 1)
  PROVE  a % n = a /\ (a + n) % n = a
OBVIOUS

LEMMA RemainderType ==
  ASSUME NEW n \in Nat \ {0}, NEW a \in Nat
  PROVE  a % n \in 0..(n - 1)
OBVIOUS

(* An element of a finite list has a place in it, and no two share one.       *)
LEMMA TurnFacts ==
  ASSUME NEW S \in SUBSET Nat, IsFiniteSet(S), NEW x \in S
  PROVE  /\ Cardinality(S) \in Nat \ {0} /\ Turn(S, x) \in 0..(Cardinality(S) - 1)
         /\ \A y \in S : y < x => Turn(S, y) < Turn(S, x)
<1> DEFINE Below(z) == {y \in S : y < z}
<1>1. ASSUME NEW z \in S
      PROVE  IsFiniteSet(Below(z)) /\ Cardinality(Below(z)) \in Nat /\ z \notin Below(z)
  <2>1. Below(z) \in SUBSET S /\ z \notin Below(z)
    OBVIOUS
  <2> QED  BY <2>1, FS_Subset, FS_CardinalityType
<1>2. ASSUME NEW z \in S, NEW T \in SUBSET S, Below(z) \cup {z} \subseteq T
      PROVE  Cardinality(Below(z)) < Cardinality(T) /\ Cardinality(T) \in Nat
  <2>1. IsFiniteSet(T) /\ Cardinality(T) \in Nat
    BY FS_Subset, FS_CardinalityType
  <2>2. Cardinality(Below(z) \cup {z}) = Cardinality(Below(z)) + 1
    BY <1>1, FS_AddElement
  <2>3. Cardinality(Below(z) \cup {z}) <= Cardinality(T)
    <3>1. Below(z) \cup {z} \in SUBSET T
      BY <1>2
    <3> HIDE DEF Below
    <3> QED  BY <2>1, <3>1, FS_Subset
  <2> QED  BY <1>1, <2>1, <2>2, <2>3
<1>3. Cardinality(Below(x)) < Cardinality(S) /\ Cardinality(S) \in Nat
  <2>1. Below(x) \cup {x} \subseteq S
    OBVIOUS
  <2> QED  BY <1>2, <2>1
<1>4. ASSUME NEW y \in S, y < x PROVE Cardinality(Below(y)) < Cardinality(Below(x))
  <2>1. Below(y) \cup {y} \subseteq Below(x) /\ Below(x) \in SUBSET S
    <3>1. ASSUME NEW z \in Below(y) PROVE z \in Below(x)
      <4>1. z \in S /\ z \in Nat /\ x \in Nat /\ y \in Nat /\ z < y
        OBVIOUS
      <4>2. z < x
        BY <1>4, <4>1
      <4> QED  BY <4>1, <4>2
    <3> QED  BY <1>4, <3>1
  <2> QED  BY <1>2, <2>1
<1> QED  BY <1>1, <1>3, <1>4 DEF Turn

LEMMA TurnInjective ==
  ASSUME NEW S \in SUBSET Nat, IsFiniteSet(S), NEW x \in S, NEW y \in S, x # y
  PROVE  Turn(S, x) # Turn(S, y)
<1>1. Turn(S, x) \in Nat /\ Turn(S, y) \in Nat /\ (x < y \/ y < x)
  BY TurnFacts
<1> QED  BY <1>1, TurnFacts

-----------------------------------------------------------------------------
(* The types.                                                                 *)

LEMMA ParentsFacts ==
  ASSUME NEW m \in Models
  PROVE  /\ Parents(m) \in SUBSET Nat /\ Parents(m) \subseteq Endpoints /\ IsFiniteSet(Parents(m))
         /\ Ready(m) \subseteq Parents(m)
<1>1. Parents(m) \in SUBSET Endpoints /\ Endpoints \subseteq Nat /\ IsFiniteSet(Endpoints)
  BY SchedulerAssumption DEF SchedulerAssumption, Parents
<1>2. IsFiniteSet(Parents(m))
  BY <1>1, FS_Subset
<1> QED  BY <1>1, <1>2 DEF Ready

(* The numbers of a pick of e for m.                                          *)
LEMMA PickNumbers ==
  ASSUME parentCursor \in Nat, NEW m \in Models, NEW e \in Parents(m)
  PROVE  LET n == Cardinality(Parents(m)) IN
         /\ n \in Nat \ {0} /\ Start(m) \in 0..(n - 1)
         /\ Turn(Parents(m), e) \in 0..(n - 1)
         /\ Offset(m, e) \in 0..(n - 1)
         /\ Offset(m, e) = IF Start(m) <= Turn(Parents(m), e)
                           THEN Turn(Parents(m), e) - Start(m)
                           ELSE Turn(Parents(m), e) + n - Start(m)
         /\ NextParent(m, Offset(m, e)) \in Nat
         /\ NextParent(m, Offset(m, e)) % n = (Turn(Parents(m), e) + 1) % n
<1> DEFINE n == Cardinality(Parents(m))
           t == Turn(Parents(m), e)
           s == Start(m)
<1>1. n \in Nat \ {0} /\ t \in 0..(n - 1)
  BY ParentsFacts, TurnFacts
<1>2. s \in 0..(n - 1)
  BY <1>1, RemainderType DEF Start
<1>3. Offset(m, e) = (t + n - s) % n /\ NextParent(m, Offset(m, e)) = s + Offset(m, e) + 1
  BY DEF Offset, NextParent
<1> HIDE DEF n, t, s
<1>4. CASE s <= t
  <2>1. t - s \in 0..(n - 1) /\ t + n - s = (t - s) + n
    BY <1>1, <1>2, <1>4
  <2>2. Offset(m, e) = t - s
    BY <1>1, <1>3, <2>1, Rounds
  <2>3. s + (t - s) + 1 = t + 1 /\ t + 1 \in Nat
    BY <1>1, <1>2
  <2> QED  BY <1>1, <1>2, <1>3, <1>4, <2>1, <2>2, <2>3 DEF n, t, s
<1>5. CASE ~(s <= t)
  <2>1. t + n - s \in 0..(n - 1)
    BY <1>1, <1>2, <1>5
  <2>2. Offset(m, e) = t + n - s
    BY <1>1, <1>3, <2>1, Rounds
  <2>3. s + (t + n - s) + 1 = (t + 1) + n /\ t + 1 \in 0..(n - 1) /\ (t + 1) + n \in Nat
    BY <1>1, <1>2, <1>5
  <2>4. ((t + 1) + n) % n = (t + 1) % n
    BY <1>1, <2>3, Rounds
  <2> QED  BY <1>1, <1>2, <1>3, <1>5, <2>1, <2>2, <2>3, <2>4 DEF n, t, s
<1> QED  BY <1>4, <1>5

(* What a pick that finds an endpoint does.                                   *)
LEMMA PickFacts ==
  ASSUME TypeOK, NEW m \in Models, NEW p, p # NoPick, Pick(m, p)
  PROVE  \E e \in Ready(m), u \in UpstreamKeys :
           /\ p = [endpoint |-> e, key |-> u] /\ e \in Endpoints /\ u \in EndpointKeys[e]
           /\ \A x \in Ready(m) : Offset(m, e) <= Offset(m, x)
           /\ parentCursor' = NextParent(m, Offset(m, e)) /\ parentCursor' \in Nat
           /\ childCursor' \in [Endpoints -> 0..(Wrap - 1)]
           /\ last' = [model |-> m, endpoint |-> e]
           /\ offline' = offline /\ cooled' = cooled
<1>1. PICK e \in Ready(m) :
        /\ \A x \in Ready(m) : Offset(m, e) <= Offset(m, x)
        /\ \E u \in ReadyKeys(e) : p = [endpoint |-> e, key |-> u]
        /\ parentCursor' = NextParent(m, Offset(m, e))
        /\ childCursor' = [childCursor EXCEPT ![e] = (@ + 1) % Wrap]
        /\ last' = [model |-> m, endpoint |-> e]
        /\ UNCHANGED <<offline, cooled>>
  BY DEF Pick
<1>2. e \in Parents(m) /\ e \in Endpoints
  BY ParentsFacts
<1>3. PICK u \in ReadyKeys(e) : p = [endpoint |-> e, key |-> u]
  BY <1>1
<1>4. u \in EndpointKeys[e] /\ u \in UpstreamKeys
  BY <1>2 DEF ReadyKeys, UpstreamKeys
<1>5. parentCursor' \in Nat
  BY <1>1, <1>2, PickNumbers DEF TypeOK
<1>6. childCursor' \in [Endpoints -> 0..(Wrap - 1)]
  <2>1. childCursor[e] \in Nat /\ Wrap \in Nat \ {0}
    BY <1>2, SchedulerAssumption DEF SchedulerAssumption, TypeOK
  <2>2. (childCursor[e] + 1) % Wrap \in 0..(Wrap - 1)
    BY <2>1, RemainderType
  <2> QED  BY <1>1, <2>2 DEF TypeOK
<1> QED  BY <1>1, <1>2, <1>3, <1>4, <1>5, <1>6

(* The scheduler's part of TypeOK, and that of the picks and the records.     *)
Choices == [endpoint : Endpoints, key : UpstreamKeys]

SchedulerTyped ==
  /\ offline \subseteq Endpoints /\ cooled \subseteq UpstreamKeys
  /\ parentCursor \in Nat /\ childCursor \in [Endpoints -> 0..(Wrap - 1)]
  /\ last \in [model : Models, endpoint : Endpoints] \cup {NoPick}

PicksTyped ==
  /\ record \in [Requests -> Nat] /\ pick \in [Requests -> Choices \cup {NoPick}]
  /\ \A r \in Requests : pick[r] # NoPick => pick[r].key \in EndpointKeys[pick[r].endpoint]

LEMMA TypeParts == TypeOK <=> Typed /\ SchedulerTyped /\ PicksTyped
BY DEF TypeOK, Typed, SchedulerTyped, PicksTyped, Choices

(* The records and picks of one request are written.                          *)
LEMMA PicksAfter ==
  ASSUME PicksTyped, NEW r \in Requests, NEW n \in Nat, NEW p \in Choices \cup {NoPick},
         p # NoPick => p.key \in EndpointKeys[p.endpoint],
         record' = [record EXCEPT ![r] = n], pick' = [pick EXCEPT ![r] = p]
  PROVE  PicksTyped'
BY DEF PicksTyped

(* A pick that finds nothing leaves the cursors where they are.               *)
LEMMA NothingPicked == ASSUME NEW m \in Models, Pick(m, NoPick) PROVE UNCHANGED schedulerVars
<1>1. ASSUME NEW e \in Ready(m), NEW u \in ReadyKeys(e), NoPick = [endpoint |-> e, key |-> u]
      PROVE  FALSE
  <2>1. NoPick \in Choices
    BY <1>1, ParentsFacts DEF Choices, UpstreamKeys, ReadyKeys
  <2> QED  BY <2>1, SchedulerAssumption DEF SchedulerAssumption, Choices
<1> QED  BY <1>1 DEF Pick

LEMMA AcquireTyped == ASSUME TypeOK, NEW r \in Requests, Acquire(r) PROVE SchedulerTyped' /\ PicksTyped'
<1>1. record' = [record EXCEPT ![r] = 0] /\ 0 \in Nat
  BY DEF Acquire
<1>2. CASE ModelOf[r] = Pool
  <2>1. UNCHANGED schedulerVars /\ pick' = pick
    BY <1>2 DEF Acquire
  <2> QED  BY <1>1, <2>1, TypeParts DEF SchedulerTyped, PicksTyped, schedulerVars
<1>3. CASE ModelOf[r] # Pool
  <2>1. PICK p \in Choices \cup {NoPick} : Pick(ModelOf[r], p) /\ pick' = [pick EXCEPT ![r] = p]
    BY <1>3 DEF Acquire, Choices
  <2>2. ModelOf[r] \in Models
    BY <1>3, GatewayAssumption DEF GatewayAssumption
  <2>3. CASE p = NoPick
    <3>1. UNCHANGED schedulerVars
      BY <2>1, <2>2, <2>3, NothingPicked
    <3> QED  BY <1>1, <2>1, <2>3, <3>1, TypeParts, PicksAfter DEF SchedulerTyped, schedulerVars
  <2>4. CASE p # NoPick
    <3>1. PICK e \in Ready(ModelOf[r]), u \in UpstreamKeys :
            /\ p = [endpoint |-> e, key |-> u] /\ e \in Endpoints /\ u \in EndpointKeys[e]
            /\ parentCursor' \in Nat /\ childCursor' \in [Endpoints -> 0..(Wrap - 1)]
            /\ last' = [model |-> ModelOf[r], endpoint |-> e]
            /\ offline' = offline /\ cooled' = cooled
      BY <2>1, <2>2, <2>4, PickFacts
    <3>2. SchedulerTyped'
      BY <2>2, <3>1, TypeParts DEF SchedulerTyped
    <3>3. PicksTyped'
      BY <1>1, <2>1, <3>1, TypeParts, PicksAfter
    <3> QED  BY <3>2, <3>3
  <2> QED  BY <2>3, <2>4
<1> QED  BY <1>2, <1>3

LEMMA TypeStep == ASSUME TypeOK, IInv', [Next]_vars PROVE TypeOK'
<1>1. Typed' /\ Typed /\ SchedulerTyped /\ PicksTyped
  BY TypeParts DEF IInv
<1> SUFFICES SchedulerTyped' /\ PicksTyped'
  BY <1>1 DEF TypeOK, Typed, SchedulerTyped, PicksTyped, Choices
<1>2. ASSUME UNCHANGED schedulerVars PROVE SchedulerTyped'
  BY <1>1, <1>2 DEF SchedulerTyped, schedulerVars
<1>3. ASSUME UNCHANGED <<record, pick>> PROVE PicksTyped'
  BY <1>1, <1>3 DEF PicksTyped
<1>4. ASSUME NEW r \in Requests, Authenticate(r) PROVE SchedulerTyped' /\ PicksTyped'
  <2>1. row[KeyOf[r]].maxc \in Nat
    BY <1>1, GatewayAssumption DEF GatewayAssumption, Typed, Row
  <2>2. PicksTyped'
    BY <1>1, <1>4, <2>1 DEF Authenticate, PicksTyped
  <2> QED  BY <1>1, <1>2, <1>4, <2>2 DEF Authenticate
<1>5. ASSUME NEW r \in Requests, Refuse(r) \/ Finish(r) PROVE SchedulerTyped' /\ PicksTyped'
  <2>1. Forget(r) /\ UNCHANGED schedulerVars
    BY <1>5 DEF Refuse, Finish
  <2>2. PicksTyped'
    BY <1>1, <2>1, PicksAfter DEF Forget
  <2> QED  BY <1>1, <1>2, <2>1, <2>2
<1>6. ASSUME NEW r \in Requests, RateLimited(r) PROVE SchedulerTyped' /\ PicksTyped'
  <2>1. pick[r] \in Choices /\ Cool(pick[r]) /\ UNCHANGED <<record, pick>>
    BY <1>1, <1>6 DEF RateLimited, PicksTyped
  <2>2. SchedulerTyped'
    BY <1>1, <2>1 DEF Cool, Choices, SchedulerTyped
  <2> QED  BY <1>1, <1>3, <2>1, <2>2
<1>7. ASSUME NEW r \in Requests, RunFails(r) PROVE SchedulerTyped' /\ PicksTyped'
  BY <1>1, <1>2, <1>3, <1>7 DEF RunFails
<1>8. ASSUME CoolingEnds \/ SwitchEndpoint, UNCHANGED requestVars PROVE SchedulerTyped' /\ PicksTyped'
  <2>1. SchedulerTyped'
    BY <1>1, <1>8, SchedulerAssumption DEF SchedulerAssumption, CoolingEnds, SwitchEndpoint, SchedulerTyped
  <2> QED  BY <1>1, <1>3, <1>8, <2>1 DEF requestVars
<1>9. ASSUME UNCHANGED <<schedulerVars, requestVars>> PROVE SchedulerTyped' /\ PicksTyped'
  BY <1>1, <1>2, <1>3, <1>9 DEF requestVars
<1>10. ASSUME NEW r \in Requests, Acquire(r) PROVE SchedulerTyped' /\ PicksTyped'
  BY <1>1, <1>10, AcquireTyped
<1> QED  BY <1>4, <1>5, <1>6, <1>7, <1>8, <1>9, <1>10 DEF Next, vars

(* Every state has its type: the cursors stay in range and a request is sent  *)
(* to a key of the endpoint it was given.                                     *)
THEOREM TypeCorrect == Spec => []TypeOK
<1>1. Init => TypeOK
  <2> SUFFICES ASSUME Init PROVE TypeOK
    OBVIOUS
  <2>1. Typed
    BY InitHolds DEF IInv
  <2>2. Wrap \in Nat \ {0}
    BY SchedulerAssumption DEF SchedulerAssumption
  <2>3. SchedulerTyped /\ PicksTyped
    BY <2>2 DEF Init, InitScheduler, SchedulerTyped, PicksTyped
  <2> QED  BY <2>1, <2>3, TypeParts
<1> QED  BY <1>1, TypeStep, Inductive, PTL DEF Spec

-----------------------------------------------------------------------------
(* Round robin.                                                               *)

(* The cursor stands behind the endpoint that was taken last, counted in the  *)
(* list of the model it was taken for.                                        *)
InTurn ==
  last # NoPick =>
    /\ last.endpoint \in Parents(last.model)
    /\ LET P == Parents(last.model)
       IN parentCursor % Cardinality(P) = (Turn(P, last.endpoint) + 1) % Cardinality(P)

LEMMA InTurnStep == ASSUME TypeOK, InTurn, [Next]_vars PROVE InTurn'
<1>1. ASSUME UNCHANGED <<offline, parentCursor, last>> PROVE InTurn'
  BY <1>1 DEF InTurn, Parents
<1>2. ASSUME NEW m \in Models, NEW p, p # NoPick, Pick(m, p) PROVE InTurn'
  <2>1. PICK e \in Ready(m) :
          /\ parentCursor' = NextParent(m, Offset(m, e))
          /\ last' = [model |-> m, endpoint |-> e] /\ offline' = offline
    BY <1>2, PickFacts
  <2>2. e \in Parents(m) /\ Parents(m)' = Parents(m)
    BY <2>1, ParentsFacts DEF Parents
  <2>3. parentCursor' % Cardinality(Parents(m)) = (Turn(Parents(m), e) + 1) % Cardinality(Parents(m))
    BY <2>1, <2>2, PickNumbers DEF TypeOK
  <2>4. last'.model = m /\ last'.endpoint = e
    BY <2>1
  <2> QED  BY <2>2, <2>3, <2>4 DEF InTurn, Turn, Parents
<1>3. ASSUME NEW r \in Requests, Acquire(r) PROVE InTurn'
  <2>1. CASE ModelOf[r] = Pool
    BY <1>1, <1>3, <2>1 DEF Acquire, schedulerVars
  <2>2. CASE ModelOf[r] # Pool
    <3>1. PICK p : Pick(ModelOf[r], p)
      BY <1>3, <2>2 DEF Acquire
    <3>2. ModelOf[r] \in Models
      BY <2>2, GatewayAssumption DEF GatewayAssumption
    <3>3. CASE p # NoPick
      BY <1>2, <3>1, <3>2, <3>3
    <3>4. CASE p = NoPick
      BY <1>1, <3>1, <3>2, <3>4, NothingPicked DEF schedulerVars
    <3> QED  BY <3>3, <3>4
  <2> QED  BY <2>1, <2>2
<1>4. ASSUME NEW r \in Requests, Authenticate(r) \/ Refuse(r) \/ RateLimited(r) \/ RunFails(r) \/ Finish(r)
      PROVE  InTurn'
  BY <1>1, <1>4 DEF Authenticate, Refuse, RateLimited, Cool, RunFails, Finish, schedulerVars
<1>5. ASSUME CoolingEnds \/ SwitchEndpoint PROVE InTurn'
  BY <1>1, <1>5 DEF CoolingEnds, SwitchEndpoint, InTurn
<1>6. ASSUME UNCHANGED schedulerVars PROVE InTurn'
  BY <1>1, <1>6 DEF schedulerVars
<1> QED  BY <1>3, <1>4, <1>5, <1>6 DEF Next, vars

(* The endpoint behind the cursor is the last the loop of pick comes to.      *)
LEMMA LastComesLast ==
  ASSUME TypeOK, InTurn, last # NoPick, NEW m \in Models, last.model = m,
         NEW x \in Parents(m), x # last.endpoint
  PROVE  Offset(m, x) < Offset(m, last.endpoint)
<1> DEFINE n == Cardinality(Parents(m))
           s == Start(m)
           t == Turn(Parents(m), last.endpoint)
           v == Turn(Parents(m), x)
<1>1. last.endpoint \in Parents(m) /\ s = (t + 1) % n
  BY DEF InTurn, Start
<1>2. /\ n \in Nat \ {0} /\ s \in 0..(n - 1) /\ t \in 0..(n - 1) /\ v \in 0..(n - 1)
      /\ Offset(m, last.endpoint) = (IF s <= t THEN t - s ELSE t + n - s)
      /\ Offset(m, x) = (IF s <= v THEN v - s ELSE v + n - s)
  BY <1>1, PickNumbers DEF TypeOK
<1>3. t # v
  BY <1>1, ParentsFacts, TurnInjective
<1> HIDE DEF n, s, t, v
<1>4. CASE t = n - 1
  <2>1. 0 \in 0..(n - 1) /\ t + 1 = 0 + n
    BY <1>2, <1>4
  <2>2. s = 0
    BY <1>1, <1>2, <2>1, Rounds
  <2> QED  BY <1>2, <1>3, <1>4, <2>2
<1>5. CASE t # n - 1
  <2>1. t + 1 \in 0..(n - 1)
    BY <1>2, <1>5
  <2>2. s = t + 1
    BY <1>1, <1>2, <2>1, Rounds
  <2> QED  BY <1>2, <1>3, <2>2
<1> QED  BY <1>4, <1>5

(* Only acquire gives a request an endpoint.                                  *)
LEMMA PicksByAcquire ==
  ASSUME TypeOK, [Next]_vars, NEW r \in Requests, pick[r] = NoPick, pick'[r] # NoPick
  PROVE  ModelOf[r] \in Models /\ Pick(ModelOf[r], pick'[r])
<1>1. pick \in [Requests -> Choices \cup {NoPick}]
  BY TypeParts DEF PicksTyped
<1>2. ASSUME NEW q \in Requests, Authenticate(q) \/ Refuse(q) \/ RateLimited(q) \/ RunFails(q) \/ Finish(q)
      PROVE  FALSE
  BY <1>1, <1>2 DEF Authenticate, Refuse, RateLimited, RunFails, Finish, Forget
<1>3. ~UNCHANGED requestVars
  BY DEF requestVars
<1>4. PICK q \in Requests : Acquire(q)
  BY <1>2, <1>3 DEF Next, vars
<1>5. ModelOf[q] # Pool
  BY <1>4 DEF Acquire
<1>6. PICK p : Pick(ModelOf[q], p) /\ pick' = [pick EXCEPT ![q] = p]
  BY <1>4, <1>5 DEF Acquire
<1>7. q = r /\ pick'[r] = p
  BY <1>1, <1>6
<1> QED  BY <1>5, <1>6, <1>7, GatewayAssumption DEF GatewayAssumption

(* pick does not ask the endpoint again that it took last for this model      *)
(* while another one is ready, for any number of endpoints and keys, whatever *)
(* was cooled or freed in between and although the cursor is shared by models *)
(* that are served by different endpoints.                                    *)
THEOREM RoundRobinCorrect == Spec => RoundRobin
<1>1. Init => InTurn
  BY DEF Init, InitScheduler, InTurn
<1>2. ASSUME TypeOK, InTurn, [Next]_vars
      PROVE  [\A r \in Requests :
                 /\ pick[r] = NoPick /\ pick'[r] # NoPick
                 /\ last # NoPick /\ last.model = ModelOf[r] /\ Cardinality(Ready(ModelOf[r])) > 1
                 => pick'[r].endpoint # last.endpoint]_vars
  <2> SUFFICES ASSUME NEW r \in Requests, pick[r] = NoPick, pick'[r] # NoPick,
                      last # NoPick, last.model = ModelOf[r], Cardinality(Ready(ModelOf[r])) > 1
               PROVE  pick'[r].endpoint # last.endpoint
    OBVIOUS
  <2>1. ModelOf[r] \in Models /\ Pick(ModelOf[r], pick'[r])
    BY <1>2, PicksByAcquire
  <2>2. PICK e \in Ready(ModelOf[r]), u \in UpstreamKeys :
          /\ pick'[r] = [endpoint |-> e, key |-> u]
          /\ \A x \in Ready(ModelOf[r]) : Offset(ModelOf[r], e) <= Offset(ModelOf[r], x)
    BY <1>2, <2>1, PickFacts
  <2>3. pick'[r].endpoint = e
    BY <2>2
  <2>4. PICK x \in Ready(ModelOf[r]) : x # e
    <3> SUFFICES ASSUME \A x \in Ready(ModelOf[r]) : x = e PROVE FALSE
      OBVIOUS
    <3>1. Ready(ModelOf[r]) = {e}
      OBVIOUS
    <3>2. Cardinality({e}) = 1
      BY FS_Singleton
    <3>3. Cardinality(Ready(ModelOf[r])) = 1
      BY <3>1, <3>2
    <3> QED  BY <3>3
  <2>5. /\ x \in Parents(ModelOf[r]) /\ e \in Parents(ModelOf[r])
        /\ Offset(ModelOf[r], x) \in Nat /\ Offset(ModelOf[r], e) \in Nat
    BY <1>2, <2>1, ParentsFacts, PickNumbers DEF TypeOK
  <2>6. ASSUME e = last.endpoint PROVE FALSE
    <3>1. Offset(ModelOf[r], x) < Offset(ModelOf[r], e)
      BY <1>2, <2>1, <2>4, <2>5, <2>6, LastComesLast
    <3> QED  BY <2>2, <2>5, <3>1
  <2> QED  BY <2>3, <2>6
<1>3. TypeOK /\ InTurn /\ [Next]_vars => InTurn'
  BY InTurnStep
<1> QED  BY <1>1, <1>2, <1>3, TypeCorrect, PTL DEF Spec, RoundRobin
=============================================================================
