--------------------------- MODULE ProxyPoolProofs ---------------------------
(* Machine-checked theorems about ProxyPool, for any finite sets of proxies   *)
(* and VMs, any bind_limit and max_failures, and an operator who works on all *)
(* of them.                                                                   *)
EXTENDS ProxyPool, FiniteSetTheorems, TLAPS

-----------------------------------------------------------------------------
(* The inductive invariant.                                                   *)

(* A VM the operator switched off is locked.                                  *)
OffLocked == \A v \in vmOff : vm[v].manual /\ ~vm[v].sched

(* The file of a VM and the pool agree on its proxy, unless the pool lost     *)
(* track of the VM.                                                           *)
Tracked ==
  \A v \in Vms \ adrift :
    /\ vm[v].proxy # NoProxy => v \in bound[vm[v].proxy]
    /\ \A p \in listed : v \in bound[p] => vm[v].proxy = p

(* A VM in the pool, or taken off for a reload that will put it back, has a   *)
(* proxy that is switched on.                                                 *)
Running(v) == vm[v].sched \/ vm[v].why = "reload"

Backed ==
  \A v \in Vms \ adrift :
    ~vm[v].manual /\ Running(v) /\ vm[v].proxy # NoProxy => px[vm[v].proxy].enabled

IInv ==
  /\ TypeOK /\ OneProxyPerVm /\ KilledProxyComesBack
  /\ OffLocked /\ Tracked /\ Backed

-----------------------------------------------------------------------------
(* The operators of the model.                                                *)

LEMMA MinFacts ==
  ASSUME NEW a \in Nat, NEW b \in Nat
  PROVE  Min({a, b}) \in {a, b} /\ Min({a, b}) <= b
<1>1. \E x \in {a, b} : \A y \in {a, b} : x <= y
  <2>1. CASE a <= b
    BY <2>1
  <2>2. CASE ~(a <= b)
    BY <2>2
  <2> QED  BY <2>1, <2>2
<1> QED  BY <1>1 DEF Min

(* One more failure: the proxy is switched off at the limit and only there,   *)
(* and in either case a sweep will take it up.                                *)
LEMMA FailedFacts ==
  ASSUME NEW q \in Proxy
  PROVE  /\ Failed(q) \in Proxy /\ Sweepable(Failed(q)) /\ Resumes(Failed(q))
         /\ Failed(q).fails < MaxFailures => Failed(q).enabled = q.enabled
<1> DEFINE n == Min({q.fails + 1, MaxFailures})
<1>1. q.fails \in Nat /\ MaxFailures \in Nat
  BY PoolAssumption DEF Proxy, PoolAssumption
<1>2. n \in 0..MaxFailures
  BY <1>1, MinFacts
<1>3. CASE n >= MaxFailures
  <2>1. Failed(q) = [enabled |-> FALSE, status |-> "dead", fails |-> n, err |-> "probe"]
    BY <1>3 DEF Failed
  <2> HIDE DEF n
  <2>2. Failed(q) \in Proxy /\ Failed(q).fails = n /\ Failed(q).status = "dead" /\ Failed(q).err = "probe"
    BY <1>2, <2>1 DEF Proxy
  <2> QED  BY <1>1, <1>2, <1>3, <2>2 DEF Sweepable, Resumes
<1>4. CASE ~(n >= MaxFailures)
  <2>1. Failed(q) = [q EXCEPT !.status = "fail", !.fails = n, !.err = "probe"]
    BY <1>4 DEF Failed
  <2> HIDE DEF n
  <2> QED  BY <1>1, <1>2, <2>1 DEF Proxy, Sweepable, Resumes
<1> QED  BY <1>3, <1>4

LEMMA TurnedOffFacts ==
  ASSUME NEW w \in Vm, NEW why \in Whys, NEW p \in Proxies \cup {NoProxy}
  PROVE  LET x == TurnedOff(w, why, p) IN
         /\ x \in Vm /\ x.proxy = w.proxy /\ x.manual = w.manual
         /\ w.manual => x.sched = w.sched
         /\ ~w.manual => ~x.sched /\ x.why = why
BY DEF TurnedOff, Locked, Vm

LEMMA TurnedOnFacts ==
  ASSUME NEW w \in Vm
  PROVE  LET x == TurnedOn(w) IN
         /\ x \in Vm /\ x.proxy = w.proxy /\ x.manual = w.manual
         /\ w.manual => x.sched = w.sched
BY DEF TurnedOn, Locked, Vm, Whys

(* A change of the VM files by automatic code.                                *)
AutoChange ==
  /\ vm' \in [Vms -> Vm]
  /\ \A v \in Vms : /\ vm'[v].manual = vm[v].manual
                    /\ vm[v].manual => vm'[v].sched = vm[v].sched

(* The health of one proxy changes, and with it the schedule of its VMs: a VM *)
(* runs afterwards only if it ran before and the proxy has not been switched  *)
(* off, or if it is with the proxy, which is on.                              *)
HealthChange(p) ==
  /\ px' \in [Proxies -> Proxy] /\ \A x \in Proxies : x # p => px'[x] = px[x]
  /\ AutoChange /\ \A v \in Vms : vm'[v].proxy = vm[v].proxy
  /\ adrift \subseteq adrift' /\ adrift' \subseteq Vms
  /\ \A v \in Vms \ adrift' : ~vm[v].manual /\ Running(v)' =>
       \/ Running(v) /\ (v \in bound[p] /\ px[p].enabled => px'[p].enabled)
       \/ v \in bound[p] /\ p \in listed /\ px'[p].enabled

LEMMA CascadeOffFacts ==
  ASSUME TypeOK, NEW p \in Proxies, NEW why \in Whys \ {"reload"}, vm' = CascadeOff(p, why)
  PROVE  /\ AutoChange /\ \A v \in Vms : vm'[v].proxy = vm[v].proxy
         /\ \A v \in Vms : ~vm[v].manual /\ Running(v)' => Running(v) /\ v \notin bound[p]
<1>1. vm \in [Vms -> Vm]
  BY DEF TypeOK
<1>2. \A v \in Vms : /\ v \in bound[p] => vm'[v] = TurnedOff(vm[v], why, p)
                     /\ v \notin bound[p] => vm'[v] = vm[v]
  BY DEF CascadeOff
<1>3. ASSUME NEW v \in Vms
      PROVE  /\ vm'[v] \in Vm /\ vm'[v].proxy = vm[v].proxy /\ vm'[v].manual = vm[v].manual
             /\ vm[v].manual => vm'[v].sched = vm[v].sched
             /\ v \notin bound[p] => vm'[v] = vm[v]
             /\ v \in bound[p] /\ ~vm[v].manual => ~vm'[v].sched /\ vm'[v].why = why
  BY <1>1, <1>2, TurnedOffFacts
<1>4. vm' \in [Vms -> Vm]
  BY <1>3 DEF CascadeOff
<1> QED  BY <1>3, <1>4 DEF AutoChange, Running

(* Some VMs of the proxy are put back.                                        *)
LEMMA CascadeOnFacts ==
  ASSUME TypeOK, NEW S \in SUBSET Vms, vm' = [v \in Vms |-> IF v \in S THEN TurnedOn(vm[v]) ELSE vm[v]]
  PROVE  /\ AutoChange /\ \A v \in Vms : vm'[v].proxy = vm[v].proxy
         /\ \A v \in Vms : v \notin S => vm'[v] = vm[v]
<1>1. vm \in [Vms -> Vm]
  BY DEF TypeOK
<1>2. ASSUME NEW v \in Vms
      PROVE  /\ vm'[v] \in Vm /\ vm'[v].proxy = vm[v].proxy /\ vm'[v].manual = vm[v].manual
             /\ vm[v].manual => vm'[v].sched = vm[v].sched
             /\ v \notin S => vm'[v] = vm[v]
  BY <1>1, TurnedOnFacts
<1> QED  BY <1>2 DEF AutoChange

(* _applyProbeResult                                                          *)
LEMMA ApplyFacts ==
  ASSUME TypeOK, NEW p \in Proxies, NEW result \in Results, Apply(p, result)
  PROVE  /\ HealthChange(p)
         /\ px[p].enabled \/ (Sweepable(px[p]) /\ Resumes(px[p]))
              => px'[p].enabled \/ (Sweepable(px'[p]) /\ Resumes(px'[p]))
<1>1. px \in [Proxies -> Proxy] /\ vm \in [Vms -> Vm] /\ px[p] \in Proxy /\ bound[p] \subseteq Vms /\ adrift \subseteq Vms
  BY DEF TypeOK
<1>2. CASE result = "egress"
  <2>1. /\ px' = [px EXCEPT ![p].err = "egress", ![p].status = IF px[p].enabled THEN "ok" ELSE @]
        /\ vm' = CascadeOff(p, "egress_down") /\ adrift' = adrift
    BY <1>2 DEF Apply
  <2>2. /\ px' \in [Proxies -> Proxy] /\ (\A x \in Proxies : x # p => px'[x] = px[x])
        /\ px'[p].enabled = px[p].enabled /\ px'[p].err = "egress"
        /\ ~px[p].enabled => px'[p].status = px[p].status
    BY <1>1, <2>1 DEF Proxy
  <2>3. "egress_down" \in Whys \ {"reload"}
    BY DEF Whys
  <2>4. HealthChange(p)
    BY <1>1, <2>1, <2>2, <2>3, CascadeOffFacts DEF HealthChange
  <2> QED  BY <2>2, <2>4 DEF Sweepable, Resumes
<1>3. CASE result = "ok"
  <2>1. /\ px' = [px EXCEPT ![p] = [enabled |-> px[p].enabled \/ Resumes(px[p]), status |-> "ok",
                                    fails |-> 0, err |-> "none"]]
        /\ vm' = IF Resumes(px[p]) THEN CascadeOn(p) ELSE vm
        /\ adrift' = IF Resumes(px[p]) /\ p \notin listed THEN adrift \cup Recovers(p) ELSE adrift
    BY <1>3 DEF Apply
  <2>2. (px[p].enabled \/ Resumes(px[p])) \in BOOLEAN
    BY Zenon
  <2>3. /\ px' \in [Proxies -> Proxy] /\ (\A x \in Proxies : x # p => px'[x] = px[x])
        /\ px'[p].enabled = (px[p].enabled \/ Resumes(px[p]))
    BY <1>1, <2>1, <2>2, PoolAssumption DEF Proxy, PoolAssumption
  <2>4. (px[p].enabled \/ Resumes(px[p])) => px'[p].enabled
    BY <2>3, Zenon
  <2>5. CASE Resumes(px[p])
    <3>1. Recovers(p) \in SUBSET Vms /\ Recovers(p) \subseteq bound[p]
      BY <1>1 DEF Recovers
    <3>2. vm' = [v \in Vms |-> IF v \in Recovers(p) THEN TurnedOn(vm[v]) ELSE vm[v]]
      BY <2>1, <2>5 DEF CascadeOn
    <3>3. /\ AutoChange /\ \A v \in Vms : vm'[v].proxy = vm[v].proxy
          /\ \A v \in Vms : v \notin Recovers(p) => vm'[v] = vm[v]
      BY <3>1, <3>2, CascadeOnFacts
    <3>4. adrift \subseteq adrift' /\ adrift' \subseteq Vms /\ (p \notin listed => Recovers(p) \subseteq adrift')
      BY <1>1, <2>1, <2>5, <3>1
    <3> QED  BY <2>3, <2>4, <2>5, <3>1, <3>3, <3>4 DEF HealthChange, Running
  <2>6. CASE ~Resumes(px[p])
    BY <1>1, <2>1, <2>3, <2>4, <2>6 DEF HealthChange, AutoChange, Running
  <2> QED  BY <2>5, <2>6
<1>4. CASE result = "fail"
  <2>1. px' = [px EXCEPT ![p] = Failed(px[p])] /\ vm' = Killed(p) /\ adrift' = adrift
    BY <1>4 DEF Apply
  <2>2. /\ px' \in [Proxies -> Proxy] /\ (\A x \in Proxies : x # p => px'[x] = px[x])
        /\ px'[p] = Failed(px[p]) /\ Sweepable(px'[p]) /\ Resumes(px'[p])
        /\ Failed(px[p]).fails < MaxFailures => px'[p].enabled = px[p].enabled
    BY <1>1, <2>1, FailedFacts
  <2>3. "probe_failed" \in Whys \ {"reload"}
    BY DEF Whys
  <2>4. CASE Failed(px[p]).fails < MaxFailures
    <3>1. vm' = vm
      BY <2>1, <2>4 DEF Killed
    <3> QED  BY <1>1, <2>1, <2>2, <2>4, <3>1 DEF HealthChange, AutoChange, Running
  <2>5. CASE ~(Failed(px[p]).fails < MaxFailures)
    <3>1. vm' = CascadeOff(p, "probe_failed")
      BY <2>1, <2>5 DEF Killed
    <3> QED  BY <1>1, <2>1, <2>2, <2>3, <3>1, CascadeOffFacts DEF HealthChange
  <2> QED  BY <2>4, <2>5
<1> QED  BY <1>2, <1>3, <1>4 DEF Results

-----------------------------------------------------------------------------
(* Four kinds of steps.                                                       *)

(* The health of a proxy changes.                                             *)
LEMMA HealthStep ==
  ASSUME IInv, NEW p \in Proxies, HealthChange(p),
         p \in listed /\ ~px'[p].enabled => p \in opOff' \/ (Sweepable(px'[p]) /\ Resumes(px'[p])),
         opOff' \subseteq Proxies, \A x \in opOff : x = p \/ x \in opOff',
         sweep' \subseteq Proxies, asked' \in Proxies \cup {NoProxy},
         UNCHANGED <<listed, bound, rebind, vmOff>>
  PROVE  IInv'
<1>1. TypeOK'
  BY DEF IInv, TypeOK, HealthChange, AutoChange
<1>2. OneProxyPerVm'
  BY DEF IInv, OneProxyPerVm
<1>3. KilledProxyComesBack'
  BY DEF IInv, KilledProxyComesBack, HealthChange, TypeOK
<1>4. OffLocked'
  BY DEF IInv, OffLocked, HealthChange, AutoChange, TypeOK
<1>5. Tracked'
  BY DEF IInv, Tracked, HealthChange
<1>6. Backed'
  <2> SUFFICES ASSUME NEW v \in Vms \ adrift', ~vm'[v].manual, Running(v)', vm'[v].proxy # NoProxy
               PROVE  px'[vm'[v].proxy].enabled
    BY DEF Backed
  <2>1. vm'[v].proxy = vm[v].proxy /\ vm'[v].manual = vm[v].manual /\ v \in Vms \ adrift
    BY DEF HealthChange, AutoChange
  <2>2. vm[v].proxy \in Proxies /\ v \in bound[vm[v].proxy]
    BY <2>1 DEF IInv, Tracked, TypeOK, Vm
  <2>3. CASE Running(v) /\ (v \in bound[p] /\ px[p].enabled => px'[p].enabled)
    <3>1. px[vm[v].proxy].enabled
      BY <2>1, <2>3 DEF IInv, Backed
    <3>2. CASE vm[v].proxy = p
      BY <2>1, <2>2, <2>3, <3>1, <3>2
    <3>3. CASE vm[v].proxy # p
      BY <2>1, <2>2, <3>1, <3>3 DEF HealthChange
    <3> QED  BY <3>2, <3>3
  <2>4. CASE v \in bound[p] /\ p \in listed /\ px'[p].enabled
    BY <2>1, <2>4 DEF IInv, Tracked
  <2> QED  BY <2>1, <2>3, <2>4 DEF HealthChange
<1> QED  BY <1>1, <1>2, <1>3, <1>4, <1>5, <1>6 DEF IInv

(* A probe comes back, in a sweep or by hand.                                 *)
LEMMA ProbeStep ==
  ASSUME IInv, NEW p \in Proxies, NEW result \in Results, Apply(p, result),
         sweep' \subseteq Proxies, asked' \in Proxies \cup {NoProxy},
         UNCHANGED <<listed, bound, rebind, opOff, vmOff>>
  PROVE  IInv'
<1>1. TypeOK
  BY DEF IInv
<1>2. /\ HealthChange(p)
      /\ px[p].enabled \/ (Sweepable(px[p]) /\ Resumes(px[p]))
           => px'[p].enabled \/ (Sweepable(px'[p]) /\ Resumes(px'[p]))
  BY <1>1, ApplyFacts
<1>3. p \in listed /\ ~px'[p].enabled => p \in opOff' \/ (Sweepable(px'[p]) /\ Resumes(px'[p]))
  BY <1>2 DEF IInv, KilledProxyComesBack
<1> QED  BY <1>1, <1>2, <1>3, HealthStep DEF TypeOK

(* A request fails, or the operator switches a proxy.                         *)
LEMMA SwitchStep ==
  ASSUME IInv, \/ \E v \in Vms : RuntimeFailure(v)
               \/ \E p \in Proxies : DisableProxy(p) \/ EnableProxy(p)
  PROVE  IInv'
<1>1. /\ TypeOK /\ px \in [Proxies -> Proxy] /\ vm \in [Vms -> Vm] /\ adrift \subseteq Vms
      /\ listed \subseteq Proxies /\ opOff \subseteq Proxies
  BY DEF IInv, TypeOK
<1>2. {"disconnect", "manually_disabled"} \subseteq Whys \ {"reload"}
  BY DEF Whys
<1>3. ASSUME NEW v \in Vms, RuntimeFailure(v) PROVE IInv'
  <2>1. PICK p \in listed : px' = [px EXCEPT ![p] = Failed(px[p])] /\ vm' = CascadeOff(p, "disconnect")
    BY <1>3 DEF RuntimeFailure
  <2>2. UNCHANGED <<listed, bound, sweep, asked, rebind, opOff, vmOff, adrift>>
    BY <1>3 DEF RuntimeFailure
  <2>3. /\ px' \in [Proxies -> Proxy] /\ (\A x \in Proxies : x # p => px'[x] = px[x])
        /\ Sweepable(px'[p]) /\ Resumes(px'[p])
    BY <1>1, <2>1, FailedFacts
  <2>4. HealthChange(p)
    BY <1>1, <1>2, <2>1, <2>2, <2>3, CascadeOffFacts DEF HealthChange
  <2> QED  BY <1>1, <2>2, <2>3, <2>4, HealthStep DEF TypeOK
<1>4. ASSUME NEW p \in Proxies, DisableProxy(p) PROVE IInv'
  <2>1. /\ px' = [px EXCEPT ![p].enabled = FALSE, ![p].status = "dead"]
        /\ vm' = CascadeOff(p, "manually_disabled") /\ opOff' = opOff \cup {p}
        /\ UNCHANGED <<listed, bound, sweep, asked, rebind, vmOff, adrift>>
    BY <1>4 DEF DisableProxy
  <2>2. px' \in [Proxies -> Proxy] /\ \A x \in Proxies : x # p => px'[x] = px[x]
    BY <1>1, <2>1 DEF Proxy
  <2>3. HealthChange(p)
    BY <1>1, <1>2, <2>1, <2>2, CascadeOffFacts DEF HealthChange
  <2> QED  BY <1>1, <2>1, <2>3, HealthStep DEF TypeOK
<1>5. ASSUME NEW p \in Proxies, EnableProxy(p) PROVE IInv'
  <2> DEFINE S == {v \in Vms : v \in bound[p] /\ vm[v].why # "disabled"}
  <2>1. /\ p \in listed /\ px' = [px EXCEPT ![p] = Fresh] /\ opOff' = opOff \ {p}
        /\ vm' = [v \in Vms |-> IF v \in S THEN TurnedOn(vm[v]) ELSE vm[v]]
        /\ UNCHANGED <<listed, bound, sweep, asked, rebind, vmOff, adrift>>
    BY <1>5 DEF EnableProxy
  <2>2. Fresh \in Proxy /\ Fresh.enabled
    BY PoolAssumption DEF Fresh, Proxy, PoolAssumption
  <2>3. px' \in [Proxies -> Proxy] /\ px'[p].enabled /\ \A x \in Proxies : x # p => px'[x] = px[x]
    BY <1>1, <2>1, <2>2
  <2>4. /\ AutoChange /\ \A v \in Vms : vm'[v].proxy = vm[v].proxy
        /\ \A v \in Vms : v \notin S => vm'[v] = vm[v]
    <3>1. S \in SUBSET Vms
      OBVIOUS
    <3> HIDE DEF S
    <3> QED  BY <1>1, <2>1, <3>1, CascadeOnFacts
  <2>5. HealthChange(p)
    BY <1>1, <2>1, <2>3, <2>4 DEF HealthChange, Running
  <2> QED  BY <1>1, <2>1, <2>3, <2>5, HealthStep DEF TypeOK
<1> QED  BY <1>3, <1>4, <1>5

(* A VM gets a proxy that is on and has room for it.                          *)
LEMMA WireStep ==
  ASSUME IInv, NEW v \in Vms, NEW p \in listed, px[p].enabled, HasPlace(p, v), Wire(v, p)
  PROVE  IInv'
<1>1. /\ TypeOK /\ px \in [Proxies -> Proxy] /\ vm \in [Vms -> Vm] /\ adrift \subseteq Vms
      /\ listed \subseteq Proxies /\ bound \in [Proxies -> SUBSET Vms] /\ p \in Proxies /\ NoProxy \notin Proxies
  BY PoolAssumption DEF IInv, TypeOK, PoolAssumption
<1>2. /\ bound' \in [Proxies -> SUBSET Vms]
      /\ bound'[p] = bound[p] \cup {v}
      /\ \A x \in Proxies : x # p => bound'[x] = IF x \in listed THEN bound[x] \ {v} ELSE bound[x]
  BY <1>1 DEF Wire, Detached
<1>3. /\ vm' \in [Vms -> Vm] /\ vm'[v].proxy = p
      /\ vm'[v].manual = vm[v].manual /\ vm'[v].sched = vm[v].sched
      /\ \A x \in Vms : x # v => vm'[x] = vm[x]
  BY <1>1 DEF Wire, Vm
<1>4. adrift' = adrift \ {v} /\ UNCHANGED <<listed, px, sweep, asked, opOff, vmOff>>
  BY DEF Wire
<1>5. TypeOK'
  <2>1. rebind' \in [Vms -> {"idle", "zone", "reload"}]
    BY <1>1 DEF Wire, TypeOK
  <2> QED  BY <1>1, <1>2, <1>3, <1>4, <2>1 DEF TypeOK
<1>6. OneProxyPerVm'
  <2>1. \A x, y \in listed : x # y => bound'[x] \cap bound'[y] = {}
    BY <1>1, <1>2 DEF IInv, OneProxyPerVm
  <2>2. ASSUME NEW x \in Proxies PROVE Cardinality(bound'[x]) <= BindLimit
    <3>1. IsFiniteSet(bound[x]) /\ Cardinality(bound[x]) \in Nat /\ BindLimit \in Nat /\ Cardinality(bound[x]) <= BindLimit
      BY <1>1, PoolAssumption, FS_Subset, FS_CardinalityType DEF IInv, OneProxyPerVm, PoolAssumption
    <3>2. CASE x = p /\ v \notin bound[p]
      <4>1. Cardinality(bound[p] \cup {v}) = Cardinality(bound[p]) + 1
        BY <3>1, <3>2, FS_AddElement
      <4>2. Cardinality(bound[p]) < BindLimit
        BY <3>2 DEF HasPlace
      <4>3. bound'[x] = bound[p] \cup {v} /\ Cardinality(bound[p]) \in Nat /\ BindLimit \in Nat
        BY <1>2, <3>1, <3>2
      <4> QED  BY <4>1, <4>2, <4>3
    <3>3. CASE x = p /\ v \in bound[p]
      <4>1. bound'[x] = bound[x]
        BY <1>2, <3>3
      <4> QED  BY <3>1, <4>1
    <3>4. CASE x # p
      <4>1. bound'[x] \subseteq bound[x]
        BY <1>2, <3>4
      <4> DEFINE B == bound'[x]
      <4>2. IsFiniteSet(B) /\ Cardinality(B) <= Cardinality(bound[x])
        BY <3>1, <4>1, FS_Subset
      <4>3. Cardinality(B) \in Nat
        BY <4>2, FS_CardinalityType
      <4> QED  BY <3>1, <4>2, <4>3
    <3> QED  BY <3>2, <3>3, <3>4
  <2> QED  BY <1>4, <2>1, <2>2 DEF OneProxyPerVm
<1>7. KilledProxyComesBack'
  BY <1>4 DEF IInv, KilledProxyComesBack
<1>8. OffLocked'
  BY <1>3, <1>4 DEF IInv, OffLocked, TypeOK
<1>9. Tracked'
  <2> SUFFICES ASSUME NEW u \in Vms \ adrift'
               PROVE  /\ vm'[u].proxy # NoProxy => u \in bound'[vm'[u].proxy]
                      /\ \A x \in listed : u \in bound'[x] => vm'[u].proxy = x
    BY <1>4 DEF Tracked
  <2>1. CASE u = v
    BY <1>1, <1>2, <1>3, <2>1
  <2>2. CASE u # v
    <3>1. vm'[u] = vm[u] /\ u \in Vms \ adrift /\ \A x \in Proxies : u \in bound'[x] <=> u \in bound[x]
      BY <1>2, <1>3, <1>4, <2>2
    <3>2. vm[u].proxy # NoProxy => vm[u].proxy \in Proxies
      BY <1>1 DEF Vm
    <3> QED  BY <1>1, <3>1, <3>2 DEF IInv, Tracked
  <2> QED  BY <2>1, <2>2
<1>10. Backed'
  BY <1>3, <1>4 DEF IInv, Backed, Running
<1> QED  BY <1>5, <1>6, <1>7, <1>8, <1>9, <1>10 DEF IInv

(* VMs leave proxies, or proxies leave the pool.                              *)
LEMMA FewerBound ==
  ASSUME IInv, listed' \subseteq listed, \A x \in Proxies : bound'[x] \subseteq bound[x]
  PROVE  OneProxyPerVm'
<1>1. listed \subseteq Proxies /\ bound \in [Proxies -> SUBSET Vms]
  BY DEF IInv, TypeOK
<1>2. \A x, y \in listed' : x # y => bound'[x] \cap bound'[y] = {}
  BY <1>1 DEF IInv, OneProxyPerVm
<1>3. ASSUME NEW x \in Proxies PROVE Cardinality(bound'[x]) <= BindLimit
  <2> DEFINE B == bound'[x]
  <2>1. /\ IsFiniteSet(bound[x]) /\ Cardinality(bound[x]) \in Nat /\ BindLimit \in Nat
        /\ Cardinality(bound[x]) <= BindLimit /\ B \subseteq bound[x]
    BY <1>1, PoolAssumption, FS_Subset, FS_CardinalityType DEF IInv, OneProxyPerVm, PoolAssumption
  <2>2. IsFiniteSet(B) /\ Cardinality(B) <= Cardinality(bound[x])
    BY <2>1, FS_Subset
  <2>3. Cardinality(B) \in Nat
    BY <2>2, FS_CardinalityType
  <2> QED  BY <2>1, <2>2, <2>3
<1> QED  BY <1>2, <1>3 DEF OneProxyPerVm

(* A refused bind loses track of the VM it took from its proxy.               *)
LEMMA RefusedStep ==
  ASSUME IInv, NEW v \in Vms, NEW p \in Proxies, BindRefused(v, p)
  PROVE  IInv'
<1>1. /\ bound' = Detached(p, v) /\ adrift' = (IF Detached(p, v) # bound THEN adrift \cup {v} ELSE adrift)
      /\ UNCHANGED <<listed, px, vm, sweep, asked, rebind, opOff, vmOff>>
  BY DEF BindRefused
<1>2. bound \in [Proxies -> SUBSET Vms] /\ listed \subseteq Proxies /\ vm \in [Vms -> Vm]
  BY DEF IInv, TypeOK
<1>3. /\ bound' \in [Proxies -> SUBSET Vms] /\ \A x \in Proxies : bound'[x] \subseteq bound[x]
      /\ \A x \in Proxies, u \in Vms : u # v => (u \in bound'[x] <=> u \in bound[x])
  BY <1>1, <1>2 DEF Detached
<1>4. TypeOK'
  BY <1>1, <1>3 DEF IInv, TypeOK
<1>5. OneProxyPerVm'
  BY <1>1, <1>3, FewerBound
<1>6. KilledProxyComesBack' /\ OffLocked' /\ Backed'
  BY <1>1 DEF IInv, KilledProxyComesBack, OffLocked, Backed, Running
<1>7. Tracked'
  <2>1. CASE Detached(p, v) = bound
    BY <1>1, <2>1 DEF IInv, Tracked
  <2>2. CASE Detached(p, v) # bound
    <3> SUFFICES ASSUME NEW u \in Vms \ adrift'
                 PROVE  /\ vm'[u].proxy # NoProxy => u \in bound'[vm'[u].proxy]
                        /\ \A x \in listed : u \in bound'[x] => vm'[u].proxy = x
      BY <1>1 DEF Tracked
    <3>1. u # v /\ u \in Vms \ adrift /\ vm'[u] = vm[u]
      BY <1>1, <2>2
    <3>2. vm[u].proxy # NoProxy => vm[u].proxy \in Proxies
      BY <1>2 DEF Vm
    <3> QED  BY <1>2, <1>3, <3>1, <3>2 DEF IInv, Tracked
  <2> QED  BY <2>1, <2>2
<1> QED  BY <1>4, <1>5, <1>6, <1>7 DEF IInv

(* VMs are unbound, or their proxy is removed.                                *)
LEMMA LeaveStep ==
  ASSUME IInv, NEW p \in listed, NEW gone \in SUBSET bound[p], vm' = LeftProxy(gone),
         \/ bound' = [bound EXCEPT ![p] = @ \ gone] /\ listed' = listed
         \/ bound' = bound /\ listed' = listed \ {p} /\ gone = bound[p],
         UNCHANGED <<px, sweep, asked, rebind, opOff, vmOff, adrift>>
  PROVE  IInv'
<1>1. /\ bound \in [Proxies -> SUBSET Vms] /\ listed \subseteq Proxies /\ vm \in [Vms -> Vm]
      /\ p \in Proxies /\ gone \subseteq Vms /\ NoProxy \notin Proxies
  BY PoolAssumption DEF IInv, TypeOK, PoolAssumption
<1>2. ASSUME NEW v \in gone
      PROVE  /\ vm'[v] \in Vm /\ vm'[v].proxy = NoProxy /\ vm'[v].manual = vm[v].manual
             /\ vm[v].manual => vm'[v].sched = vm[v].sched
  <2> DEFINE w == [vm[v] EXCEPT !.proxy = NoProxy]
  <2>1. w \in Vm /\ w.proxy = NoProxy /\ w.manual = vm[v].manual /\ w.sched = vm[v].sched
    BY <1>1 DEF Vm
  <2>2. "required" \in Whys /\ NoProxy \in Proxies \cup {NoProxy} /\ vm'[v] = TurnedOff(w, "required", NoProxy)
    BY <1>1 DEF LeftProxy, Whys
  <2> HIDE DEF w
  <2> QED  BY <2>1, <2>2, TurnedOffFacts
<1>3. \A v \in Vms : v \notin gone => vm'[v] = vm[v]
  BY DEF LeftProxy
<1>4. vm' \in [Vms -> Vm]
  BY <1>1, <1>2, <1>3 DEF LeftProxy
<1>5. /\ bound' \in [Proxies -> SUBSET Vms] /\ listed' \subseteq listed
      /\ \A x \in Proxies : bound'[x] \subseteq bound[x]
      /\ \A x \in Proxies, u \in Vms : u \notin gone => (u \in bound'[x] <=> u \in bound[x])
      /\ \A x \in listed' : bound'[x] \cap gone = {}
  BY <1>1 DEF IInv, OneProxyPerVm
<1>6. TypeOK'
  BY <1>1, <1>4, <1>5 DEF IInv, TypeOK
<1>7. OneProxyPerVm'
  BY <1>5, FewerBound
<1>8. KilledProxyComesBack'
  BY <1>5 DEF IInv, KilledProxyComesBack
<1>9. OffLocked'
  BY <1>2, <1>3 DEF IInv, OffLocked, TypeOK
<1>10. Tracked'
  <2> SUFFICES ASSUME NEW u \in Vms \ adrift
               PROVE  /\ vm'[u].proxy # NoProxy => u \in bound'[vm'[u].proxy]
                      /\ \A x \in listed' : u \in bound'[x] => vm'[u].proxy = x
    BY DEF Tracked
  <2>1. CASE u \in gone
    BY <1>2, <1>5, <2>1
  <2>2. CASE u \notin gone
    <3>1. vm[u].proxy # NoProxy => vm[u].proxy \in Proxies
      BY <1>1 DEF Vm
    <3> QED  BY <1>1, <1>3, <1>5, <2>2, <3>1 DEF IInv, Tracked
  <2> QED  BY <2>1, <2>2
<1>11. Backed'
  BY <1>2, <1>3 DEF IInv, Backed, Running
<1> QED  BY <1>6, <1>7, <1>8, <1>9, <1>10, <1>11 DEF IInv

(* One VM file changes, its proxy does not, unless the pool lost track of it. *)
LEMMA FileStep ==
  ASSUME IInv, NEW v \in Vms, NEW w \in Vm, vm' = [vm EXCEPT ![v] = w],
         v \notin adrift' => w.proxy = vm[v].proxy,
         v \in vmOff' => w.manual /\ ~w.sched,
         vmOff' \subseteq vmOff \cup {v},
         adrift \subseteq adrift', adrift' \subseteq adrift \cup {v},
         v \notin adrift' /\ ~w.manual /\ (w.sched \/ w.why = "reload") => ~vm[v].manual /\ Running(v),
         rebind' \in [Vms -> {"idle", "zone", "reload"}],
         UNCHANGED <<listed, px, bound, sweep, asked, opOff>>
  PROVE  IInv'
<1>1. vm \in [Vms -> Vm]
  BY DEF IInv, TypeOK
<1>2. vm' \in [Vms -> Vm] /\ vm'[v] = w /\ \A x \in Vms : x # v => vm'[x] = vm[x]
  BY <1>1
<1>3. TypeOK'
  BY <1>2 DEF IInv, TypeOK
<1>4. OneProxyPerVm' /\ KilledProxyComesBack'
  BY DEF IInv, OneProxyPerVm, KilledProxyComesBack
<1>5. OffLocked'
  BY <1>2 DEF IInv, OffLocked, TypeOK
<1>6. Tracked' /\ Backed'
  BY <1>2 DEF IInv, Tracked, Backed, Running
<1> QED  BY <1>3, <1>4, <1>5, <1>6 DEF IInv

(* The reload of a worker, and the schedule toggle.                           *)
LEMMA ReloadStep ==
  ASSUME IInv, NEW v \in Vms,
         \/ BeginReload(v) \/ \E p \in Proxies : EditProxy(p, v)
         \/ \E flag \in BOOLEAN : EndReload(v, flag) \/ ToggleVm(v, flag)
  PROVE  IInv'
<1>1. /\ vm \in [Vms -> Vm] /\ vm[v] \in Vm /\ rebind \in [Vms -> {"idle", "zone", "reload"}]
      /\ vm = [vm EXCEPT ![v] = vm[v]]
  BY DEF IInv, TypeOK
<1>2. v \in vmOff => vm[v].manual /\ ~vm[v].sched
  BY DEF IInv, OffLocked
<1>6. ASSUME NEW u \in Vm, Reload(v, u), u.manual = vm[v].manual, u.sched = vm[v].sched, u.why = vm[v].why,
             v \notin adrift => u.proxy = vm[v].proxy
      PROVE  IInv'
  <2>1. /\ rebind' \in [Vms -> {"idle", "zone", "reload"}]
        /\ UNCHANGED <<listed, px, bound, sweep, asked, opOff, vmOff, adrift>>
    BY <1>1, <1>6 DEF Reload
  <2>2. CASE u.sched \/ Locked(u)
    <3> DEFINE w == TurnedOff(u, "reload", NoProxy)
    <3>1. "reload" \in Whys /\ NoProxy \in Proxies \cup {NoProxy}
      BY DEF Whys
    <3>2. /\ w \in Vm /\ w.proxy = u.proxy /\ w.manual = u.manual
          /\ u.manual => w.sched = u.sched
      BY <3>1, TurnedOffFacts
    <3>3. vm' = [vm EXCEPT ![v] = w]
      BY <1>6, <2>2 DEF Reload
    <3>4. ~w.manual => ~vm[v].manual /\ Running(v)
      BY <1>6, <2>2, <3>2 DEF Locked, Running
    <3> HIDE DEF w
    <3> QED  BY <1>2, <1>6, <2>1, <3>2, <3>3, <3>4, FileStep
  <2>3. CASE ~(u.sched \/ Locked(u))
    <3>1. vm' = [vm EXCEPT ![v] = u]
      BY <1>6, <2>3 DEF Reload
    <3> QED  BY <1>1, <1>2, <1>6, <2>1, <3>1, FileStep DEF Running
  <2> QED  BY <2>2, <2>3
<1>3. CASE BeginReload(v)
  BY <1>1, <1>3, <1>6 DEF BeginReload
<1>7. ASSUME NEW p \in Proxies, EditProxy(p, v) PROVE IInv'
  <2> DEFINE u == [vm[v] EXCEPT !.proxy = p]
  <2>1. /\ u \in Vm /\ u.manual = vm[v].manual /\ u.sched = vm[v].sched /\ u.why = vm[v].why
        /\ u.proxy = p
    BY <1>1 DEF Vm
  <2>2. v \notin adrift => vm[v].proxy = p
    BY <1>7 DEF EditProxy, IInv, Tracked
  <2>3. Reload(v, u)
    BY <1>7 DEF EditProxy
  <2> HIDE DEF u
  <2> QED  BY <1>6, <2>1, <2>2, <2>3
<1>4. ASSUME NEW flag \in BOOLEAN, EndReload(v, flag) PROVE IInv'
  <2>1. /\ rebind' \in [Vms -> {"idle", "zone", "reload"}]
        /\ UNCHANGED <<listed, px, bound, sweep, asked, opOff, vmOff>>
    BY <1>1, <1>4 DEF EndReload
  <2>2. CASE flag
    <3>1. /\ TurnedOn(vm[v]) \in Vm /\ TurnedOn(vm[v]).proxy = vm[v].proxy /\ TurnedOn(vm[v]).manual = vm[v].manual
          /\ vm[v].manual => TurnedOn(vm[v]).sched = vm[v].sched
      BY <1>1, TurnedOnFacts
    <3>2. vm' = [vm EXCEPT ![v] = TurnedOn(vm[v])]
      BY <1>4, <2>2 DEF EndReload
    <3>3. /\ adrift \subseteq adrift' /\ adrift' \subseteq adrift \cup {v}
          /\ v \notin adrift' => vm[v].why = "reload"
      BY <1>4, <2>2 DEF EndReload
    <3> QED  BY <1>2, <2>1, <3>1, <3>2, <3>3, FileStep DEF Running
  <2>3. CASE ~flag
    <3>1. vm' = [vm EXCEPT ![v] = vm[v]] /\ adrift' = adrift
      BY <1>1, <1>4, <2>3 DEF EndReload
    <3> QED  BY <1>1, <1>2, <2>1, <3>1, FileStep DEF Running
  <2> QED  BY <2>2, <2>3
<1>5. ASSUME NEW flag \in BOOLEAN, ToggleVm(v, flag) PROVE IInv'
  <2> DEFINE w == [vm[v] EXCEPT !.sched = flag, !.manual = TRUE, !.by = NoProxy,
                                !.why = IF flag THEN "none" ELSE "disabled"]
  <2>1. w \in Vm /\ w.proxy = vm[v].proxy /\ w.manual /\ w.sched = flag
    BY <1>1 DEF Vm, Whys
  <2>2. vm' = [vm EXCEPT ![v] = w]
    BY <1>1, <1>5 DEF ToggleVm, Vm
  <2>3. vmOff' \subseteq vmOff \cup {v} /\ (v \in vmOff' => ~flag)
    BY <1>5 DEF ToggleVm
  <2>4. UNCHANGED <<listed, px, bound, sweep, asked, rebind, opOff, adrift>>
    BY <1>5 DEF ToggleVm
  <2> HIDE DEF w
  <2> QED  BY <1>1, <2>1, <2>2, <2>3, <2>4, FileStep
<1> QED  BY <1>3, <1>4, <1>5, <1>7

-----------------------------------------------------------------------------
(* The invariant holds.                                                       *)

LEMMA InitHolds == Init => IInv
<1> SUFFICES ASSUME Init PROVE IInv
  OBVIOUS
<1>1. PICK home \in [Vms -> Proxies \cup {NoProxy}] :
        /\ bound = [p \in Proxies |-> {v \in Vms : home[v] = p}]
        /\ \A p \in Proxies : Cardinality(bound[p]) <= BindLimit
        /\ vm = [v \in Vms |-> [sched |-> home[v] # NoProxy, by |-> NoProxy, manual |-> FALSE,
                                why |-> IF home[v] = NoProxy THEN "required" ELSE "none",
                                proxy |-> home[v]]]
  BY DEF Init
<1>2. /\ listed = Proxies /\ px = [p \in Proxies |-> Fresh] /\ sweep = {} /\ asked = NoProxy
      /\ rebind = [v \in Vms |-> "idle"] /\ opOff = {} /\ vmOff = {} /\ adrift = {}
  BY DEF Init
<1>3. Fresh \in Proxy /\ Fresh.enabled
  BY PoolAssumption DEF Fresh, Proxy, PoolAssumption
<1>4. ASSUME NEW v \in Vms PROVE vm[v] \in Vm /\ vm[v].proxy = home[v]
  <2>1. (home[v] # NoProxy) \in BOOLEAN
    BY Zenon
  <2>2. home[v] \in Proxies \cup {NoProxy}
    OBVIOUS
  <2> QED  BY <1>1, <2>1, <2>2 DEF Vm, Whys
<1>5. TypeOK
  BY <1>1, <1>2, <1>3, <1>4 DEF TypeOK
<1>6. OneProxyPerVm
  BY <1>1, <1>2 DEF OneProxyPerVm
<1>7. KilledProxyComesBack /\ OffLocked
  BY <1>2, <1>3 DEF KilledProxyComesBack, OffLocked
<1>8. Tracked /\ Backed
  BY <1>1, <1>2, <1>3, <1>4 DEF Tracked, Backed
<1> QED  BY <1>5, <1>6, <1>7, <1>8 DEF IInv

(* A proxy takes a VM by hand or by allocateForVm.                            *)
LEMMA BindStep ==
  ASSUME IInv, NEW v \in Vms, Allocate(v) \/ \E p \in Proxies : Bind(v, p)
  PROVE  IInv'
<1>1. ASSUME NEW p \in Proxies, Bind(v, p) PROVE IInv'
  BY <1>1, WireStep DEF Bind, Usable
<1>2. CASE Allocate(v)
  <2> DEFINE has == {p \in listed : px[p].enabled /\ v \in bound[p]}
  <2>1. PICK p \in IF has # {} THEN has ELSE {q \in Candidates : \A x \in Candidates : Before(q, x)} : Wire(v, p)
    BY <1>2 DEF Allocate
  <2>2. p \in listed /\ px[p].enabled /\ HasPlace(p, v)
    BY <2>1 DEF HasPlace, Candidates
  <2> QED  BY <2>1, <2>2, WireStep
<1> QED  BY <1>1, <1>2

LEMMA NextHolds == IInv /\ [Next]_vars => IInv'
<1> SUFFICES ASSUME IInv, [Next]_vars PROVE IInv'
  OBVIOUS
<1>1. listed \subseteq Proxies /\ sweep \subseteq Proxies /\ asked \in Proxies \cup {NoProxy}
  BY DEF IInv, TypeOK
<1>2. CASE UNCHANGED vars
  BY <1>2 DEF vars, IInv, TypeOK, OneProxyPerVm, KilledProxyComesBack, OffLocked, Tracked, Backed, Running
<1>3. ASSUME StartSweep \/ \E p \in Proxies : Ask(p) PROVE IInv'
  <2>1. /\ UNCHANGED <<listed, px, bound, vm, rebind, opOff, vmOff, adrift>>
        /\ sweep' \subseteq Proxies /\ asked' \in Proxies \cup {NoProxy}
    BY <1>1, <1>3 DEF StartSweep, Ask
  <2> QED  BY <2>1 DEF IInv, TypeOK, OneProxyPerVm, KilledProxyComesBack, OffLocked, Tracked, Backed, Running
<1>4. CASE Answer
  <2>1. asked \in Proxies /\ asked' \in Proxies \cup {NoProxy}
    BY <1>1, <1>4 DEF Answer
  <2>2. PICK result \in Results : Apply(asked, result)
    BY <1>4 DEF Answer
  <2>3. UNCHANGED <<listed, bound, sweep, rebind, opOff, vmOff>>
    BY <1>4 DEF Answer
  <2> QED  BY <1>1, <2>1, <2>2, <2>3, ProbeStep
<1>5. ASSUME NEW p \in Proxies, SweepProbe(p) PROVE IInv'
  <2>1. PICK result \in Results : Apply(p, result)
    BY <1>5 DEF SweepProbe
  <2>2. sweep' \subseteq Proxies /\ UNCHANGED <<listed, bound, asked, rebind, opOff, vmOff>>
    BY <1>1, <1>5 DEF SweepProbe
  <2> QED  BY <1>1, <2>1, <2>2, ProbeStep
<1>6. ASSUME NEW p \in Proxies, NEW gone, Unbind(p, gone) PROVE IInv'
  BY <1>6, LeaveStep DEF Unbind
<1>7. ASSUME NEW p \in Proxies, RemoveProxy(p) PROVE IInv'
  BY <1>7, LeaveStep DEF RemoveProxy
<1>8. CASE Next
  <2>1. CASE StartSweep \/ Answer
    BY <1>3, <1>4, <2>1
  <2>2. ASSUME NEW p \in Proxies, \/ SweepProbe(p) \/ Ask(p) \/ DisableProxy(p) \/ EnableProxy(p)
                                  \/ RemoveProxy(p) \/ Unbind(p, bound[p])
        PROVE  IInv'
    BY <1>3, <1>5, <1>6, <1>7, <2>2, SwitchStep
  <2>3. ASSUME NEW v \in Vms, \/ RuntimeFailure(v) \/ Allocate(v) \/ BeginReload(v)
                              \/ \E flag \in BOOLEAN : EndReload(v, flag) \/ ToggleVm(v, flag)
                              \/ \E p \in Proxies : \/ Bind(v, p) \/ BindRefused(v, p) \/ Unbind(p, {v})
                                                  \/ EditProxy(p, v)
        PROVE  IInv'
    BY <1>6, <2>3, SwitchStep, BindStep, ReloadStep, RefusedStep
  <2> QED  BY <1>8, <2>1, <2>2, <2>3 DEF Next
<1> QED  BY <1>2, <1>8

(* Every reachable state satisfies the inductive invariant.                   *)
THEOREM Inductive == Spec => []IInv
BY InitHolds, NextHolds, PTL DEF Spec

(* Every variable of the pool keeps its type.                                 *)
THEOREM TypeCorrect == Spec => []TypeOK
<1>1. IInv => TypeOK
  BY DEF IInv
<1> QED  BY <1>1, Inductive, PTL

(* No order of bind, allocateForVm, unbind and remove leaves a VM with two    *)
(* proxies of the pool, or a proxy with more VMs than bind_limit.             *)
THEOREM BindingCorrect == Spec => []OneProxyPerVm
<1>1. IInv => OneProxyPerVm
  BY DEF IInv
<1> QED  BY <1>1, Inductive, PTL

(* A proxy that failed probes or requests have switched off stays within the  *)
(* filter of probeAll and resumes with its first good probe.                  *)
THEOREM ComesBackCorrect == Spec => []KilledProxyComesBack
<1>1. IInv => KilledProxyComesBack
  BY DEF IInv
<1> QED  BY <1>1, Inductive, PTL

(* No callback of a probe, a failure or a reload puts a VM that the operator  *)
(* toggled off back into the account pool.                                    *)
THEOREM OperatorOffCorrect == Spec => []OperatorOffKept
<1>1. IInv => OperatorOffKept
  BY DEF IInv, OffLocked, OperatorOffKept
<1> QED  BY <1>1, Inductive, PTL

(* The cascade of _applyProbeResult, reportRuntimeFailure and setEnabled      *)
(* reaches every VM of a proxy that is switched off, except those the pool    *)
(* has lost track of.                                                         *)
THEOREM DeadProxyCorrect == Spec => []DeadProxyVmOff
<1>1. IInv => DeadProxyVmOff
  BY DEF IInv, Backed, Running, DeadProxyVmOff
<1> QED  BY <1>1, Inductive, PTL
=============================================================================
