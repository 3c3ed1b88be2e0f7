------------------------------ MODULE ProxyPool ------------------------------
(* The pool of SOCKS5 proxies (src/src/lib/vm/proxy-pool.mjs): which VMs each *)
(* proxy serves, its health as probes and live requests report it, and the    *)
(* cascade that takes the VMs of a failed proxy out of the account pool and   *)
(* puts them back (the callbacks of src/src/server.mjs and setVmSchedulable). *)
(* The panel's handlers interleave with probes at every await.  The working   *)
(* set is the one in memory; restarts are left out.                           *)
EXTENDS Naturals, FiniteSets, FiniteSetsExt

CONSTANTS
  Proxies,
  Vms,
  NoProxy,
  BindLimit,     \* bind_limit
  MaxFailures,   \* max_failures
  Disconnects,   \* disconnect_on_error
  Panel          \* the VMs and proxies the operator works on, by operation (bound)

ASSUME PoolAssumption ==
  /\ IsFiniteSet(Proxies) /\ IsFiniteSet(Vms) /\ NoProxy \notin Proxies
  /\ Panel \in [toggle : SUBSET Vms, move : SUBSET Vms, probe : SUBSET Proxies,
                switch : SUBSET Proxies, edit : SUBSET Proxies, remove : SUBSET Proxies]
  /\ BindLimit \in Nat \ {0} /\ MaxFailures \in Nat \ {0} /\ Disconnects \in BOOLEAN

VARIABLES
  listed,      \* the proxies of the pool; a removed one may still be probed
  px,          \* enabled, status, consecutive_failures and kind of last_error
  bound,       \* bound_vm_ids of each proxy
  vm,          \* schedulable, schedule_disabled_reason, schedule_manual, proxy id of each VM file
  sweep,       \* the proxies probeAll has still to probe; _probing while there are any
  asked,       \* the proxy probeById is waiting for
  rebind,      \* where the handler that gives a VM its proxy is waiting
  opOff,       \* history: proxies the operator's last word on was disable
  vmOff,       \* history: VMs the operator's last word on was off
  adrift       \* history: VMs the pool lost track of, see DeadProxyVmOff

vars == <<listed, px, bound, vm, sweep, asked, rebind, opOff, vmOff, adrift>>

Proxy == [enabled : BOOLEAN, status : {"unknown", "ok", "fail", "dead"},
          fails : 0..MaxFailures, err : {"none", "egress", "probe"}]

(* A reason carries the proxy it was written for, as |proxy=id.               *)
Whys == {"none", "disabled", "required", "reload",
         "manually_disabled", "probe_failed", "egress_down", "disconnect"}

Vm == [sched : BOOLEAN, why : Whys, by : Proxies \cup {NoProxy}, manual : BOOLEAN,
       proxy : Proxies \cup {NoProxy}]

Fresh == [enabled |-> TRUE, status |-> "unknown", fails |-> 0, err |-> "none"]

(* The pool as load finds it: some VMs have a proxy and are in the pool.      *)
Init ==
  /\ listed = Proxies /\ px = [p \in Proxies |-> Fresh]
  /\ \E home \in [Vms -> Proxies \cup {NoProxy}] :
       /\ bound = [p \in Proxies |-> {v \in Vms : home[v] = p}]
       /\ \A p \in Proxies : Cardinality(bound[p]) <= BindLimit
       /\ vm = [v \in Vms |-> [sched |-> home[v] # NoProxy, by |-> NoProxy, manual |-> FALSE,
                               why |-> IF home[v] = NoProxy THEN "required" ELSE "none",
                               proxy |-> home[v]]]
  /\ sweep = {} /\ asked = NoProxy
  /\ rebind = [v \in Vms |-> "idle"]
  /\ opOff = {} /\ vmOff = {} /\ adrift = {}

-----------------------------------------------------------------------------
(* setVmSchedulable from automatic code: a VM the operator toggled is left.   *)

(* mutant: the operator's toggle does not lock the VM                         *)
LockedNever(w) == FALSE

Locked(w) == w.manual

TurnedOff(w, why, p) == IF Locked(w) THEN w ELSE [w EXCEPT !.sched = FALSE, !.why = why, !.by = p]

TurnedOn(w) == IF Locked(w) THEN w ELSE [w EXCEPT !.sched = TRUE, !.why = "none", !.by = NoProxy]

(* _cascadeDisableVm, _cascadeDisconnectVm                                    *)
CascadeOff(p, why) == [v \in Vms |-> IF v \in bound[p] THEN TurnedOff(vm[v], why, p) ELSE vm[v]]

(* onEnableVm: the VMs that were taken off on account of this proxy, or by a  *)
(* failure of any proxy.                                                      *)
Recovers(p) == {v \in bound[p] : vm[v].by = p \/ vm[v].why \in {"egress_down", "probe_failed"}}

(* _cascadeEnableVm                                                           *)
CascadeOn(p) == [v \in Vms |-> IF v \in Recovers(p) THEN TurnedOn(vm[v]) ELSE vm[v]]

-----------------------------------------------------------------------------
(* Health.                                                                    *)

(* mutant: only proxies in use are probed                                     *)
SweepableEnabled(q) == q.enabled

(* The filter of probeAll.                                                    *)
Sweepable(q) == q.enabled \/ q.status = "fail" \/ (q.status = "dead" /\ q.err # "none")

(* A good probe after a failure resumes the proxy.                            *)
Resumes(q) == q.err = "egress" \/ q.status = "fail" \/ (q.status = "dead" /\ q.err # "none")

(* One more failure; past max_failures the count is held there (bound).       *)
Failed(q) ==
  LET n == Min({q.fails + 1, MaxFailures}) IN
  IF n >= MaxFailures THEN [enabled |-> FALSE, status |-> "dead", fails |-> n, err |-> "probe"]
  ELSE [q EXCEPT !.status = "fail", !.fails = n, !.err = "probe"]

(* mutant: the VMs of a proxy that fails are not told                         *)
KilledQuietly(p) == vm

(* A failed probe takes the VMs off when the proxy has failed max_failures    *)
(* times in a row.                                                            *)
Killed(p) == IF Failed(px[p]).fails < MaxFailures THEN vm ELSE CascadeOff(p, "probe_failed")

(* _applyProbeResult                                                          *)
Apply(p, result) ==
  LET q == px[p] IN
  CASE result = "egress" ->
         /\ px' = [px EXCEPT ![p].err = "egress", ![p].status = IF q.enabled THEN "ok" ELSE @]
         /\ vm' = CascadeOff(p, "egress_down") /\ UNCHANGED adrift
    [] result = "ok" ->
         /\ px' = [px EXCEPT ![p] = [enabled |-> q.enabled \/ Resumes(q), status |-> "ok",
                                     fails |-> 0, err |-> "none"]]
         /\ vm' = IF Resumes(q) THEN CascadeOn(p) ELSE vm
         /\ adrift' = IF Resumes(q) /\ p \notin listed THEN adrift \cup Recovers(p) ELSE adrift
    [] result = "fail" ->
         px' = [px EXCEPT ![p] = Failed(q)] /\ vm' = Killed(p) /\ UNCHANGED adrift

Results == {"ok", "fail", "egress"}

(* probeAll, by the timer or the panel; one sweep at a time                   *)
StartSweep ==
  /\ sweep = {} /\ sweep' = {p \in listed : Sweepable(px[p])}
  /\ UNCHANGED <<listed, px, bound, vm, asked, rebind, opOff, vmOff, adrift>>

(* A probe of the sweep comes back; the proxy may have been disabled, bound   *)
(* anew or removed since the sweep began.                                     *)
SweepProbe(p) ==
  /\ p \in sweep /\ sweep' = sweep \ {p}
  /\ \E result \in Results : Apply(p, result)
  /\ UNCHANGED <<listed, bound, asked, rebind, opOff, vmOff>>

(* probeById, whatever the state of the proxy                                 *)
Ask(p) ==
  /\ asked = NoProxy /\ p \in listed \cap Panel.probe /\ asked' = p
  /\ UNCHANGED <<listed, px, bound, vm, sweep, rebind, opOff, vmOff, adrift>>

Answer ==
  /\ asked # NoProxy /\ asked' = NoProxy
  /\ \E result \in Results : Apply(asked, result)
  /\ UNCHANGED <<listed, bound, sweep, rebind, opOff, vmOff>>

(* reportRuntimeFailure: a request of the VM could not get through.  All the  *)
(* VMs of the proxy go off, whether or not the proxy is dead by now.          *)
RuntimeFailure(v) ==
  /\ Disconnects
  /\ \E p \in listed :
       /\ v \in bound[p]
       /\ px' = [px EXCEPT ![p] = Failed(@)] /\ vm' = CascadeOff(p, "disconnect")
  /\ UNCHANGED <<listed, bound, sweep, asked, rebind, opOff, vmOff, adrift>>

-----------------------------------------------------------------------------
(* Binding.                                                                   *)

(* mutant: the VM stays with its old proxy too                                *)
KeptElsewhere(p, v) == bound

(* The first half of bind takes the VM from every other proxy of the pool.    *)
Detached(p, v) ==
  [x \in Proxies |-> IF x # p /\ x \in listed THEN bound[x] \ {v} ELSE bound[x]]

HasPlace(p, v) == v \in bound[p] \/ Cardinality(bound[p]) < BindLimit

Usable(p) == p \in listed /\ px[p].enabled /\ px[p].status # "dead"

(* The rest of a handler that has bound the VM: its file names the proxy and  *)
(* the handler waits for the time zone of the exit.                           *)
Wire(v, p) ==
  /\ bound' = [Detached(p, v) EXCEPT ![p] = @ \cup {v}]
  /\ vm' = [vm EXCEPT ![v].proxy = p]
  /\ rebind' = [rebind EXCEPT ![v] = "zone"]
  /\ adrift' = adrift \ {v}
  /\ UNCHANGED <<listed, px, sweep, asked, opOff, vmOff>>

(* bind, from the panel                                                       *)
Bind(v, p) ==
  v \in Panel.move /\ rebind[v] = "idle" /\ Usable(p) /\ HasPlace(p, v) /\ Wire(v, p)

(* bind to a proxy that is full: refused, but the VM has left its old proxy   *)
(* while its file goes on naming it.                                          *)
BindRefused(v, p) ==
  /\ v \in Panel.move /\ rebind[v] = "idle" /\ Usable(p) /\ ~HasPlace(p, v)
  /\ bound' = Detached(p, v)
  /\ adrift' = IF Detached(p, v) # bound THEN adrift \cup {v} ELSE adrift
  /\ UNCHANGED <<listed, px, vm, sweep, asked, rebind, opOff, vmOff>>

(* The candidates of allocateForVm, and the order they are sorted in.         *)
Candidates == {p \in listed : /\ px[p].enabled /\ px[p].status \in {"ok", "unknown"}
                              /\ Cardinality(bound[p]) < BindLimit}

Score(p) == IF px[p].status = "ok" THEN 0 ELSE 1

Before(p, x) ==
  \/ Score(p) < Score(x)
  \/ Score(p) = Score(x) /\ Cardinality(bound[p]) <= Cardinality(bound[x])

(* allocateForVm, from the panel: the proxy in use that has the VM, or else a *)
(* first candidate.  A proxy that has it and is not in use loses it.          *)
Allocate(v) ==
  /\ v \in Panel.move /\ rebind[v] = "idle"
  /\ LET has == {p \in listed : px[p].enabled /\ v \in bound[p]} IN
     \E p \in IF has # {} THEN has ELSE {p \in Candidates : \A x \in Candidates : Before(p, x)} :
       Wire(v, p)

(* A VM that runs is taken off while its worker reloads.                      *)
Reload(v, w) ==
  /\ IF w.sched \/ Locked(w)
     THEN /\ vm' = [vm EXCEPT ![v] = TurnedOff(w, "reload", NoProxy)]
          /\ rebind' = [rebind EXCEPT ![v] = "reload"]
     ELSE rebind' = [rebind EXCEPT ![v] = "idle"] /\ vm' = [vm EXCEPT ![v] = w]
  /\ UNCHANGED <<listed, px, bound, sweep, asked, opOff, vmOff, adrift>>

(* The time zone has come.                                                    *)
BeginReload(v) == rebind[v] = "zone" /\ Reload(v, vm[v])

(* The address of the proxy is edited: update, then its VMs one by one.       *)
EditProxy(p, v) ==
  /\ p \in listed \cap Panel.edit /\ v \in bound[p] /\ rebind[v] = "idle"
  /\ Reload(v, [vm[v] EXCEPT !.proxy = p])

(* The worker is back, and restoreSchedulableIfReady puts the VM in the pool  *)
(* whoever took it off meanwhile; or the reload failed.                       *)
EndReload(v, ok) ==
  /\ rebind[v] = "reload" /\ rebind' = [rebind EXCEPT ![v] = "idle"]
  /\ vm' = IF ok THEN [vm EXCEPT ![v] = TurnedOn(@)] ELSE vm
  /\ adrift' = IF ok /\ vm[v].why # "reload" THEN adrift \cup {v} ELSE adrift
  /\ UNCHANGED <<listed, px, bound, sweep, asked, opOff, vmOff>>

(* The VMs leave the proxy: their files name none and they go off.            *)
LeftProxy(gone) ==
  [v \in Vms |-> IF v \in gone THEN TurnedOff([vm[v] EXCEPT !.proxy = NoProxy], "required", NoProxy)
                 ELSE vm[v]]

(* unbind one VM, or all of them                                              *)
Unbind(p, gone) ==
  /\ p \in listed /\ gone # {} /\ gone \subseteq bound[p]
  /\ bound' = [bound EXCEPT ![p] = @ \ gone] /\ vm' = LeftProxy(gone)
  /\ UNCHANGED <<listed, px, sweep, asked, rebind, opOff, vmOff, adrift>>

(* remove: the record keeps its VMs for a probe that is still waiting.        *)
RemoveProxy(p) ==
  /\ p \in listed \cap Panel.remove /\ listed' = listed \ {p} /\ vm' = LeftProxy(bound[p])
  /\ UNCHANGED <<px, bound, sweep, asked, rebind, opOff, vmOff, adrift>>

-----------------------------------------------------------------------------
(* The operator's switches.                                                   *)

(* setEnabled(false)                                                          *)
DisableProxy(p) ==
  /\ p \in listed \cap Panel.switch
  /\ px' = [px EXCEPT ![p].enabled = FALSE, ![p].status = "dead"]
  /\ vm' = CascadeOff(p, "manually_disabled") /\ opOff' = opOff \cup {p}
  /\ UNCHANGED <<listed, bound, sweep, asked, rebind, vmOff, adrift>>

(* setEnabled(true); the handler puts the VMs of the proxy back.              *)
EnableProxy(p) ==
  /\ p \in listed \cap Panel.switch /\ px' = [px EXCEPT ![p] = Fresh]
  /\ vm' = [v \in Vms |-> IF v \in bound[p] /\ vm[v].why # "disabled" THEN TurnedOn(vm[v]) ELSE vm[v]]
  /\ opOff' = opOff \ {p}
  /\ UNCHANGED <<listed, bound, sweep, asked, rebind, vmOff, adrift>>

(* The schedule toggle of a VM.                                               *)
ToggleVm(v, on) ==
  /\ v \in Panel.toggle
  /\ vm' = [vm EXCEPT ![v].sched = on, ![v].manual = TRUE, ![v].by = NoProxy,
                      ![v].why = IF on THEN "none" ELSE "disabled"]
  /\ vmOff' = IF on THEN vmOff \ {v} ELSE vmOff \cup {v}
  /\ UNCHANGED <<listed, px, bound, sweep, asked, rebind, opOff, adrift>>

Next ==
  \/ StartSweep \/ Answer
  \/ \E p \in Proxies :
       \/ SweepProbe(p) \/ Ask(p) \/ DisableProxy(p) \/ EnableProxy(p) \/ RemoveProxy(p)
       \/ Unbind(p, bound[p])
  \/ \E v \in Vms :
       \/ RuntimeFailure(v) \/ Allocate(v) \/ BeginReload(v)
       \/ \E flag \in BOOLEAN : EndReload(v, flag) \/ ToggleVm(v, flag)
       \/ \E p \in Proxies : Bind(v, p) \/ BindRefused(v, p) \/ Unbind(p, {v}) \/ EditProxy(p, v)

Spec == Init /\ [][Next]_vars

-----------------------------------------------------------------------------
(* Properties.                                                                *)

(* Every variable has its type.                                               *)
TypeOK ==
  /\ listed \subseteq Proxies /\ px \in [Proxies -> Proxy] /\ bound \in [Proxies -> SUBSET Vms]
  /\ vm \in [Vms -> Vm] /\ sweep \subseteq Proxies
  /\ asked \in Proxies \cup {NoProxy} /\ rebind \in [Vms -> {"idle", "zone", "reload"}]
  /\ opOff \subseteq Proxies /\ vmOff \subseteq Vms /\ adrift \subseteq Vms

(* No VM is with two proxies of the pool, whatever bind, allocate and unbind  *)
(* were called in what order, and each proxy keeps within bind_limit.         *)
OneProxyPerVm ==
  /\ \A p, x \in listed : p # x => bound[p] \cap bound[x] = {}
  /\ \A p \in Proxies : Cardinality(bound[p]) <= BindLimit

(* A proxy that failures have switched off is still probed by every sweep and *)
(* comes back with its first good probe, unless the operator disabled it:     *)
(* nothing that happens to it in between makes it fall out of the sweep.      *)
KilledProxyComesBack ==
  \A p \in listed : ~px[p].enabled /\ p \notin opOff => Sweepable(px[p]) /\ Resumes(px[p])

(* A VM the operator switched off stays off, however its proxies fail, come   *)
(* back, are disabled, enabled, exchanged or removed.                         *)
OperatorOffKept == \A v \in vmOff : ~vm[v].sched

(* A VM whose file sends it through a proxy that is switched off is not in    *)
(* the account pool, unless the operator put it there.  The pool loses track  *)
(* of a VM (adrift) when a refused bind takes it from its proxy, when it is   *)
(* taken off while its worker reloads and the reload puts it back, and when a *)
(* proxy that was removed answers its last probe.                             *)
DeadProxyVmOff ==
  \A v \in Vms \ adrift :
    vm[v].sched /\ ~vm[v].manual /\ vm[v].proxy # NoProxy => px[vm[v].proxy].enabled
=============================================================================
