----------------------------- MODULE CodexPath -----------------------------
(* The path of a GPT request: handle-codex.mjs, codex-slot-pool.mjs, the      *)
(* Codex part of vm-registry.mjs and codex-kernel-supervisor.mjs. It has no   *)
(* queue and no reservation. A request takes a list of slots, goes through it *)
(* until one answers, and writes what it learns of a slot's quota into the    *)
(* slot's file; the kernel of a slot is a process started on demand.          *)
(* Slots are numbered in the order of their ids.                              *)
EXTENDS Naturals, FiniteSets

CONSTANTS
  Requests,
  Slots,
  NoPin,
  Pin,           \* x-kin-vm of a master key's request, or NoPin
  Streams,       \* requests that asked for a stream
  FailoverMax,   \* CODEX_FAILOVER_MAX
  Probed,        \* slots the usage monitor probes unless they are stopped:
                 \* none when it is switched off, otherwise those with token,
                 \* proxy and no hard state (isUsageProbeTarget)
  Volatile       \* slots whose kernel and switch change (bound)

ASSUME CodexAssumption ==
  /\ Slots \subseteq Nat /\ IsFiniteSet(Slots) /\ NoPin \notin Slots
  /\ Pin \in [Requests -> Slots \cup {NoPin}]
  /\ Streams \subseteq Requests /\ FailoverMax \in Nat \ {0}
  /\ Probed \subseteq Slots /\ Volatile \subseteq Slots

VARIABLES
  file,      \* vms/<id>.json
  up,        \* the slot's socket answers health probes
  procs,     \* kernel processes started and neither ended nor told to end
  starts,    \* the slot has an entry in the map of started kernels
  at, ids,   \* where a request is, and the slots it has left
  send,      \* first send to the slot's kernel, or its repetition
  lines,     \* the sends to this slot whose lines have come back
  got        \* the sends whose lines the client has

codexKernelVars == <<up, procs, starts>>
request == <<at, ids, send, lines, got>>
codexVars == <<file, codexKernelVars, request>>

(* switch: "leftover" is off for a reason an older version wrote on a spent   *)
(* quota; "off" is every other reason, and a slot without token or in a hard  *)
(* state. parked: a window of extra is at its cap or codex_limited_until is   *)
(* ahead. restricted: temp_unschedulable_reason is a quota reason.            *)
File == [switch : {"on", "off", "leftover"}, parked : BOOLEAN, restricted : BOOLEAN,
         stopped : BOOLEAN]
Sends == Slots \X {1, 2}

(* "hop": the request is sent; "body": the response's headers have come.      *)
Points == {"idle", "ensure", "boot", "hop", "body", "answered"}

NewFile(switch) ==
  [switch |-> switch, parked |-> FALSE, restricted |-> FALSE, stopped |-> FALSE]

(* A kernel is started detached and outlives the server.                      *)
CodexInit ==
  /\ file \in [Slots -> {NewFile("on"), NewFile("leftover")}]
  /\ up = [s \in Slots |-> s \notin Volatile] /\ procs = [s \in Slots |-> 0]
  /\ starts = [s \in Slots |-> FALSE]
  /\ at = [r \in Requests |-> "idle"] /\ ids = [r \in Requests |-> {}]
  /\ send = [r \in Requests |-> 1]
  /\ lines = [r \in Requests |-> {}] /\ got = [r \in Requests |-> {}]

-----------------------------------------------------------------------------
(* The quota of a slot.                                                       *)

(* mutant: a restriction is written and never taken back                      *)
SyncedUpwards(f) ==
  [f EXCEPT !.restricted = @ \/ f.parked,
            !.switch = IF @ = "leftover" THEN "on" ELSE @]

(* evaluateCodexQuotaSchedule and syncCodexQuotaSchedule                      *)
Synced(f) ==
  [f EXCEPT !.restricted = f.parked,
            !.switch = IF @ = "leftover" THEN "on" ELSE @]

(* ingestCodexHop and persistCodexUsage: headers is what x-codex-* say of the *)
(* windows, spent that the answer was a quota refusal. Headers that show      *)
(* something left take a park back, whoever set it.                           *)
Ingested(f, headers, spent) ==
  IF headers = "none" /\ ~spent THEN f
  ELSE Synced([f EXCEPT !.parked = spent \/ headers = "spent"])

(* pickCodexSlots. It means to put parked slots last and the rest in the      *)
(* order of their use, but reads the summaries of listVms: these leave        *)
(* codex_limited_until out, and give buildCodexUsageView the view of          *)
(* codex.usage, in which it finds none of the keys of a snapshot. Every slot  *)
(* comes out unparked and unused, and what is left is the order of the ids.   *)
PickCodexSlots(f) == {s \in Slots : f[s].switch = "on"}

-----------------------------------------------------------------------------
(* A request.                                                                 *)

(* The slot the loop is at.                                                   *)
Slot(r) == CHOOSE s \in ids[r] : \A t \in ids[r] : s <= t

Reset(r) ==
  /\ send' = [send EXCEPT ![r] = 1] /\ lines' = [lines EXCEPT ![r] = {}]

(* pickCodexCandidates and the start of the loop                              *)
Pick(r) ==
  /\ at[r] = "idle"
  /\ file' = IF Pin[r] # NoPin THEN file ELSE [s \in Slots |-> Synced(file[s])]
  /\ LET all  == PickCodexSlots(file')
         list == IF Pin[r] # NoPin THEN {Pin[r]}
                 ELSE {s \in all : Cardinality({t \in all : t < s}) < FailoverMax}
     IN /\ ids' = [ids EXCEPT ![r] = list]
        /\ at' = [at EXCEPT ![r] = IF list = {} THEN "answered" ELSE "ensure"]
  /\ Reset(r) /\ got' = [got EXCEPT ![r] = {}]
  /\ UNCHANGED codexKernelVars

(* mutant: a slot that refused stays in the list                              *)
ContinueRound(r) ==
  /\ at' = [at EXCEPT ![r] = "ensure"]
  /\ Reset(r) /\ UNCHANGED <<ids, got>>

(* The loop goes on with the next slot, or the last result is the answer.     *)
Continue(r) ==
  /\ IF ids[r] # {Slot(r)}
     THEN /\ ids' = [ids EXCEPT ![r] = @ \ {Slot(r)}]
          /\ at' = [at EXCEPT ![r] = "ensure"]
     ELSE at' = [at EXCEPT ![r] = "answered"] /\ UNCHANGED ids
  /\ Reset(r) /\ UNCHANGED got

(* ensureCodexKernel: the socket answers                                      *)
Healthy(r) ==
  /\ at[r] \in {"ensure", "boot"} /\ up[Slot(r)]
  /\ at' = [at EXCEPT ![r] = "hop"]
  /\ UNCHANGED <<file, codexKernelVars, ids, send, lines, got>>

(* mutant: whoever finds the socket silent starts a kernel                    *)
StartAlways(r) ==
  LET s == Slot(r)
  IN /\ at[r] = "ensure" /\ ~up[s]
     /\ starts' = [starts EXCEPT ![s] = TRUE]
     /\ procs' = [procs EXCEPT ![s] = @ + 1]
     /\ at' = [at EXCEPT ![r] = "boot"]
     /\ UNCHANGED <<file, up, ids, send, lines, got>>

(* ensureCodexKernel: it did not answer for 800 ms; the start of another      *)
(* request is joined                                                          *)
Start(r) ==
  LET s == Slot(r)
  IN /\ at[r] = "ensure" /\ ~up[s]
     /\ starts' = [starts EXCEPT ![s] = TRUE]
     /\ procs' = [procs EXCEPT ![s] = IF starts[s] THEN @ ELSE @ + 1]
     /\ at' = [at EXCEPT ![r] = "boot"]
     /\ UNCHANGED <<file, up, ids, send, lines, got>>

(* health_timeout: nothing has been sent to this client yet                   *)
NotReady(r) ==
  /\ at[r] = "boot" /\ ~up[Slot(r)]
  /\ Continue(r)
  /\ UNCHANGED <<file, codexKernelVars>>

(* workerRequest resolves: its timer of 180 s, the only one of a Codex send,  *)
(* is taken back.                                                             *)
Headers(r) ==
  /\ at[r] = "hop"
  /\ at' = [at EXCEPT ![r] = "body"]
  /\ UNCHANGED <<file, codexKernelVars, ids, send, lines, got>>

Emitted(r) == lines[r] # {}

(* onEvent of a committed stream: lines go to the client, or are kept until   *)
(* the answer is complete                                                     *)
Emit(r) ==
  LET this == <<Slot(r), send[r]>>
  IN /\ at[r] = "body" /\ this \notin lines[r]
     /\ lines' = [lines EXCEPT ![r] = @ \cup {this}]
     /\ got' = [got EXCEPT ![r] = IF r \in Streams THEN @ \cup {this} ELSE @]
     /\ UNCHANGED <<file, codexKernelVars, at, ids, send>>

(* mutant: the result alone decides, not what onEvent has seen                *)
ResendAny(r) == send[r] = 1

(* runCodexKernelHop: a transport error is repeated once                      *)
MayResend(r) == send[r] = 1 /\ ~Emitted(r)

(* The socket breaks, or nothing came of the send within its 180 s.           *)
TransportError(r) ==
  /\ at[r] \in {"hop", "body"}
  /\ IF MayResend(r)
     THEN /\ send' = [send EXCEPT ![r] = 2] /\ at' = [at EXCEPT ![r] = "hop"]
          /\ UNCHANGED <<file, codexKernelVars, ids, lines, got>>
     ELSE /\ at' = [at EXCEPT ![r] = "answered"]
          /\ UNCHANGED <<file, codexKernelVars, ids, send, lines, got>>

(* A verified answer; its headers are recorded first.                         *)
Succeed(r) ==
  LET s == Slot(r)
  IN /\ at[r] = "body"
     /\ \E headers \in {"none", "left", "spent"} :
          file' = [file EXCEPT ![s] = Ingested(@, headers, FALSE)]
     /\ got' = [got EXCEPT ![r] = IF r \in Streams THEN @ ELSE lines[r]]
     /\ at' = [at EXCEPT ![r] = "answered"]
     /\ UNCHANGED <<codexKernelVars, ids, send, lines>>

(* isCodexFailoverError: a quota or an authentication error before output.    *)
(* Any other error, and any after output, is the end.                         *)
Refuse(r) ==
  LET s == Slot(r)
  IN /\ at[r] = "body"
     /\ \E kind \in {"quota", "auth", "other"}, headers \in {"none", "left", "spent"} :
          LET failover == kind # "other" /\ ~Emitted(r)
          IN /\ file' = [file EXCEPT ![s] = Ingested(@, headers, kind = "quota" /\ failover)]
             /\ IF failover THEN Continue(r)
                ELSE /\ at' = [at EXCEPT ![r] = "answered"]
                     /\ UNCHANGED <<ids, send, lines, got>>
     /\ UNCHANGED codexKernelVars

(* The response is ended; the next request of this client may come.           *)
Leave(r) ==
  /\ at[r] = "answered"
  /\ at' = [at EXCEPT ![r] = "idle"] /\ ids' = [ids EXCEPT ![r] = {}]
  /\ Reset(r) /\ got' = [got EXCEPT ![r] = {}]
  /\ UNCHANGED <<file, codexKernelVars>>

-----------------------------------------------------------------------------
(* The slots.                                                                 *)

(* reconcile of the usage monitor                                             *)
Reconcile(s) ==
  /\ s \in Probed /\ ~file[s].stopped
  /\ file' = [file EXCEPT ![s] = Synced(@)]
  /\ UNCHANGED <<codexKernelVars, request>>

(* The windows have reset and codex_limited_until is past.                    *)
ParkEnds(s) ==
  /\ file[s].parked
  /\ file' = [file EXCEPT ![s].parked = FALSE]
  /\ UNCHANGED <<codexKernelVars, request>>

(* setVmSchedulable from the panel                                            *)
OperatorSwitch(s) ==
  /\ \E v \in {"on", "off"} : v # file[s].switch /\ file' = [file EXCEPT ![s].switch = v]
  /\ UNCHANGED <<codexKernelVars, request>>

(* stopSlot: stopCodexKernel forgets the kernel it has told to end            *)
Stop(s) ==
  /\ starts[s]
  /\ starts' = [starts EXCEPT ![s] = FALSE] /\ procs' = [procs EXCEPT ![s] = 0]
  /\ file' = [file EXCEPT ![s].switch = "off", ![s].stopped = TRUE]
  /\ UNCHANGED <<up, request>>

Boots(s) ==
  /\ procs[s] > 0 /\ ~up[s]
  /\ up' = [up EXCEPT ![s] = TRUE]
  /\ UNCHANGED <<file, procs, starts, request>>

(* The socket goes silent: the kernel hangs, crashes or was told to end. No   *)
(* handler takes a crashed one out of the map.                                *)
Fails(s) ==
  /\ up[s]
  /\ up' = [up EXCEPT ![s] = FALSE]
  /\ \E p \in {0, procs[s]} : procs' = [procs EXCEPT ![s] = p]
  /\ UNCHANGED <<file, starts, request>>

(* The steps a timer of the code bounds.                                      *)
Timed(r) ==
  \/ Healthy(r) \/ Start(r) \/ NotReady(r) \/ Headers(r)
  \/ at[r] = "hop" /\ TransportError(r)

Step(r) == Timed(r) \/ TransportError(r) \/ Succeed(r) \/ Refuse(r)

CodexNext ==
  \/ \E r \in Requests : Pick(r) \/ Step(r) \/ Emit(r) \/ Leave(r)
  \/ \E s \in Slots : Reconcile(s) \/ ParkEnds(s)
  \/ \E s \in Volatile : OperatorSwitch(s) \/ Stop(s) \/ Boots(s) \/ Fails(s)

(* Health probes and boots have timeouts, and so has a send until its headers *)
(* come. After them nothing bounds it: handleCodexProtocol passes no timeout  *)
(* and no signal, so no fairness is assumed of what ends a body. The monitor  *)
(* has a timer.                                                               *)
CodexFairness ==
  /\ \A r \in Requests : WF_codexVars(Timed(r))
  /\ \A s \in Probed : WF_codexVars(Reconcile(s))

CodexSpec == CodexInit /\ [][CodexNext]_codexVars
CodexFairSpec == CodexSpec /\ CodexFairness

-----------------------------------------------------------------------------
(* Properties                                                                 *)

(* Every variable has its type; a request under way has a slot to ask.        *)
CodexTypeOK ==
  /\ file \in [Slots -> File]
  /\ up \in [Slots -> BOOLEAN] /\ procs \in [Slots -> Nat] /\ starts \in [Slots -> BOOLEAN]
  /\ at \in [Requests -> Points] /\ send \in [Requests -> {1, 2}]
  /\ ids \in [Requests -> SUBSET Slots]
  /\ lines \in [Requests -> SUBSET Sends] /\ got \in [Requests -> SUBSET Sends]
  /\ \A r \in Requests : /\ Cardinality(ids[r]) <= FailoverMax
                         /\ at[r] \in {"ensure", "boot", "hop", "body"} => ids[r] # {}

(* What a client gets comes from one send to one slot: neither the repetition *)
(* after a transport error nor the way to the next slot adds a second answer  *)
(* to lines that are out (runCodexKernelHop, isCodexFailoverError).           *)
OneAnswer == \A r \in Requests : \A x, y \in got[r] : x = y

(* Requests that find a slot's socket silent at the same time start one       *)
(* kernel between them, and none beside one that is only slow                 *)
(* (ensureCodexKernel).                                                       *)
OneKernelPerSlot == \A s \in Slots : procs[s] <= 1

(* A request ends, whatever kernels and slots do, unless one kernel has sent  *)
(* it headers and then neither goes on nor closes: repetitions and failovers  *)
(* do not go round in circles, and nothing else keeps a request               *)
(* (handleCodexProtocol, workerRequest).                                      *)
CodexSettles ==
  \A r \in Requests :
    at[r] \in {"ensure", "boot", "hop", "body"} ~> (at[r] = "answered" \/ [](at[r] = "body"))

(* The restriction shown on a probed slot follows the park recorded in its    *)
(* file: it comes when the park stays and goes when the windows have reset,   *)
(* although the results of requests under way are recorded late and in any    *)
(* order (syncCodexQuotaSchedule, persistCodexUsage).                         *)
RestrictionFollowsPark ==
  \A s \in Probed :
    []<>file[s].stopped \/ []<>(file[s].restricted = file[s].parked)
=============================================================================
