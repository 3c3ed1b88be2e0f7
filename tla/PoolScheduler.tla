--------------------------- MODULE PoolScheduler ---------------------------
(***************************************************************************)
(* The account pool of the control plane: PoolScheduler.selectAndReserve   *)
(* and the reservations, wait queues and notifications around it           *)
(* (src/src/lib/pool/pool-scheduler.mjs), together with the part of        *)
(* AccountQuota that a reservation goes through and the calls by which     *)
(* FailoverRunner uses a reservation (bind, mark, release).                *)
(*                                                                         *)
(* JavaScript runs one callback at a time.  An action below is the code    *)
(* between two awaits; everything another request does happens between two *)
(* actions.  eligibleCandidates awaits the health of each account, so the  *)
(* list of candidates a request decides on was read at several instants,   *)
(* all of them in the past.                                                *)
(***************************************************************************)
EXTENDS Integers, FiniteSets

CONSTANTS
  Requests,      \* concurrent calls of selectAndReserve
  Accounts,      \* accounts of the pool, one slot each
  NoAccount,     \* "no account": unbound key, request without reservation
  Keys,          \* sticky conversation keys
  NoKey,         \* a request without a conversation key
  KeyOf,         \* [Requests -> Keys \cup {NoKey}]
  Fable,         \* requests for a model of the Fable family
  Pinned,        \* requests with pinVmId: the quota gate is skipped
  Cancellable,   \* requests that come with an abort signal
  Scopes,        \* possible visible sets: not excluded, owner scope, pin
  Caps,          \* concurrency caps the operator may set
  InitCap,       \* cap every account starts with
  FableCap,      \* fable_max_per_account
  MaxWaiters,    \* max_waiters_per_account
  Priority,      \* [Accounts -> Nat], priorityOf
  Gates,         \* gate states an account may go through, see GateStates
  CoolKinds,     \* kinds of cooldown that may be marked, see CooldownStates
  MaxReloads     \* bound on the number of times the scheduler is rebuilt

(* What checkEligibility and canAccept read besides counters and cooldowns; *)
(* "revoked" is the refresh_error that marks a dead grant in vm.json        *)
GateStates == {"open", "slot_busy", "rpm_limit", "quota_blocked", "unschedulable",
               "revoked", "unhealthy"}

(* "cool": quota, provider or proxy cooldown; "auth": AUTH_COOLDOWN_REASON; *)
(* "blocked": FATAL_CREDENTIAL_COOLDOWN; "no_refresh": oauth_no_refresh     *)
CooldownStates == {"none", "cool", "auth", "blocked", "no_refresh"}
DeadGrant == {"blocked", "no_refresh"}
DiskMark(kind) == IF kind = "blocked" THEN "revoked" ELSE "unschedulable"

ASSUME PoolAssumption ==
  /\ IsFiniteSet(Requests)
  /\ NoAccount \notin Accounts /\ NoKey \notin Keys
  /\ KeyOf \in [Requests -> Keys \cup {NoKey}]
  /\ Fable \subseteq Requests /\ Pinned \subseteq Requests
  /\ Cancellable \subseteq Requests
  /\ Scopes \subseteq SUBSET Accounts
  /\ Caps \subseteq Nat /\ InitCap \in Caps
  /\ FableCap \in Nat \ {0} /\ MaxWaiters \in Nat \ {0}
  /\ Priority \in [Accounts -> Nat]
  /\ Gates \subseteq GateStates /\ CoolKinds \subseteq CooldownStates \ {"none"}
  /\ MaxReloads \in Nat

Pools == 0..MaxReloads     \* the schedulers built so far, by number

VARIABLES
  pc,            \* where each request is
  pool,          \* the scheduler the request runs on
  scope,         \* accounts this selection may see
  todo,          \* accounts eligibleCandidates still has to visit
  snap,          \* the candidates collected so far
  boundBefore,   \* the binding when the selection began
  cleared,       \* stickyCleared
  late,          \* the deadline of the selection has passed
  aborted,       \* the client is gone
  acct,          \* the reserved account
  waitSticky,    \* the request queued under a sticky wait plan
  slice,         \* its timer is an availableAt slice, not the deadline
  current,       \* the scheduler new requests get
  inflight,      \* PoolScheduler.inflight, per scheduler
  family,        \* PoolScheduler.inflightFamily of Fable, per scheduler
  waiters,       \* PoolScheduler.waiters, per scheduler
  timers,        \* cooldownTimers pending, as <<scheduler, account>>
  quota,         \* AccountQuota.inflight
  cap,           \* the account's concurrency limit, in vm.json and quota
  gate,          \* see GateStates
  cooldown,      \* see CooldownStates
  sticky         \* StickyRouter bindings

local  == <<scope, todo, snap, boundBefore, cleared>>
flags  == <<late, aborted>>
queue  == <<waitSticky, slice>>
counts == <<inflight, family, quota>>
env    == <<cap, gate, cooldown, timers>>
vars   == <<pc, pool, local, flags, queue, acct, current, counts,
            waiters, env, sticky>>

WaitReasons == {"account_cooldown", "concurrency_limit", "fable_concurrency",
                "rpm_limit", "slot_busy"}

Candidate == [reason : WaitReasons \cup {"free", "ineligible"},
              load : Nat, max : Nat, auth : BOOLEAN, timed : BOOLEAN]

NoCandidate ==
  [reason |-> "ineligible", load |-> 0, max |-> 0, auth |-> FALSE, timed |-> FALSE]
NoCandidates == [a \in Accounts |-> NoCandidate]

Selecting == {"scan", "decide", "wait", "woken"}
Reserved  == {"reserved", "held"}

Init ==
  /\ pc = [r \in Requests |-> "idle"]
  /\ pool = [r \in Requests |-> 0]
  /\ scope = [r \in Requests |-> {}]
  /\ todo = [r \in Requests |-> {}]
  /\ snap = [r \in Requests |-> NoCandidates]
  /\ boundBefore = [r \in Requests |-> NoAccount]
  /\ cleared = [r \in Requests |-> FALSE]
  /\ late = [r \in Requests |-> FALSE]
  /\ aborted = [r \in Requests |-> FALSE]
  /\ acct = [r \in Requests |-> NoAccount]
  /\ waitSticky = [r \in Requests |-> FALSE]
  /\ slice = [r \in Requests |-> FALSE]
  /\ current = 0
  /\ inflight = [p \in Pools |-> [a \in Accounts |-> 0]]
  /\ family = [p \in Pools |-> [a \in Accounts |-> 0]]
  /\ waiters = [p \in Pools |-> [a \in Accounts |-> {}]]
  /\ timers = {}
  /\ quota = [a \in Accounts |-> 0]
  /\ cap = [a \in Accounts |-> InitCap]
  /\ gate = [a \in Accounts |-> "open"]
  /\ cooldown = [a \in Accounts |-> "none"]
  /\ sticky = [k \in Keys |-> NoAccount]

Binding(r) == IF KeyOf[r] = NoKey THEN NoAccount ELSE sticky[KeyOf[r]]

-----------------------------------------------------------------------------
(* Eligibility of one account at one instant (checkEligibility).            *)

QuotaConcurrency(a) == quota[a] >= cap[a]

(* canAccept, in the order of its tests; "ok" or the reason it refuses      *)
CanAccept(a) ==
  IF QuotaConcurrency(a) THEN "concurrency_limit"
  ELSE IF gate[a] \in {"quota_blocked", "rpm_limit"} THEN gate[a]
  ELSE "ok"

(* evaluateSlotGate, evaluateAccount and the worker's health                *)
GateRejects(r, a) ==
  \/ gate[a] = "unhealthy"
  \/ gate[a] \in {"unschedulable", "revoked"} /\ r \notin Pinned

(* A park that no longer counts: the ticket in vm.json is live again, or a  *)
(* pinned diagnostic meets a ticket without refresh token.                  *)
Leftover(r, a) ==
  \/ cooldown[a] = "blocked" /\ gate[a] # "revoked"
  \/ cooldown[a] = "no_refresh" /\ r \in Pinned

HardReject(r, a) ==
  \/ GateRejects(r, a)
  \/ cooldown[a] \in DeadGrant /\ ~Leftover(r, a)
  \/ cap[a] = 0
  \/ CanAccept(a) = "quota_blocked" /\ r \notin Pinned

Cooling(a) == cooldown[a] \in {"cool", "auth"}

(* markWait keeps the first reason                                          *)
WaitReason(r, a) ==
  IF Cooling(a) THEN "account_cooldown"
  ELSE IF inflight[pool[r]][a] >= cap[a] THEN "concurrency_limit"
  ELSE IF r \in Fable /\ family[pool[r]][a] >= FableCap THEN "fable_concurrency"
  ELSE IF r \notin Pinned /\ CanAccept(a) # "ok" THEN CanAccept(a)
  ELSE IF gate[a] = "slot_busy" THEN "slot_busy"
  ELSE "free"

CheckEligibility(r, a) ==
  IF HardReject(r, a) THEN NoCandidate
  ELSE [reason |-> WaitReason(r, a),
        load   |-> inflight[pool[r]][a],
        max    |-> cap[a],
        auth   |-> cooldown[a] = "auth",
        timed  |-> Cooling(a) \/ (CanAccept(a) = "rpm_limit" /\ r \notin Pinned)]

-----------------------------------------------------------------------------
(* What a request makes of its snapshot.                                    *)

Candidates(s) == {a \in Accounts : s[a].reason # "ineligible"}

IsReservable(c) ==
  \/ c.reason = "free"
  \/ c.reason = "slot_busy" /\ c.load < c.max

Available(s) == {a \in Candidates(s) : IsReservable(s[a])}
Busy(s) == {a \in Candidates(s) : s[a].reason # "free" /\ ~IsReservable(s[a])}

StickyShouldWait(c) ==
  c.reason \in {"concurrency_limit", "fable_concurrency", "rpm_limit", "slot_busy"}

(* pick and peekRank rank by priority, then by the load ratio load/max;     *)
(* the strategies (lru, round-robin, smooth weighted) only choose among the *)
(* accounts that rank first, so every one of those is a possible pick.      *)
RanksBefore(s, a, b) ==
  \/ Priority[a] > Priority[b]
  \/ Priority[a] = Priority[b] /\ s[a].load * s[b].max < s[b].load * s[a].max

First(s, S) == {a \in S : \A b \in S : ~RanksBefore(s, b, a)}

WaiterCount(r, a) == Cardinality(waiters[pool[r]][a])
QueueOpen(r, a) == WaiterCount(r, a) < MaxWaiters

(* loopDeadline is one deadline for all the waits of the selection          *)
DeadlinePerWait(r) == FALSE  \* mutant: every wait gets the full time again
OutOfTime(r) == late[r]

(* How pick treats the binding of the request                               *)
StickyPick(r) ==
  LET b == Binding(r)
      s == snap[r]
  IN IF b = NoAccount \/ Candidates(s) = {} THEN "unbound"
     ELSE IF b \notin Candidates(s) THEN "unbind"
     ELSE IF IsReservable(s[b]) THEN "bound"
     ELSE IF ~StickyShouldWait(s[b]) THEN "unbind"
     ELSE IF QueueOpen(r, b) THEN "wait"
     ELSE "spillover"

(* mutant: the scheduler trusts its own count and the cap it read           *)
CanReserveOwnCount(r, a) ==
  /\ inflight[pool[r]][a] < snap[r][a].max
  /\ r \in Fable => family[pool[r]][a] < FableCap

(* mutant: the Fable limit is only looked at when candidates are collected  *)
CanReserveAnyFamily(r, a) ==
  /\ inflight[pool[r]][a] < snap[r][a].max
  /\ r \in Pinned \/ CanAccept(a) = "ok"
  /\ ~QuotaConcurrency(a)

(* reserve: the checks made at the instant of the reservation               *)
CanReserve(r, a) ==
  /\ inflight[pool[r]][a] < snap[r][a].max
  /\ r \in Fable => family[pool[r]][a] < FableCap
  /\ r \in Pinned \/ CanAccept(a) = "ok"
  /\ ~QuotaConcurrency(a)

(* The picks are tried in rank order, the bound account first, until one    *)
(* reserves: these are the accounts the request may end up on.              *)
Winners(r) ==
  LET fits == {a \in Available(snap[r]) : CanReserve(r, a)}
  IN CASE StickyPick(r) = "wait" -> {}
       [] StickyPick(r) = "bound" /\ Binding(r) \in fits -> {Binding(r)}
       [] OTHER -> First(snap[r], fits)

(* A candidate whose reservation failed is queued on as concurrency_limit.  *)
WithMisses(r) ==
  [a \in Accounts |->
     IF StickyPick(r) # "wait" /\ a \in Available(snap[r])
     THEN [snap[r][a] EXCEPT !.reason = "concurrency_limit"]
     ELSE snap[r][a]]

ClearedNow(r) == cleared[r] \/ StickyPick(r) = "unbind"

StickyAfterPick(r) ==
  IF StickyPick(r) = "unbind" THEN [sticky EXCEPT ![KeyOf[r]] = NoAccount] ELSE sticky

(* isUnboundAuthCooldown drops the account the request was just unbound from *)
WaitPool(r) ==
  {a \in Candidates(snap[r]) :
     ~(/\ ClearedNow(r) /\ a = boundBefore[r]
       /\ snap[r][a].reason = "account_cooldown" /\ snap[r][a].auth)}

(* mutant: the binding of the moment counts, whoever made it                *)
StickyPlanRebound(r) ==
  LET b == Binding(r) IN
  /\ b \in WaitPool(r) /\ b \in Busy(WithMisses(r))
  /\ StickyShouldWait(WithMisses(r)[b]) /\ QueueOpen(r, b)

(* resolveWaitPlan: the bound account if it is worth waiting for, else the  *)
(* account ranked first, else any account with room in its queue.           *)
StickyPlan(r) ==
  LET b == Binding(r) IN
  /\ ~ClearedNow(r) /\ b \in WaitPool(r) /\ b \in Busy(WithMisses(r))
  /\ StickyShouldWait(WithMisses(r)[b]) /\ QueueOpen(r, b)

Waitable(r) == WaitPool(r) \cap Busy(WithMisses(r))

WaitTargets(r) ==
  IF StickyPlan(r) THEN {Binding(r)}
  ELSE LET open == {a \in Waitable(r) : QueueOpen(r, a)}
           best == First(WithMisses(r), Waitable(r))
       IN (best \cap open) \cup (IF best \subseteq open THEN {} ELSE open)

(* Candidates that carry an availableAt: their cooldown or RPM window ends  *)
WakeAts(r) == {a \in WaitPool(r) : snap[r][a].timed}

ConcurrencyWait(r) == \E a \in WaitPool(r) : StickyShouldWait(WithMisses(r)[a])

-----------------------------------------------------------------------------
(* notifyCapacity                                                           *)

AllWaiters(p) == UNION {waiters[p][a] : a \in Accounts}

(* mutants: only the account's own queue; every request, queued or not      *)
NotifiedByOwnQueue(p, a) == waiters[p][a]
NotifiedByAll(p, a) == waiters[p][a] \cup {q \in Requests : ~waitSticky[q]}

(* notifyCapacity(accountId): its own queue, and the non-sticky of others   *)
NotifiedBy(p, a) == waiters[p][a] \cup {q \in AllWaiters(p) : ~waitSticky[q]}

Wake(p, W) ==
  waiters' = [waiters EXCEPT ![p] = [a \in Accounts |-> waiters[p][a] \ W]]

PcAfterWake(W) == [q \in Requests |-> IF q \in W THEN "woken" ELSE pc[q]]

-----------------------------------------------------------------------------
(* Steps of a request.                                                      *)

BeginScan(r, S) ==
  /\ todo' = [todo EXCEPT ![r] = S]
  /\ snap' = [snap EXCEPT ![r] = NoCandidates]
  /\ pc' = [pc EXCEPT ![r] = IF S = {} THEN "decide" ELSE "scan"]

(* The variables of selectAndReserve go out of scope.                       *)
Forget(r) ==
  /\ scope' = [scope EXCEPT ![r] = {}]
  /\ todo' = [todo EXCEPT ![r] = {}]
  /\ snap' = [snap EXCEPT ![r] = NoCandidates]
  /\ boundBefore' = [boundBefore EXCEPT ![r] = NoAccount]
  /\ cleared' = [cleared EXCEPT ![r] = FALSE]
  /\ late' = [late EXCEPT ![r] = FALSE]
  /\ aborted' = [aborted EXCEPT ![r] = FALSE]
  /\ waitSticky' = [waitSticky EXCEPT ![r] = FALSE]
  /\ slice' = [slice EXCEPT ![r] = FALSE]

(* The selection returns or throws without a reservation.                   *)
End(r) ==
  /\ pc' = [pc EXCEPT ![r] = "idle"]
  /\ pool' = [pool EXCEPT ![r] = 0]
  /\ Forget(r)
  /\ UNCHANGED <<acct, current, counts, env>>

(* selectAndReserve is entered, on the scheduler of the moment.             *)
Start(r) ==
  /\ pc[r] = "idle"
  /\ \E S \in Scopes :
       /\ r \in Pinned => \E a \in Accounts : S = {a}
       /\ scope' = [scope EXCEPT ![r] = S]
       /\ BeginScan(r, S)
  /\ pool' = [pool EXCEPT ![r] = current]
  /\ boundBefore' = [boundBefore EXCEPT ![r] = Binding(r)]
  /\ UNCHANGED <<cleared, flags, queue, acct, current, counts, waiters, env, sticky>>

(* One turn of the loop of eligibleCandidates: the account's health has     *)
(* been awaited, its eligibility is what the state says now.  A leftover    *)
(* park is cleared on the way.                                              *)
Scan(r, a) ==
  /\ pc[r] = "scan" /\ a \in todo[r]
  /\ \/ /\ aborted[r]
        /\ End(r)  \* "selection_cancelled"
     \/ /\ ~aborted[r]
        /\ snap' = [snap EXCEPT ![r][a] = CheckEligibility(r, a)]
        /\ todo' = [todo EXCEPT ![r] = @ \ {a}]
        /\ pc' = [pc EXCEPT ![r] = IF todo[r] = {a} THEN "decide" ELSE "scan"]
        /\ cooldown' = IF Leftover(r, a) /\ ~GateRejects(r, a)
                       THEN [cooldown EXCEPT ![a] = "none"] ELSE cooldown
        /\ UNCHANGED <<pool, scope, boundBefore, cleared, flags, queue, acct,
                       current, counts, cap, gate, timers>>
  /\ UNCHANGED <<waiters, sticky>>

(* pick found an account and reserve succeeded on it.                       *)
Reserve(r, a) ==
  /\ pc[r] = "decide" /\ a \in Winners(r)
  /\ inflight' = [inflight EXCEPT ![pool[r]][a] = @ + 1]
  /\ family' = [family EXCEPT ![pool[r]][a] = IF r \in Fable THEN @ + 1 ELSE @]
  /\ quota' = [quota EXCEPT ![a] = @ + 1]
  /\ acct' = [acct EXCEPT ![r] = a]
  /\ pc' = [pc EXCEPT ![r] = "reserved"]
  /\ sticky' = StickyAfterPick(r)
  /\ Forget(r)
  /\ UNCHANGED <<pool, current, waiters, env>>

(* No reservation and nothing to wait for, no time left to wait, no room in *)
(* a queue, or the client already gone when the wait would begin.           *)
GiveUp(r) ==
  /\ pc[r] = "decide" /\ Winners(r) = {}
  /\ \/ /\ Candidates(snap[r]) = {}
        /\ End(r)  \* "no_eligible_accounts"
     \/ /\ Candidates(snap[r]) # {}
        /\ \/ OutOfTime(r)
           \/ Waitable(r) = {}
           \/ WakeAts(r) # {} /\ ~ConcurrencyWait(r)
        /\ End(r)  \* "all_accounts_busy"
     \/ /\ ~OutOfTime(r) /\ Waitable(r) # {} /\ WaitTargets(r) = {}
        /\ End(r)  \* "pool_wait_queue_full"
     \/ /\ ~OutOfTime(r) /\ WaitTargets(r) # {} /\ aborted[r]
        /\ End(r)  \* "selection_cancelled"
  /\ sticky' = StickyAfterPick(r)
  /\ UNCHANGED waiters

(* waitForCapacity registers the request in the queue of account a.         *)
Enqueue(r, a) ==
  /\ pc[r] = "decide" /\ Winners(r) = {}
  /\ ~OutOfTime(r) /\ ~aborted[r] /\ a \in WaitTargets(r)
  /\ waiters' = [waiters EXCEPT ![pool[r]][a] = @ \cup {r}]
  /\ waitSticky' = [waitSticky EXCEPT ![r] = StickyPlan(r)]
  /\ \E b \in BOOLEAN :
       /\ b => WakeAts(r) # {}
       /\ slice' = [slice EXCEPT ![r] = b]
  /\ pc' = [pc EXCEPT ![r] = "wait"]
  /\ cleared' = [cleared EXCEPT ![r] = ClearedNow(r)]
  /\ sticky' = StickyAfterPick(r)
  /\ snap' = [snap EXCEPT ![r] = NoCandidates]
  /\ UNCHANGED <<pool, scope, todo, boundBefore, flags, acct, current,
                 counts, env>>

DequeueForgotten(r) == UNCHANGED waiters  \* mutant: the timer leaves the entry behind
Dequeue(r) == Wake(pool[r], {r})

(* The timer of waitForCapacity: an availableAt slice rechecks, the         *)
(* deadline of the wait plan ends the selection.                            *)
WaitTimeout(r) ==
  /\ pc[r] = "wait"
  /\ Dequeue(r)
  /\ \/ /\ slice[r]
        /\ pc' = [pc EXCEPT ![r] = "woken"]
        /\ UNCHANGED <<pool, local, flags, queue, acct, current, counts, env>>
     \/ /\ ~slice[r]
        /\ End(r)  \* "all_accounts_busy"
  /\ UNCHANGED sticky

(* A woken request runs the loop again, after its jitter.                   *)
Resume(r) ==
  /\ pc[r] = "woken"
  /\ \/ /\ aborted[r]
        /\ End(r)  \* "selection_cancelled"
     \/ /\ ~aborted[r]
        /\ BeginScan(r, scope[r])
        /\ waitSticky' = [waitSticky EXCEPT ![r] = FALSE]
        /\ slice' = [slice EXCEPT ![r] = FALSE]
        /\ UNCHANGED <<pool, scope, boundBefore, cleared, flags, acct,
                       current, counts, env>>
  /\ UNCHANGED <<waiters, sticky>>

(* The deadline of the selection passes.                                    *)
Expire(r) ==
  /\ pc[r] \in Selecting /\ ~late[r]
  /\ late' = [late EXCEPT ![r] = TRUE]
  /\ UNCHANGED <<pc, pool, local, aborted, queue, acct, current, counts,
                 waiters, env, sticky>>

(* The client goes away.  A queued request leaves at once, one that is      *)
(* scanning notices at its next account.                                    *)
Abort(r) ==
  /\ r \in Cancellable /\ pc[r] \in Selecting /\ ~aborted[r]
  /\ \/ /\ pc[r] = "wait"
        /\ Dequeue(r)
        /\ End(r)  \* "selection_cancelled"
     \/ /\ pc[r] # "wait"
        /\ aborted' = [aborted EXCEPT ![r] = TRUE]
        /\ UNCHANGED <<pc, pool, local, late, queue, acct, current,
                       counts, env, waiters>>
  /\ UNCHANGED sticky

-----------------------------------------------------------------------------
(* What FailoverRunner does with a reservation.                             *)

(* bindAll, before the attempt is sent                                      *)
BindAll(r) ==
  /\ pc[r] = "reserved"
  /\ pc' = [pc EXCEPT ![r] = "held"]
  /\ sticky' = IF KeyOf[r] = NoKey THEN sticky
               ELSE [sticky EXCEPT ![KeyOf[r]] = acct[r]]
  /\ UNCHANGED <<pool, local, flags, queue, acct, current, counts,
                 waiters, env>>

(* markSuccess and the second bindAll                                       *)
MarkSuccess(r) ==
  /\ pc[r] = "held"
  /\ cooldown' = [cooldown EXCEPT ![acct[r]] = "none"]
  /\ sticky' = IF KeyOf[r] = NoKey THEN sticky
               ELSE [sticky EXCEPT ![KeyOf[r]] = acct[r]]
  /\ UNCHANGED <<pc, pool, local, flags, queue, acct, current, counts,
                 waiters, cap, gate, timers>>

(* markCooldown; scheduleCooldownWake replaces the pending timer, and sets  *)
(* none for an end more than a day away.  Account-wide cooldowns unbind     *)
(* every conversation of the account.  A revoked grant or a missing refresh *)
(* token is also written to vm.json (onCredentialFailure); an organisation  *)
(* that is disabled is not, and a pinned diagnostic neither parks nor marks *)
(* a ticket.                                                                *)
MarkCooldown(r) ==
  /\ pc[r] = "held"
  /\ \E kind \in CoolKinds, timed, unbind, marked \in BOOLEAN :
       /\ kind \in DeadGrant => ~timed /\ unbind
       /\ marked => kind \in DeadGrant /\ r \notin Pinned
       /\ kind = "no_refresh" => marked
       /\ cooldown' = [cooldown EXCEPT ![acct[r]] = kind]
       /\ gate' = IF marked THEN [gate EXCEPT ![acct[r]] = DiskMark(kind)] ELSE gate
       /\ timers' = IF timed THEN timers \cup {<<pool[r], acct[r]>>}
                    ELSE timers \ {<<pool[r], acct[r]>>}
       /\ sticky' = IF unbind
                    THEN [k \in Keys |-> IF sticky[k] = acct[r] THEN NoAccount ELSE sticky[k]]
                    ELSE sticky
  /\ UNCHANGED <<pc, pool, local, flags, queue, acct, current, counts,
                 waiters, cap>>

DecTwice(n) == IF n > 1 THEN n - 2 ELSE 0  \* mutant: release is not idempotent
Dec(n) == IF n > 0 THEN n - 1 ELSE 0

(* release: the counters of the scheduler and of the quota, then            *)
(* notifyCapacity(accountId)                                                *)
Release(r) ==
  /\ pc[r] = "held"
  /\ LET a == acct[r]
         p == pool[r]
         W == NotifiedBy(p, a)
     IN /\ inflight' = [inflight EXCEPT ![p][a] = Dec(@)]
        /\ family' = [family EXCEPT ![p][a] = IF r \in Fable THEN Dec(@) ELSE @]
        /\ quota' = [quota EXCEPT ![a] = Dec(@)]
        /\ Wake(p, W)
        /\ pc' = [PcAfterWake(W) EXCEPT ![r] = "idle"]
  /\ acct' = [acct EXCEPT ![r] = NoAccount]
  /\ pool' = [pool EXCEPT ![r] = 0]
  /\ UNCHANGED <<local, flags, queue, current, env, sticky>>

-----------------------------------------------------------------------------
(* The rest of the control plane.                                           *)

(* cooldown_until passes: clearExpired, or cooldownActive on the next read  *)
CooldownLapses(a) ==
  /\ Cooling(a)
  /\ cooldown' = [cooldown EXCEPT ![a] = "none"]
  /\ UNCHANGED <<pc, pool, local, flags, queue, acct, current, counts,
                 waiters, cap, gate, timers, sticky>>

(* the timer of scheduleCooldownWake fires, at the end of the cooldown      *)
CooldownWake(p, a) ==
  /\ <<p, a>> \in timers /\ ~Cooling(a)
  /\ timers' = timers \ {<<p, a>>}
  /\ LET W == AllWaiters(p)
     IN Wake(p, W) /\ pc' = PcAfterWake(W)
  /\ UNCHANGED <<pool, local, flags, queue, acct, current, counts,
                 cap, gate, cooldown, sticky>>

(* A newer credential generation (clearAuthCooldownFor) or a usage report   *)
(* under the limit (clearQuotaExhaustedCooldown) ends a cooldown early and  *)
(* notifies every waiter of one scheduler: the one that read the health,    *)
(* and for a quota cooldown the current one.                                *)
CooldownCleared(p, a) ==
  /\ Cooling(a) /\ p <= current
  /\ cooldown[a] = "cool" => p = current
  /\ cooldown' = [cooldown EXCEPT ![a] = "none"]
  /\ LET W == AllWaiters(p)
     IN Wake(p, W) /\ pc' = PcAfterWake(W)
  /\ UNCHANGED <<pool, local, flags, queue, acct, current, counts,
                 cap, gate, timers, sticky>>

(* Worker health, quota windows, RPM and the operator's schedule switch     *)
GateChanges(a) ==
  /\ \E g \in Gates \ {gate[a]} : gate' = [gate EXCEPT ![a] = g]
  /\ UNCHANGED <<pc, pool, local, flags, queue, acct, current, counts,
                 waiters, cap, cooldown, timers, sticky>>

(* applyVmConcurrency: the operator changes the cap of an account           *)
SetConcurrency(a) ==
  /\ \E n \in Caps \ {cap[a]} : cap' = [cap EXCEPT ![a] = n]
  /\ UNCHANGED <<pc, pool, local, flags, queue, acct, current, counts,
                 waiters, gate, cooldown, timers, sticky>>

(* initPoolRuntime: a routing change builds a new scheduler with empty maps *)
(* over the same quota, sticky router and runtime rows.                     *)
Reload ==
  /\ current < MaxReloads
  /\ current' = current + 1
  /\ UNCHANGED <<pc, pool, local, flags, queue, acct, counts, waiters,
                 env, sticky>>

RequestStep(r) ==
  \/ Start(r) \/ Resume(r) \/ GiveUp(r) \/ WaitTimeout(r) \/ Expire(r) \/ Abort(r)
  \/ BindAll(r) \/ MarkSuccess(r) \/ MarkCooldown(r) \/ Release(r)
  \/ \E a \in Accounts : Scan(r, a) \/ Reserve(r, a) \/ Enqueue(r, a)

PlatformStep ==
  \/ \E a \in Accounts :
       \/ CooldownLapses(a) \/ GateChanges(a) \/ SetConcurrency(a)
       \/ \E p \in Pools : CooldownWake(p, a) \/ CooldownCleared(p, a)
  \/ Reload

Next == (\E r \in Requests : RequestStep(r)) \/ PlatformStep

Spec == Init /\ [][Next]_vars

(* The event loop runs every pending continuation and timer, and an attempt *)
(* ends (finally releases): weak fairness for each request's own steps.     *)
Fairness ==
  \A r \in Requests :
    /\ WF_vars(\E a \in Accounts : Scan(r, a))
    /\ WF_vars(Resume(r))
    /\ WF_vars(GiveUp(r) \/ \E a \in Accounts : Reserve(r, a) \/ Enqueue(r, a))
    /\ WF_vars(WaitTimeout(r))
    /\ WF_vars(Expire(r))
    /\ WF_vars(BindAll(r))
    /\ WF_vars(Release(r))

FairSpec == Spec /\ Fairness

-----------------------------------------------------------------------------
(* Properties.                                                              *)

Holders(p, a) == {r \in Requests : acct[r] = a /\ pool[r] = p}
AllHolders(a) == {r \in Requests : acct[r] = a}

RequestTypeOK ==
  /\ pc \in [Requests -> {"idle"} \cup Selecting \cup Reserved]
  /\ pool \in [Requests -> Pools]
  /\ acct \in [Requests -> Accounts \cup {NoAccount}]
  /\ \A r \in Requests : pc[r] \in Reserved <=> acct[r] # NoAccount

LocalTypeOK ==
  /\ scope \in [Requests -> SUBSET Accounts]
  /\ todo \in [Requests -> SUBSET Accounts]
  /\ snap \in [Requests -> [Accounts -> Candidate]]
  /\ boundBefore \in [Requests -> Accounts \cup {NoAccount}]
  /\ cleared \in [Requests -> BOOLEAN]
  /\ late \in [Requests -> BOOLEAN]
  /\ aborted \in [Requests -> BOOLEAN]
  /\ waitSticky \in [Requests -> BOOLEAN]
  /\ slice \in [Requests -> BOOLEAN]

PoolTypeOK ==
  /\ current \in Pools
  /\ inflight \in [Pools -> [Accounts -> Nat]]
  /\ family \in [Pools -> [Accounts -> Nat]]
  /\ waiters \in [Pools -> [Accounts -> SUBSET Requests]]
  /\ quota \in [Accounts -> Nat]

PlatformTypeOK ==
  /\ timers \subseteq Pools \X Accounts
  /\ cap \in [Accounts -> Caps]
  /\ gate \in [Accounts -> GateStates]
  /\ cooldown \in [Accounts -> CooldownStates]
  /\ sticky \in [Keys -> Accounts \cup {NoAccount}]

(* Every variable stays in its type: the maps of PoolScheduler and          *)
(* AccountQuota hold naturals, queues hold requests, and a request has a    *)
(* reservation exactly between reserve and release.                         *)
TypeOK == RequestTypeOK /\ LocalTypeOK /\ PoolTypeOK /\ PlatformTypeOK

(* No slot leaks and none is freed twice: the three counters that reserve   *)
(* raises and release lowers (per scheduler, per Fable family, and in the   *)
(* quota shared by every scheduler) always equal the number of requests     *)
(* that hold the account, also when the scheduler is rebuilt under them.    *)
CountersExact ==
  \A a \in Accounts :
    /\ quota[a] = Cardinality(AllHolders(a))
    /\ \A p \in Pools :
         /\ inflight[p][a] = Cardinality(Holders(p, a))
         /\ family[p][a] = Cardinality(Holders(p, a) \cap Fable)

(* fable_max_per_account bounds the Fable requests a scheduler sends to one *)
(* account, however the candidates it decided on were outdated.             *)
FableWithinCap ==
  \A p \in Pools, a \in Accounts : Cardinality(Holders(p, a) \cap Fable) <= FableCap

QueuedWait ==
  \A p \in Pools, a \in Accounts : \A r \in waiters[p][a] : pc[r] = "wait" /\ pool[r] = p

WaitersQueuedOnce ==
  \A r \in Requests : pc[r] = "wait" =>
    \E a \in Accounts :
      /\ r \in waiters[pool[r]][a]
      /\ \A b \in Accounts \ {a} : r \notin waiters[pool[r]][b]

QueuesBounded ==
  \A p \in Pools, a \in Accounts : Cardinality(waiters[p][a]) <= MaxWaiters

(* A request is in at most one wait queue, exactly while it waits, on the   *)
(* scheduler it runs on, and no queue outgrows max_waiters_per_account: a   *)
(* wake-up, a timeout and an abort each take it out of the queue.           *)
QueuesExact == QueuedWait /\ WaitersQueuedOnce /\ QueuesBounded

(* An account never gains a holder while it has as many as its cap of the   *)
(* moment, counted over all schedulers: a cap the operator lowers and a     *)
(* reload are both seen by a request that decides on an older snapshot.     *)
AdmissionWithinCap ==
  [][\A a \in Accounts :
       ~(AllHolders(a)' \subseteq AllHolders(a)) =>
         Cardinality(AllHolders(a)) < cap[a]]_vars

(* The phase of a request as its caller sees it                             *)
Phase ==
  [r \in Requests |-> IF pc[r] \in Selecting THEN "asking"
                      ELSE IF pc[r] \in Reserved THEN "holding" ELSE "out"]

Abstract == INSTANCE AccountPool WITH phase <- Phase, holder <- acct, limit <- cap, Limits <- Caps

(* selectAndReserve and release implement the account pool: whatever the    *)
(* snapshots, queues, wake-ups, timeouts, aborts and reloads do, a caller   *)
(* sees only asking, one grant under the limit of the moment or a refusal,  *)
(* and a return.                                                            *)
ImplementsAccountPool == Abstract!Spec

(* Once a selection has dropped its binding it never waits under a sticky   *)
(* plan, even if another request of the conversation binds the key again    *)
(* in the meantime: it must rotate.                                         *)
UnboundRotates ==
  \A r \in Requests : pc[r] = "wait" /\ waitSticky[r] => ~cleared[r]

(* A freed slot is announced: when a reservation is released, every request *)
(* queued on that account of that scheduler, and every request queued       *)
(* without a sticky plan, runs the selection again.                         *)
ReleaseNotifies ==
  [][\A r, q \in Requests :
       (pc[r] = "held" /\ pc'[r] = "idle" /\ pc[q] = "wait" /\ pool[q] = pool[r]
          /\ (~waitSticky[q] \/ q \in waiters[pool[r]][acct[r]])) =>
         pc'[q] = "woken"]_vars

(* Every selection ends: it reserves an account or returns a reason, even   *)
(* when it is woken again and again only to lose the race for the slot.     *)
SelectionSettles ==
  \A r \in Requests : (pc[r] \in Selecting) ~> (pc[r] \notin Selecting)
=============================================================================
