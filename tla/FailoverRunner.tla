---------------------------- MODULE FailoverRunner ----------------------------
(* FailoverRunner.run (src/src/lib/pool/failover-runner.mjs): the attempts    *)
(* that serve one client request.  The account pool is AccountPool, which     *)
(* PoolScheduler implements; the upstream call is an environment that may     *)
(* pass output on to the client and then answers or throws.                   *)
EXTENDS Naturals, FiniteSets, UpstreamErrorPolicy

CONSTANTS
  Requests, Accounts, NoAccount,
  Keys, NoKey, KeyOf,     \* sticky keys, as in PoolScheduler
  Streaming,              \* requests whose client reads a stream
  PinTo,                  \* pinVmId of each request, or NoAccount
  Cancellable,            \* requests whose client may go away
  Kinds,                  \* the kinds of answers the upstream gives
  HasRefresh,             \* accounts with a refresh token
  SignatureRepair,        \* signature_repair
  Cap,                    \* concurrency limit of every account
  MaxAttempts,            \* max_total_attempts
  MaxSwitches,            \* max_account_switches
  MaxSameRetries          \* max_same_account_retries

ASSUME RunnerAssumption ==
  /\ IsFiniteSet(Requests) /\ NoAccount \notin Accounts /\ NoKey \notin Keys
  /\ KeyOf \in [Requests -> Keys \cup {NoKey}]
  /\ PinTo \in [Requests -> Accounts \cup {NoAccount}]
  /\ Streaming \subseteq Requests
  /\ Cancellable \subseteq Requests /\ HasRefresh \subseteq Accounts
  /\ Kinds \subseteq Results /\ SignatureRepair \in BOOLEAN
  /\ {Cap, MaxAttempts, MaxSwitches, MaxSameRetries} \subseteq Nat

VARIABLES
  pc,          \* "idle", "turn" (top of the loop), "select", "send", "sleep", "done"
  acct,        \* the reserved account
  attempt,     \* attemptNo
  switches,    \* accountSwitches
  repaired,    \* the request body has been repaired
  excluded,    \* accounts this run no longer uses
  retries,     \* sameAccountRetries
  committed,   \* the current attempt has passed output to the client
  aborted,     \* the client is gone
  ok,          \* the response ended as a success
  sent,        \* history: attempts sent to each account
  wrote,       \* history: accounts whose output reached the client
  dead,        \* history: accounts this run found with a dead grant
  park,        \* runtime row of each account: "none", "cool" or "dead"
  sticky       \* StickyRouter bindings

run    == <<attempt, switches, repaired, excluded, retries>>
hist   == <<sent, wrote, dead>>
shared == <<park, sticky>>
vars   == <<pc, acct, run, committed, aborted, ok, hist, shared>>

Holding == {"send", "sleep"}

Pool == INSTANCE AccountPool
          WITH phase  <- [r \in Requests |-> IF pc[r] = "select" THEN "asking"
                                             ELSE IF pc[r] \in Holding THEN "holding" ELSE "out"],
               holder <- acct,
               limit  <- [a \in Accounts |-> Cap],
               Limits <- {Cap}

Init ==
  /\ pc = [r \in Requests |-> "idle"]
  /\ acct = [r \in Requests |-> NoAccount]
  /\ attempt = [r \in Requests |-> 0]
  /\ switches = [r \in Requests |-> 0]
  /\ repaired = [r \in Requests |-> FALSE]
  /\ excluded = [r \in Requests |-> {}]
  /\ retries = [r \in Requests |-> [a \in Accounts |-> 0]]
  /\ committed = [r \in Requests |-> FALSE]
  /\ aborted = [r \in Requests |-> FALSE]
  /\ ok = [r \in Requests |-> FALSE]
  /\ sent = [r \in Requests |-> [a \in Accounts |-> 0]]
  /\ wrote = [r \in Requests |-> {}]
  /\ dead = [r \in Requests |-> {}]
  /\ park = [a \in Accounts |-> "none"]
  /\ sticky = [k \in Keys |-> NoAccount]

-----------------------------------------------------------------------------
(* What an attempt leaves behind.                                             *)

Pinned(r) == PinTo[r] # NoAccount

BindAll(r, a) == IF KeyOf[r] = NoKey THEN sticky ELSE [sticky EXCEPT ![KeyOf[r]] = a]

UnbindByAccount(a) == [k \in Keys |-> IF sticky[k] = a THEN NoAccount ELSE sticky[k]]

DeadReasons == {"oauth_revoked", "oauth_no_refresh"}

(* applyCooldown leaves the ticket of a pinned diagnostic alone.              *)
Exempt(r, p) == Pinned(r) /\ p.reason \in DeadReasons

Parks(r, p) == p.action \in {"continue-and-cooldown", "disable"} /\ ~Exempt(r, p)

(* A dead grant is marked in vm.json and stays out; any other row can be      *)
(* overwritten.  The row of a disabled organisation is read as a leftover     *)
(* while the ticket in vm.json is live.                                       *)
ParkAfter(r, p) ==
  LET a == acct[r] IN
  IF ~Parks(r, p) \/ park[a] = "dead" THEN park
  ELSE [park EXCEPT ![a] = IF p.reason \in DeadReasons THEN "dead"
                           ELSE IF p.action = "disable" THEN "none" ELSE "cool"]

ForgetsCredential(r, p) ==
  ~Pinned(r) /\ (p.scope = "credential" \/ p.action = "disable" \/ p.reason \in DeadReasons)

StickyAfter(r, p) ==
  IF (Parks(r, p) /\ p.scope = "account") \/ ForgetsCredential(r, p)
  THEN UnbindByAccount(acct[r]) ELSE sticky

ApplyCooldown(r, p) ==
  /\ park' = ParkAfter(r, p)
  /\ sticky' = StickyAfter(r, p)
  /\ dead' = IF p.reason \in DeadReasons THEN [dead EXCEPT ![r] = @ \cup {acct[r]}] ELSE dead

PolicyOf(r, k) ==
  ClassifyUpstreamResult(k, committed[r], repaired[r], acct[r] \in HasRefresh, SignatureRepair)

(* mutant: the retries already made are not looked at                         *)
CanRetrySameForever(r, p, fast) ==
  p.retrySameAccount /\ (p.reason = "incomplete_assistant" \/ fast)

(* canRetrySameAccount; a hop is fast if it took less than                    *)
(* same_account_retry_max_hop_ms                                              *)
CanRetrySame(r, p, fast) ==
  /\ p.retrySameAccount /\ retries[r][acct[r]] < MaxSameRetries
  /\ p.reason = "incomplete_assistant" \/ fast

-----------------------------------------------------------------------------
(* The loop.                                                                  *)

Goto(r, where) == pc' = [pc EXCEPT ![r] = where]

Begin(r) ==
  /\ pc[r] = "idle"
  /\ Goto(r, "turn")
  /\ UNCHANGED <<acct, run, committed, aborted, ok, hist, shared>>

(* The top of the loop; without another attempt the run returns the last      *)
(* result or a pool error.  Any turn may find total_retry_deadline_ms passed. *)
LoopTop(r) ==
  /\ pc[r] = "turn"
  /\ \/ /\ attempt[r] > 0 \/ aborted[r] \/ MaxAttempts = 0
        /\ Goto(r, "done")
        /\ UNCHANGED <<acct, attempt>>
     \/ /\ attempt[r] < MaxAttempts /\ ~aborted[r]
        /\ attempt' = [attempt EXCEPT ![r] = @ + 1]
        /\ Goto(r, "select") /\ Pool!Ask(r)
  /\ UNCHANGED <<switches, repaired, excluded, retries, committed, aborted, ok, hist, shared>>

(* mutant: the accounts given up are forgotten when the selection runs again  *)
SelectableAgain(r, a) ==
  /\ Pinned(r) => a = PinTo[r]
  /\ park[a] = "none" \/ (park[a] = "dead" /\ Pinned(r))

Selectable(r, a) ==
  /\ a \notin excluded[r]
  /\ Pinned(r) => a = PinTo[r]
  /\ park[a] = "none" \/ (park[a] = "dead" /\ Pinned(r))

(* selectAndReserve succeeds; the conversation is bound and the attempt sent. *)
SelectAndReserve(r, a) ==
  /\ pc[r] = "select" /\ Selectable(r, a)
  /\ Goto(r, "send") /\ Pool!Grant(r, a)
  /\ committed' = [committed EXCEPT ![r] = FALSE]
  /\ sticky' = BindAll(r, a)
  /\ sent' = [sent EXCEPT ![r][a] = @ + 1]
  /\ UNCHANGED <<run, aborted, ok, wrote, dead, park>>

(* No account, none in time, a full queue, or the client is gone.             *)
SelectFails(r) ==
  /\ pc[r] = "select"
  /\ Goto(r, "done") /\ Pool!Refuse(r)
  /\ UNCHANGED <<run, committed, aborted, ok, hist, shared>>

(* onCommit: the first output of the attempt goes to the client.              *)
Commit(r) ==
  /\ pc[r] = "send" /\ r \in Streaming /\ ~committed[r]
  /\ committed' = [committed EXCEPT ![r] = TRUE]
  /\ wrote' = [wrote EXCEPT ![r] = @ \cup {acct[r]}]
  /\ UNCHANGED <<pc, acct, run, aborted, ok, sent, dead, shared>>

(* The answers an attempt can get: the status of a stream that has begun is   *)
(* 200, and only an assembled answer carries its content.                     *)
Answers(r) ==
  Kinds \cap (IF committed[r]
              THEN {"streamed", "incomplete", "transport", "cancelled", "auth_unconfirmed", "auth_dead"}
              ELSE Results \ (IF r \in Streaming THEN {"streamed", "complete"} ELSE {"streamed"}))

Succeeds(r, k) == k = "complete" \/ (k = "refusal" /\ ~committed[r])

(* markSuccess, bindAll, and finally release; the response is a success if    *)
(* the message still counts as complete (finalizeAssembledAssistantHop).      *)
Finish(r, k) ==
  /\ pc[r] = "send" /\ k \in Answers(r) /\ Succeeds(r, k)
  /\ Goto(r, "done") /\ Pool!Return(r)
  /\ ok' = [ok EXCEPT ![r] = (k = "complete")]
  /\ park' = [park EXCEPT ![acct[r]] = IF @ = "cool" THEN "none" ELSE @]
  /\ sticky' = BindAll(r, acct[r])
  /\ UNCHANGED <<run, committed, aborted, sent, wrote, dead>>

(* repairAnthropicRequest, once per run                                       *)
Repair(r, k) ==
  /\ pc[r] = "send" /\ k \in Answers(r)
  /\ PolicyOf(r, k).action = "repair-and-retry"
  /\ repaired' = [repaired EXCEPT ![r] = TRUE]
  /\ Goto(r, "turn") /\ Pool!Return(r)
  /\ UNCHANGED <<attempt, switches, excluded, retries, committed, aborted, ok, hist, shared>>

(* The attempt ends the run: the account is parked, the answer is passed on.  *)
Conclude(r, k) ==
  /\ pc[r] = "send" /\ k \in Answers(r) /\ ~Succeeds(r, k)
  /\ PolicyOf(r, k).action \in {"stop", "disable"}
  /\ ApplyCooldown(r, PolicyOf(r, k))
  /\ Goto(r, "done") /\ Pool!Return(r)
  /\ UNCHANGED <<run, committed, aborted, ok, sent, wrote>>

(* Another attempt: on the account again after a pause in which it is still   *)
(* held, or on another one.                                                   *)
GoOn(r, p, limited) ==
  /\ ApplyCooldown(r, p)
  /\ \E fast \in BOOLEAN :
       \/ /\ CanRetrySame(r, p, fast)
          /\ retries' = [retries EXCEPT ![r][acct[r]] = @ + 1]
          /\ Goto(r, "sleep")
          /\ UNCHANGED <<acct, excluded, switches>>
       \/ /\ ~CanRetrySame(r, p, fast)
          /\ excluded' = [excluded EXCEPT ![r] = @ \cup {acct[r]}]
          /\ switches' = [switches EXCEPT ![r] = @ + 1]
          /\ Goto(r, IF limited /\ switches[r] >= MaxSwitches THEN "done" ELSE "turn")
          /\ Pool!Return(r)
          /\ UNCHANGED retries
  /\ UNCHANGED <<attempt, repaired, committed, aborted, ok, sent, wrote>>

Fail(r, k) ==
  /\ pc[r] = "send" /\ k \in Answers(r)
  /\ ShouldContinue(PolicyOf(r, k))
  /\ GoOn(r, PolicyOf(r, k), TRUE)

(* The call throws.  A run that has written to the client ends, without       *)
(* parking the account; max_account_switches is not looked at here.           *)
Throw(r, k) ==
  /\ pc[r] = "send"
  /\ k \in Kinds \cap {"cancelled", "auth_unconfirmed", "auth_dead", "wrap", "transport", "proxy"}
  /\ IF committed[r] \/ ~ShouldContinue(PolicyOf(r, k))
     THEN /\ Goto(r, "done") /\ Pool!Return(r)
          /\ UNCHANGED <<run, committed, aborted, ok, hist, shared>>
     ELSE GoOn(r, PolicyOf(r, k), FALSE)

(* mutant: the retry goes on without the finally                              *)
WakeHolding(r) ==
  /\ pc[r] = "sleep" /\ Goto(r, "turn")
  /\ UNCHANGED <<acct, run, committed, aborted, ok, hist, shared>>

(* sleepWithSignal ends; finally releases the account.                        *)
Wake(r) ==
  /\ pc[r] = "sleep"
  /\ Goto(r, "turn") /\ Pool!Return(r)
  /\ UNCHANGED <<run, committed, aborted, ok, hist, shared>>

(* The client goes away: a sleeping run ends at once, the others at the next  *)
(* turn, selection or answer.                                                 *)
Abort(r) ==
  /\ r \in Cancellable /\ pc[r] \notin {"idle", "done"} /\ ~aborted[r]
  /\ aborted' = [aborted EXCEPT ![r] = TRUE]
  /\ IF pc[r] = "sleep" THEN Goto(r, "done") /\ Pool!Return(r) ELSE UNCHANGED <<pc, acct>>
  /\ UNCHANGED <<run, committed, ok, hist, shared>>

CooldownEnds(a) ==
  /\ park[a] = "cool"
  /\ park' = [park EXCEPT ![a] = "none"]
  /\ UNCHANGED <<pc, acct, run, committed, aborted, ok, hist, sticky>>

Next ==
  \/ \E r \in Requests :
       \/ Begin(r) \/ LoopTop(r) \/ SelectFails(r) \/ Commit(r) \/ Wake(r)
       \/ Abort(r)
       \/ \E a \in Accounts : SelectAndReserve(r, a)
       \/ \E k \in Kinds : Finish(r, k) \/ Repair(r, k) \/ Conclude(r, k) \/ Fail(r, k) \/ Throw(r, k)
  \/ \E a \in Accounts : CooldownEnds(a)

Spec == Init /\ [][Next]_vars

-----------------------------------------------------------------------------
(* Properties.                                                                *)

(* Types, and: a run holds an account exactly while it sends or pauses before *)
(* it sends again (finally releases on every way out).                        *)
TypeOK ==
  /\ pc \in [Requests -> {"idle", "turn", "select", "done"} \cup Holding]
  /\ acct \in [Requests -> Accounts \cup {NoAccount}]
  /\ attempt \in [Requests -> Nat]
  /\ switches \in [Requests -> Nat]
  /\ repaired \in [Requests -> BOOLEAN]
  /\ excluded \in [Requests -> SUBSET Accounts]
  /\ retries \in [Requests -> [Accounts -> Nat]]
  /\ committed \in [Requests -> BOOLEAN]
  /\ aborted \in [Requests -> BOOLEAN]
  /\ ok \in [Requests -> BOOLEAN]
  /\ sent \in [Requests -> [Accounts -> Nat]]
  /\ wrote \in [Requests -> SUBSET Accounts]
  /\ dead \in [Requests -> SUBSET Accounts]
  /\ park \in [Accounts -> {"none", "cool", "dead"}]
  /\ sticky \in [Keys -> Accounts \cup {NoAccount}]
  /\ \A r \in Requests : pc[r] \in Holding <=> acct[r] # NoAccount

(* However answers, exceptions, repairs and retries alternate, one client     *)
(* request reaches an account at most once, plus its same-account retries,    *)
(* plus once for the repaired body.                                           *)
AttemptsPerAccount ==
  \A r \in Requests, a \in Accounts : sent[r][a] <= MaxSameRetries + 2

(* Every account switch gives up one more account: none is counted twice, and *)
(* none that was given up is used again in the run.                           *)
SwitchesExact ==
  \A r \in Requests : switches[r] = Cardinality(excluded[r])

(* Once output of an account has reached the client, the run goes on only if  *)
(* the grant of that account turned out to be dead.                           *)
OutputEndsRun ==
  \A r \in Requests, a \in Accounts :
    a \in wrote[r] => \/ pc[r] = "done" \/ a \in dead[r]
                      \/ acct[r] = a /\ committed[r]
=============================================================================
