------------------------ MODULE FailoverRunnerProofs ------------------------
(* Machine-checked theorems about FailoverRunner, for any requests, accounts, *)
(* kinds of answers and limits.                                               *)
EXTENDS FailoverRunner, FiniteSetTheorems, TLAPS

-----------------------------------------------------------------------------
(* The inductive invariant, request by request.                               *)

(* The account in use is not one the run gave up, and the accounts given up   *)
(* are finitely many, so that adding one adds one to their number.            *)
GivenUp(r) ==
  /\ IsFiniteSet(excluded[r]) /\ acct[r] \notin excluded[r]
  /\ switches[r] = Cardinality(excluded[r])

(* The one attempt that no retry and no repair accounts for: the one being    *)
(* sent, the one that gave the account up, or the one that ended the run.     *)
Extra(r, a) ==
  IF a \in excluded[r] \/ (acct[r] = a /\ pc[r] = "send") \/ pc[r] = "done" THEN 1 ELSE 0

Repairs(r) == IF repaired[r] THEN 1 ELSE 0

(* Every attempt on an account is paid for.                                   *)
SentPaid(r) ==
  \A a \in Accounts :
    /\ retries[r][a] <= MaxSameRetries
    /\ sent[r][a] <= retries[r][a] + Repairs(r) + Extra(r, a)

(* A run pauses for the same account only while nothing has been written, and *)
(* goes on after output only past a dead grant.                               *)
Silent(r) ==
  /\ pc[r] = "sleep" => ~committed[r]
  /\ \A a \in wrote[r] : \/ pc[r] = "done" \/ a \in dead[r]
                         \/ acct[r] = a /\ committed[r]

RunInv(r) == GivenUp(r) /\ SentPaid(r) /\ Silent(r)

IInv == TypeOK /\ \A r \in Requests : RunInv(r)

-----------------------------------------------------------------------------
(* What the classification of an answer guarantees.                           *)

(* A body is repaired at most once, and never after output.                   *)
LEMMA RepairOnce ==
  ASSUME NEW k, NEW com \in BOOLEAN, NEW rep \in BOOLEAN, NEW ref \in BOOLEAN, NEW sig \in BOOLEAN,
         ClassifyUpstreamResult(k, com, rep, ref, sig).action = "repair-and-retry"
  PROVE  ~rep /\ ~com
BY DEF ClassifyUpstreamResult, OpenPolicy, Policy, Stop, Continue, Cool

(* After output the run goes on only if the grant is dead, and elsewhere.     *)
LEMMA OutputContinues ==
  ASSUME NEW k, NEW rep \in BOOLEAN, NEW ref \in BOOLEAN, NEW sig \in BOOLEAN,
         ShouldContinue(ClassifyUpstreamResult(k, TRUE, rep, ref, sig))
  PROVE  /\ ClassifyUpstreamResult(k, TRUE, rep, ref, sig).reason \in DeadReasons
         /\ ClassifyUpstreamResult(k, TRUE, rep, ref, sig).retrySameAccount = FALSE
BY DEF ClassifyUpstreamResult, OpenPolicy, Policy, Stop, Continue, Cool, ShouldContinue, DeadReasons

-----------------------------------------------------------------------------
(* The pool and the other requests.                                           *)

LEMMA PoolReturn ==
  ASSUME NEW r \in Requests, Pool!Return(r)
  PROVE  acct' = [acct EXCEPT ![r] = NoAccount]
BY DEF Pool!Return

(* An action of one run leaves the others alone.                              *)
LEMMA OneRun ==
  ASSUME IInv, NEW r \in Requests, TypeOK', RunInv(r)',
         \A x \in Requests : x # r =>
           /\ pc'[x] = pc[x] /\ acct'[x] = acct[x] /\ switches'[x] = switches[x]
           /\ repaired'[x] = repaired[x] /\ excluded'[x] = excluded[x]
           /\ retries'[x] = retries[x] /\ committed'[x] = committed[x]
           /\ sent'[x] = sent[x] /\ wrote'[x] = wrote[x] /\ dead'[x] = dead[x]
  PROVE  IInv'
<1> SUFFICES ASSUME NEW x \in Requests, x # r PROVE RunInv(x)'
  BY DEF IInv
<1>1. RunInv(x)
  BY DEF IInv
<1>2. GivenUp(x)' /\ Silent(x)'
  BY <1>1 DEF RunInv, GivenUp, Silent
<1>3. SentPaid(x)'
  BY <1>1 DEF RunInv, SentPaid, Extra, Repairs
<1> QED  BY <1>2, <1>3 DEF RunInv

LEMMA InitHolds == Init => IInv
<1> SUFFICES ASSUME Init PROVE IInv
  OBVIOUS
<1>1. TypeOK
  <2>1. /\ repaired \in [Requests -> BOOLEAN] /\ committed \in [Requests -> BOOLEAN]
        /\ aborted \in [Requests -> BOOLEAN] /\ ok \in [Requests -> BOOLEAN]
    BY DEF Init
  <2> QED  BY <2>1 DEF Init, TypeOK, Holding
<1>2. ASSUME NEW r \in Requests PROVE RunInv(r)
  <2>1. IsFiniteSet({}) /\ Cardinality({}) = 0
    BY FS_EmptySet
  <2>2. GivenUp(r)
    BY <2>1 DEF Init, GivenUp
  <2>3. SentPaid(r)
    BY RunnerAssumption DEF Init, SentPaid, Extra, Repairs, RunnerAssumption
  <2>4. Silent(r)
    BY DEF Init, Silent
  <2> QED  BY <2>2, <2>3, <2>4 DEF RunInv
<1> QED  BY <1>1, <1>2 DEF IInv

-----------------------------------------------------------------------------
(* The building blocks of the actions.                                        *)

(* applyCooldown keeps the rows and bindings well formed, and records a dead  *)
(* grant.                                                                     *)
LEMMA CooldownFacts ==
  ASSUME TypeOK, NEW r \in Requests, acct[r] \in Accounts, NEW p, ApplyCooldown(r, p)
  PROVE  /\ park' \in [Accounts -> {"none", "cool", "dead"}]
         /\ sticky' \in [Keys -> Accounts \cup {NoAccount}]
         /\ dead' \in [Requests -> SUBSET Accounts]
         /\ dead[r] \subseteq dead'[r]
         /\ p.reason \in DeadReasons => acct[r] \in dead'[r]
         /\ \A x \in Requests : x # r => dead'[x] = dead[x]
<1>1. park' \in [Accounts -> {"none", "cool", "dead"}]
  BY DEF ApplyCooldown, ParkAfter, TypeOK
<1>2. sticky' \in [Keys -> Accounts \cup {NoAccount}]
  BY DEF ApplyCooldown, StickyAfter, UnbindByAccount, TypeOK
<1> QED  BY <1>1, <1>2 DEF ApplyCooldown, TypeOK

LEMMA BindType ==
  ASSUME TypeOK, NEW r \in Requests, NEW a \in Accounts
  PROVE  BindAll(r, a) \in [Keys -> Accounts \cup {NoAccount}]
BY RunnerAssumption DEF BindAll, TypeOK, RunnerAssumption

(* Nothing the invariant speaks of changes, except perhaps the flags.         *)
LEMMA Quiet ==
  ASSUME IInv,
         aborted' \in [Requests -> BOOLEAN], park' \in [Accounts -> {"none", "cool", "dead"}],
         UNCHANGED <<pc, acct, run, committed, ok, hist, sticky>>
  PROVE  IInv'
<1>1. TypeOK'
  BY DEF IInv, TypeOK, run, hist
<1>2. ASSUME NEW r \in Requests PROVE RunInv(r)'
  <2>1. RunInv(r)
    BY DEF IInv
  <2>2. GivenUp(r)' /\ Silent(r)'
    BY <2>1 DEF RunInv, GivenUp, Silent, run, hist
  <2>3. SentPaid(r)'
    BY <2>1 DEF RunInv, SentPaid, Extra, Repairs, run, hist
  <2> QED  BY <2>2, <2>3 DEF RunInv
<1> QED  BY <1>1, <1>2 DEF IInv

(* A run that is not sending moves on without an account, or ends.            *)
LEMMA RunMoves ==
  ASSUME IInv, NEW r \in Requests, NEW where \in {"turn", "select", "done"}, Goto(r, where),
         pc[r] # "done", where # "done" => pc[r] # "send",
         acct' = [acct EXCEPT ![r] = NoAccount],
         attempt' \in [Requests -> Nat], aborted' \in [Requests -> BOOLEAN], ok' \in [Requests -> BOOLEAN],
         park' \in [Accounts -> {"none", "cool", "dead"}], sticky' \in [Keys -> Accounts \cup {NoAccount}],
         dead' \in [Requests -> SUBSET Accounts], dead[r] \subseteq dead'[r],
         \A x \in Requests : x # r => dead'[x] = dead[x],
         UNCHANGED <<switches, repaired, excluded, retries, committed, sent, wrote>>
  PROVE  IInv'
<1>1. pc' = [pc EXCEPT ![r] = where]
  BY DEF Goto
<1>2. TypeOK /\ RunInv(r) /\ NoAccount \notin Accounts /\ MaxSameRetries \in Nat
  BY RunnerAssumption DEF IInv, RunnerAssumption
<1>3. TypeOK'
  <2>1. pc' \in [Requests -> {"idle", "turn", "select", "done"} \cup Holding]
    BY <1>1, <1>2 DEF TypeOK
  <2>2. \A x \in Requests : pc'[x] \in Holding <=> acct'[x] # NoAccount
    BY <1>1, <1>2 DEF TypeOK, Holding
  <2> QED  BY <1>2, <2>1, <2>2 DEF TypeOK
<1>4. GivenUp(r)'
  BY <1>2 DEF GivenUp, RunInv, TypeOK
<1>5. SentPaid(r)'
  <2> SUFFICES ASSUME NEW a \in Accounts PROVE Extra(r, a) <= Extra(r, a)'
    BY <1>2 DEF RunInv, SentPaid, Repairs, TypeOK, Extra
  <2> QED  BY <1>1, <1>2 DEF Extra, TypeOK
<1>6. Silent(r)'
  BY <1>1, <1>2 DEF Silent, RunInv, TypeOK, Holding
<1>7. \A x \in Requests : x # r => pc'[x] = pc[x] /\ acct'[x] = acct[x]
  BY <1>1, <1>2 DEF TypeOK
<1> QED  BY <1>3, <1>4, <1>5, <1>6, <1>7, OneRun DEF RunInv

(* Another attempt, on the same account or on another one.                    *)
LEMMA GoOnStep ==
  ASSUME IInv, NEW r \in Requests, pc[r] = "send", NEW p, NEW limited \in BOOLEAN,
         committed[r] => p.reason \in DeadReasons /\ p.retrySameAccount = FALSE,
         GoOn(r, p, limited)
  PROVE  IInv'
<1>1. TypeOK /\ RunInv(r) /\ NoAccount \notin Accounts /\ MaxSameRetries \in Nat
  BY RunnerAssumption DEF IInv, RunnerAssumption
<1>2. acct[r] \in Accounts
  BY <1>1 DEF TypeOK, Holding
<1>3. /\ park' \in [Accounts -> {"none", "cool", "dead"}]
      /\ sticky' \in [Keys -> Accounts \cup {NoAccount}]
      /\ dead' \in [Requests -> SUBSET Accounts]
      /\ dead[r] \subseteq dead'[r]
      /\ p.reason \in DeadReasons => acct[r] \in dead'[r]
      /\ \A x \in Requests : x # r => dead'[x] = dead[x]
  BY <1>1, <1>2, CooldownFacts DEF GoOn
<1>4. UNCHANGED <<attempt, repaired, committed, aborted, ok, sent, wrote>>
  BY DEF GoOn
<1>5. PICK fast \in BOOLEAN :
       \/ /\ CanRetrySame(r, p, fast)
          /\ retries' = [retries EXCEPT ![r][acct[r]] = @ + 1]
          /\ Goto(r, "sleep")
          /\ UNCHANGED <<acct, excluded, switches>>
       \/ /\ ~CanRetrySame(r, p, fast)
          /\ excluded' = [excluded EXCEPT ![r] = @ \cup {acct[r]}]
          /\ switches' = [switches EXCEPT ![r] = @ + 1]
          /\ Goto(r, IF limited /\ switches[r] >= MaxSwitches THEN "done" ELSE "turn")
          /\ Pool!Return(r)
          /\ UNCHANGED retries
  BY DEF GoOn
<1>6. CASE CanRetrySame(r, p, fast) /\ retries' = [retries EXCEPT ![r][acct[r]] = @ + 1]
           /\ Goto(r, "sleep") /\ UNCHANGED <<acct, excluded, switches>>
  <2>1. pc' = [pc EXCEPT ![r] = "sleep"] /\ retries[r][acct[r]] < MaxSameRetries /\ ~committed[r]
    BY <1>6 DEF Goto, CanRetrySame
  <2>2. TypeOK'
    <3>1. pc' \in [Requests -> {"idle", "turn", "select", "done"} \cup Holding]
      BY <1>1, <2>1 DEF TypeOK, Holding
    <3>2. retries' \in [Requests -> [Accounts -> Nat]]
      BY <1>1, <1>2, <1>6 DEF TypeOK
    <3>3. \A x \in Requests : pc'[x] \in Holding <=> acct'[x] # NoAccount
      BY <1>1, <1>2, <1>6, <2>1 DEF TypeOK, Holding
    <3> QED  BY <1>1, <1>3, <1>4, <1>6, <3>1, <3>2, <3>3 DEF TypeOK
  <2>3. GivenUp(r)'
    BY <1>1, <1>6 DEF RunInv, GivenUp
  <2>4. SentPaid(r)'
    <3> SUFFICES ASSUME NEW a \in Accounts
                 PROVE  /\ retries'[r][a] <= MaxSameRetries
                        /\ sent'[r][a] <= retries'[r][a] + Repairs(r)' + Extra(r, a)'
      BY DEF SentPaid
    <3>1. /\ retries[r][a] <= MaxSameRetries /\ retries[r][a] \in Nat /\ sent[r][a] \in Nat
          /\ sent[r][a] <= retries[r][a] + Repairs(r) + Extra(r, a)
      BY <1>1 DEF RunInv, SentPaid, TypeOK
    <3>2. Repairs(r)' = Repairs(r) /\ Repairs(r) \in Nat /\ sent'[r][a] = sent[r][a]
      BY <1>4 DEF Repairs
    <3>3. CASE a = acct[r]
      <4>1. retries'[r][a] = retries[r][a] + 1
        BY <1>1, <1>2, <1>6, <3>3 DEF TypeOK
      <4>2. Extra(r, a) \in {0, 1} /\ Extra(r, a)' \in {0, 1}
        BY DEF Extra
      <4> QED  BY <1>1, <2>1, <3>1, <3>2, <3>3, <4>1, <4>2
    <3>4. CASE a # acct[r]
      <4>1. retries'[r][a] = retries[r][a]
        BY <1>1, <1>2, <1>6, <3>4 DEF TypeOK
      <4>2. Extra(r, a) = Extra(r, a)'
        BY <1>6, <2>1, <3>4, <1>1 DEF Extra, TypeOK
      <4> QED  BY <3>1, <3>2, <4>1, <4>2
    <3> QED  BY <3>3, <3>4
  <2>5. Silent(r)'
    BY <1>1, <1>3, <1>4, <1>6, <2>1 DEF RunInv, Silent, TypeOK
  <2>6. \A x \in Requests : x # r => pc'[x] = pc[x] /\ retries'[x] = retries[x]
    BY <1>1, <1>6, <2>1 DEF TypeOK
  <2> QED  BY <1>3, <1>4, <1>6, <2>2, <2>3, <2>4, <2>5, <2>6, OneRun DEF RunInv
<1>7. CASE /\ excluded' = [excluded EXCEPT ![r] = @ \cup {acct[r]}]
           /\ switches' = [switches EXCEPT ![r] = @ + 1]
           /\ Goto(r, IF limited /\ switches[r] >= MaxSwitches THEN "done" ELSE "turn")
           /\ Pool!Return(r) /\ UNCHANGED retries
  <2>1. PICK where \in {"done", "turn"} : pc' = [pc EXCEPT ![r] = where]
    BY <1>7 DEF Goto
  <2>2. acct' = [acct EXCEPT ![r] = NoAccount]
    BY <1>7, PoolReturn
  <2>3. TypeOK'
    <3>1. /\ pc' \in [Requests -> {"idle", "turn", "select", "done"} \cup Holding]
          /\ excluded' \in [Requests -> SUBSET Accounts] /\ switches' \in [Requests -> Nat]
      BY <1>1, <1>2, <1>7, <2>1 DEF TypeOK
    <3>2. \A x \in Requests : pc'[x] \in Holding <=> acct'[x] # NoAccount
      BY <1>1, <2>1, <2>2 DEF TypeOK, Holding
    <3> QED  BY <1>1, <1>3, <1>4, <1>7, <2>2, <3>1, <3>2 DEF TypeOK
  <2>4. GivenUp(r)'
    <3>1. IsFiniteSet(excluded[r]) /\ acct[r] \notin excluded[r] /\ switches[r] = Cardinality(excluded[r])
      BY <1>1 DEF RunInv, GivenUp
    <3>2. /\ IsFiniteSet(excluded[r] \cup {acct[r]})
          /\ Cardinality(excluded[r] \cup {acct[r]}) = Cardinality(excluded[r]) + 1
      BY <3>1, FS_AddElement
    <3>3. excluded'[r] = excluded[r] \cup {acct[r]} /\ switches'[r] = switches[r] + 1 /\ acct'[r] = NoAccount
      BY <1>1, <1>7, <2>2 DEF TypeOK
    <3>4. NoAccount \notin excluded[r] \cup {acct[r]}
      BY <1>1, <1>2 DEF TypeOK
    <3> QED  BY <3>1, <3>2, <3>3, <3>4 DEF GivenUp
  <2>5. SentPaid(r)'
    <3>1. ASSUME NEW a \in Accounts PROVE Extra(r, a) <= Extra(r, a)'
      BY <1>1, <1>7, <2>1 DEF Extra, TypeOK
    <3>2. \A a \in Accounts : Extra(r, a) \in {0, 1} /\ Extra(r, a)' \in {0, 1}
      BY DEF Extra
    <3>3. Repairs(r)' = Repairs(r) /\ Repairs(r) \in {0, 1} /\ sent'[r] = sent[r] /\ retries'[r] = retries[r]
      BY <1>4, <1>7 DEF Repairs
    <3>4. ASSUME NEW a \in Accounts
          PROVE  /\ retries'[r][a] <= MaxSameRetries
                 /\ sent'[r][a] <= retries'[r][a] + Repairs(r)' + Extra(r, a)'
      <4>1. /\ retries[r][a] <= MaxSameRetries /\ retries[r][a] \in Nat /\ sent[r][a] \in Nat
            /\ sent[r][a] <= retries[r][a] + Repairs(r) + Extra(r, a)
        BY <1>1 DEF RunInv, SentPaid, TypeOK
      <4> QED  BY <3>1, <3>2, <3>3, <4>1
    <3> QED  BY <3>4 DEF SentPaid
  <2>6. Silent(r)'
    BY <1>1, <1>3, <1>4, <2>1 DEF RunInv, Silent, TypeOK
  <2>7. \A x \in Requests : x # r =>
          pc'[x] = pc[x] /\ acct'[x] = acct[x] /\ excluded'[x] = excluded[x] /\ switches'[x] = switches[x]
    BY <1>1, <1>7, <2>1, <2>2 DEF TypeOK
  <2> QED  BY <1>3, <1>4, <1>7, <2>3, <2>4, <2>5, <2>6, <2>7, OneRun DEF RunInv
<1> QED  BY <1>5, <1>6, <1>7

-----------------------------------------------------------------------------
(* One lemma per action or group of actions.                                  *)

(* selectAndReserve hands out an account the run has not given up.            *)
LEMMA SelectStep ==
  ASSUME IInv, NEW r \in Requests, NEW b \in Accounts, SelectAndReserve(r, b)
  PROVE  IInv'
<1>1. TypeOK /\ RunInv(r) /\ NoAccount \notin Accounts /\ MaxSameRetries \in Nat
  BY RunnerAssumption DEF IInv, RunnerAssumption
<1>2. /\ pc[r] = "select" /\ b \notin excluded[r] /\ pc' = [pc EXCEPT ![r] = "send"]
      /\ acct' = [acct EXCEPT ![r] = b] /\ committed' = [committed EXCEPT ![r] = FALSE]
      /\ sent' = [sent EXCEPT ![r][b] = @ + 1]
      /\ UNCHANGED <<run, aborted, ok, wrote, dead, park>>
  BY DEF SelectAndReserve, Selectable, Goto, Pool!Grant
<1>3. acct[r] = NoAccount
  BY <1>1, <1>2 DEF TypeOK, Holding
<1>4. TypeOK'
  <2>1. sticky' \in [Keys -> Accounts \cup {NoAccount}]
    BY <1>1, BindType DEF SelectAndReserve
  <2>2. /\ pc' \in [Requests -> {"idle", "turn", "select", "done"} \cup Holding]
        /\ acct' \in [Requests -> Accounts \cup {NoAccount}]
        /\ \A x \in Requests : pc'[x] \in Holding <=> acct'[x] # NoAccount
    BY <1>1, <1>2 DEF TypeOK, Holding
  <2>3. sent' \in [Requests -> [Accounts -> Nat]] /\ committed' \in [Requests -> BOOLEAN]
    BY <1>1, <1>2 DEF TypeOK
  <2> QED  BY <1>1, <1>2, <2>1, <2>2, <2>3 DEF TypeOK, run
<1>5. GivenUp(r)'
  BY <1>1, <1>2 DEF RunInv, GivenUp, run, TypeOK
<1>6. SentPaid(r)'
  <2> SUFFICES ASSUME NEW a \in Accounts
               PROVE  /\ retries'[r][a] <= MaxSameRetries
                      /\ sent'[r][a] <= retries'[r][a] + Repairs(r)' + Extra(r, a)'
    BY DEF SentPaid
  <2>1. /\ retries[r][a] <= MaxSameRetries /\ retries[r][a] \in Nat /\ sent[r][a] \in Nat
        /\ sent[r][a] <= retries[r][a] + Repairs(r) + Extra(r, a)
    BY <1>1 DEF RunInv, SentPaid, TypeOK
  <2>2. Repairs(r)' = Repairs(r) /\ Repairs(r) \in Nat /\ retries'[r][a] = retries[r][a]
    BY <1>2 DEF Repairs, run
  <2>3. CASE a = b
    <3>1. sent'[r][a] = sent[r][a] + 1
      BY <1>1, <1>2, <2>3 DEF TypeOK
    <3>2. Extra(r, a) = 0 /\ Extra(r, a)' = 1
      BY <1>1, <1>2, <1>3, <2>3 DEF Extra, run, TypeOK
    <3> QED  BY <2>1, <2>2, <3>1, <3>2
  <2>4. CASE a # b
    <3>1. sent'[r][a] = sent[r][a]
      BY <1>1, <1>2, <2>4 DEF TypeOK
    <3>2. Extra(r, a)' = Extra(r, a)
      BY <1>1, <1>2, <1>3, <2>4 DEF Extra, run, TypeOK
    <3> QED  BY <2>1, <2>2, <3>1, <3>2
  <2> QED  BY <2>3, <2>4
<1>7. Silent(r)'
  BY <1>1, <1>2, <1>3 DEF RunInv, Silent, TypeOK
<1>8. \A x \in Requests : x # r =>
        pc'[x] = pc[x] /\ acct'[x] = acct[x] /\ committed'[x] = committed[x] /\ sent'[x] = sent[x]
  BY <1>1, <1>2 DEF TypeOK
<1> QED  BY <1>2, <1>4, <1>5, <1>6, <1>7, <1>8, OneRun DEF RunInv, run

(* onCommit: output reaches the client, from the account in use.              *)
LEMMA CommitStep ==
  ASSUME IInv, NEW r \in Requests, Commit(r)
  PROVE  IInv'
<1>1. TypeOK /\ RunInv(r)
  BY DEF IInv
<1>2. /\ pc[r] = "send" /\ committed' = [committed EXCEPT ![r] = TRUE]
      /\ wrote' = [wrote EXCEPT ![r] = @ \cup {acct[r]}]
      /\ UNCHANGED <<pc, acct, run, aborted, ok, sent, dead, shared>>
  BY DEF Commit
<1>3. acct[r] \in Accounts
  BY <1>1, <1>2 DEF TypeOK, Holding
<1>4. TypeOK'
  <2>1. committed' \in [Requests -> BOOLEAN] /\ wrote' \in [Requests -> SUBSET Accounts]
    BY <1>1, <1>2, <1>3 DEF TypeOK
  <2> QED  BY <1>1, <1>2, <2>1 DEF TypeOK, run, shared
<1>5. GivenUp(r)' /\ Silent(r)'
  BY <1>1, <1>2 DEF RunInv, GivenUp, Silent, run, TypeOK
<1>6. SentPaid(r)'
  BY <1>1, <1>2 DEF RunInv, SentPaid, Extra, Repairs, run
<1>7. \A x \in Requests : x # r => committed'[x] = committed[x] /\ wrote'[x] = wrote[x]
  BY <1>1, <1>2 DEF TypeOK
<1> QED  BY <1>2, <1>4, <1>5, <1>6, <1>7, OneRun DEF RunInv, run

(* A repaired body pays for one more attempt, once per run.                   *)
LEMMA RepairStep ==
  ASSUME IInv, NEW r \in Requests, NEW k, Repair(r, k)
  PROVE  IInv'
<1>1. TypeOK /\ RunInv(r) /\ NoAccount \notin Accounts
  BY RunnerAssumption DEF IInv, RunnerAssumption
<1>2. /\ pc[r] = "send" /\ repaired' = [repaired EXCEPT ![r] = TRUE]
      /\ pc' = [pc EXCEPT ![r] = "turn"] /\ acct' = [acct EXCEPT ![r] = NoAccount]
      /\ UNCHANGED <<attempt, switches, excluded, retries, committed, aborted, ok, hist, shared>>
  BY PoolReturn DEF Repair, Goto
<1>3. ~repaired[r] /\ ~committed[r]
  <2>1. /\ committed[r] \in BOOLEAN /\ repaired[r] \in BOOLEAN
        /\ (acct[r] \in HasRefresh) \in BOOLEAN /\ SignatureRepair \in BOOLEAN
    BY <1>1, RunnerAssumption DEF TypeOK, RunnerAssumption
  <2>2. ClassifyUpstreamResult(k, committed[r], repaired[r], acct[r] \in HasRefresh, SignatureRepair).action
          = "repair-and-retry"
    BY DEF Repair, PolicyOf
  <2> QED  BY <2>1, <2>2, RepairOnce
<1>4. TypeOK'
  <2>1. /\ pc' \in [Requests -> {"idle", "turn", "select", "done"} \cup Holding]
        /\ acct' \in [Requests -> Accounts \cup {NoAccount}]
        /\ repaired' \in [Requests -> BOOLEAN]
        /\ \A x \in Requests : pc'[x] \in Holding <=> acct'[x] # NoAccount
    BY <1>1, <1>2 DEF TypeOK, Holding
  <2> QED  BY <1>1, <1>2, <2>1 DEF TypeOK, hist, shared
<1>5. GivenUp(r)'
  BY <1>1, <1>2 DEF RunInv, GivenUp, TypeOK
<1>6. SentPaid(r)'
  <2>1. Repairs(r) = 0 /\ Repairs(r)' = 1
    BY <1>1, <1>2, <1>3 DEF Repairs, TypeOK
  <2>2. \A a \in Accounts : Extra(r, a) \in {0, 1} /\ Extra(r, a)' \in {0, 1}
    BY DEF Extra
  <2>3. ASSUME NEW a \in Accounts
        PROVE  /\ retries'[r][a] <= MaxSameRetries
               /\ sent'[r][a] <= retries'[r][a] + Repairs(r)' + Extra(r, a)'
    <3>1. /\ retries[r][a] <= MaxSameRetries /\ retries[r][a] \in Nat /\ sent[r][a] \in Nat
          /\ sent[r][a] <= retries[r][a] + Repairs(r) + Extra(r, a)
      BY <1>1 DEF RunInv, SentPaid, TypeOK
    <3>2. sent'[r][a] = sent[r][a] /\ retries'[r][a] = retries[r][a]
      BY <1>2 DEF hist
    <3> QED  BY <2>1, <2>2, <3>1, <3>2
  <2> QED  BY <2>3 DEF SentPaid
<1>7. Silent(r)'
  BY <1>1, <1>2, <1>3 DEF RunInv, Silent, TypeOK, hist
<1>8. \A x \in Requests : x # r => pc'[x] = pc[x] /\ acct'[x] = acct[x] /\ repaired'[x] = repaired[x]
  BY <1>1, <1>2 DEF TypeOK
<1> QED  BY <1>2, <1>4, <1>5, <1>6, <1>7, <1>8, OneRun DEF RunInv, hist

(* The steps at which the run ends or goes to another turn as it is.          *)
LEMMA MoveStep ==
  ASSUME IInv, NEW r \in Requests,
         Begin(r) \/ LoopTop(r) \/ SelectFails(r) \/ Wake(r) \/ Abort(r)
  PROVE  IInv'
<1>1. TypeOK /\ NoAccount \notin Accounts
  BY RunnerAssumption DEF IInv, RunnerAssumption
<1>2. pc[r] \notin Holding => [acct EXCEPT ![r] = NoAccount] = acct
  BY <1>1 DEF TypeOK
<1>3. CASE Begin(r)
  BY <1>1, <1>2, <1>3, RunMoves DEF Begin, TypeOK, Holding, run, hist, shared
<1>4. CASE LoopTop(r)
  <2>1. CASE Goto(r, "done") /\ UNCHANGED <<acct, attempt>>
    BY <1>1, <1>2, <1>4, <2>1, RunMoves DEF LoopTop, TypeOK, Holding, hist, shared
  <2>2. CASE attempt' = [attempt EXCEPT ![r] = @ + 1] /\ Goto(r, "select") /\ Pool!Ask(r)
    <3>1. acct' = acct /\ attempt' \in [Requests -> Nat]
      BY <1>1, <2>2 DEF Pool!Ask, TypeOK
    <3> QED  BY <1>1, <1>2, <1>4, <2>2, <3>1, RunMoves DEF LoopTop, TypeOK, Holding, hist, shared
  <2> QED  BY <1>4, <2>1, <2>2 DEF LoopTop
<1>5. CASE SelectFails(r)
  <2>1. acct' = acct
    BY <1>5 DEF SelectFails, Pool!Refuse
  <2> QED  BY <1>1, <1>2, <1>5, <2>1, RunMoves DEF SelectFails, TypeOK, Holding, run, hist, shared
<1>6. CASE Wake(r)
  BY <1>1, <1>6, PoolReturn, RunMoves DEF Wake, TypeOK, run, hist, shared
<1>7. CASE Abort(r)
  <2>1. aborted' \in [Requests -> BOOLEAN]
    BY <1>1, <1>7 DEF Abort, TypeOK
  <2>2. CASE pc[r] = "sleep"
    BY <1>1, <1>7, <2>1, <2>2, PoolReturn, RunMoves DEF Abort, TypeOK, run, hist, shared
  <2>3. CASE pc[r] # "sleep"
    BY <1>1, <1>7, <2>1, <2>3, Quiet DEF Abort, TypeOK, shared
  <2> QED  BY <2>2, <2>3
<1> QED  BY <1>3, <1>4, <1>5, <1>6, <1>7

(* An answer ends the run.                                                    *)
LEMMA EndStep ==
  ASSUME IInv, NEW r \in Requests, NEW k, Finish(r, k) \/ Conclude(r, k)
  PROVE  IInv'
<1>1. TypeOK /\ NoAccount \notin Accounts
  BY RunnerAssumption DEF IInv, RunnerAssumption
<1>2. pc[r] = "send" /\ acct[r] \in Accounts
  BY <1>1 DEF Finish, Conclude, TypeOK, Holding
<1>3. CASE Finish(r, k)
  <2>1. ok' \in [Requests -> BOOLEAN] /\ park' \in [Accounts -> {"none", "cool", "dead"}]
    BY <1>1, <1>2, <1>3 DEF Finish, TypeOK
  <2>2. sticky' \in [Keys -> Accounts \cup {NoAccount}]
    BY <1>1, <1>2, <1>3, BindType DEF Finish
  <2> QED  BY <1>1, <1>2, <1>3, <2>1, <2>2, PoolReturn, RunMoves DEF Finish, TypeOK, run
<1>4. CASE Conclude(r, k)
  <2>1. /\ park' \in [Accounts -> {"none", "cool", "dead"}]
        /\ sticky' \in [Keys -> Accounts \cup {NoAccount}]
        /\ dead' \in [Requests -> SUBSET Accounts] /\ dead[r] \subseteq dead'[r]
        /\ \A x \in Requests : x # r => dead'[x] = dead[x]
    BY <1>1, <1>2, <1>4, CooldownFacts DEF Conclude
  <2> QED  BY <1>1, <1>2, <1>4, <2>1, PoolReturn, RunMoves DEF Conclude, TypeOK, run
<1> QED  BY <1>3, <1>4

(* An answer or an exception after which the run goes on.                     *)
LEMMA FailStep ==
  ASSUME IInv, NEW r \in Requests, NEW k, Fail(r, k) \/ Throw(r, k)
  PROVE  IInv'
<1>1. TypeOK
  BY DEF IInv
<1>2. ASSUME committed[r], ShouldContinue(PolicyOf(r, k))
      PROVE  PolicyOf(r, k).reason \in DeadReasons /\ PolicyOf(r, k).retrySameAccount = FALSE
  <2>1. /\ committed[r] = TRUE /\ repaired[r] \in BOOLEAN
        /\ (acct[r] \in HasRefresh) \in BOOLEAN /\ SignatureRepair \in BOOLEAN
    BY <1>1, <1>2, RunnerAssumption DEF TypeOK, RunnerAssumption
  <2> QED  BY <1>2, <2>1, OutputContinues DEF PolicyOf
<1>3. CASE Fail(r, k)
  BY <1>2, <1>3, GoOnStep DEF Fail
<1>4. CASE Throw(r, k)
  <2>1. CASE committed[r] \/ ~ShouldContinue(PolicyOf(r, k))
    BY <1>1, <1>4, <2>1, PoolReturn, RunMoves DEF Throw, TypeOK, run, hist, shared
  <2>2. CASE ~(committed[r] \/ ~ShouldContinue(PolicyOf(r, k)))
    BY <1>4, <2>2, GoOnStep DEF Throw
  <2> QED  BY <2>1, <2>2
<1> QED  BY <1>3, <1>4

LEMMA NextHolds == IInv /\ [Next]_vars => IInv'
<1> SUFFICES ASSUME IInv, [Next]_vars PROVE IInv'
  OBVIOUS
<1>1. TypeOK
  BY DEF IInv
<1>2. ASSUME NEW a \in Accounts, CooldownEnds(a) PROVE IInv'
  <2>1. park' \in [Accounts -> {"none", "cool", "dead"}] /\ aborted' \in [Requests -> BOOLEAN]
    BY <1>1, <1>2 DEF CooldownEnds, TypeOK
  <2> QED  BY <1>2, <2>1, Quiet DEF CooldownEnds
<1>3. CASE UNCHANGED vars
  BY <1>1, <1>3, Quiet DEF vars, shared, TypeOK
<1> QED
  BY <1>2, <1>3, MoveStep, SelectStep, CommitStep, RepairStep, EndStep, FailStep DEF Next

-----------------------------------------------------------------------------
(* The theorems.                                                              *)

(* The invariant of every run holds throughout.                               *)
THEOREM Inductive == Spec => []IInv
BY InitHolds, NextHolds, PTL DEF Spec

(* A run holds an account exactly while it sends or pauses: the finally of    *)
(* the loop releases on every way out of an attempt.                          *)
THEOREM TypeCorrect == Spec => []TypeOK
<1>1. IInv => TypeOK
  BY DEF IInv
<1> QED  BY <1>1, Inductive, PTL

(* One client request reaches an account at most max_same_account_retries     *)
(* plus two times, whatever mix of answers, exceptions and repairs it meets,  *)
(* and whatever the limit of total attempts.                                  *)
THEOREM AttemptsBounded == Spec => []AttemptsPerAccount
<1>1. IInv => AttemptsPerAccount
  <2> SUFFICES ASSUME IInv, NEW r \in Requests, NEW a \in Accounts
               PROVE  sent[r][a] <= MaxSameRetries + 2
    BY DEF AttemptsPerAccount
  <2>1. /\ retries[r][a] <= MaxSameRetries /\ retries[r][a] \in Nat /\ sent[r][a] \in Nat
        /\ sent[r][a] <= retries[r][a] + Repairs(r) + Extra(r, a)
    BY DEF IInv, RunInv, SentPaid, TypeOK
  <2>2. Repairs(r) \in {0, 1} /\ Extra(r, a) \in {0, 1} /\ MaxSameRetries \in Nat
    BY RunnerAssumption DEF Repairs, Extra, RunnerAssumption
  <2> QED  BY <2>1, <2>2
<1> QED  BY <1>1, Inductive, PTL

(* accountSwitches counts the accounts given up, each once.                   *)
THEOREM SwitchesCorrect == Spec => []SwitchesExact
<1>1. IInv => SwitchesExact
  BY DEF IInv, RunInv, GivenUp, SwitchesExact
<1> QED  BY <1>1, Inductive, PTL

(* After output has reached the client the run ends, or goes on only because  *)
(* the grant of the account that wrote it is dead.                            *)
THEOREM OutputCorrect == Spec => []OutputEndsRun
<1>1. IInv => OutputEndsRun
  BY DEF IInv, RunInv, Silent, OutputEndsRun
<1> QED  BY <1>1, Inductive, PTL

-----------------------------------------------------------------------------
(* The runner and its account pool.                                           *)

Phase(where) ==
  IF where = "select" THEN "asking" ELSE IF where \in Holding THEN "holding" ELSE "out"

(* A run that moves within its phase leaves the pool alone.                   *)
LEMMA PoolStutters ==
  ASSUME acct' = acct, \A q \in Requests : Phase(pc'[q]) = Phase(pc[q])
  PROVE  UNCHANGED Pool!vars
<1>1. [q \in Requests |-> Phase(pc'[q])] = [q \in Requests |-> Phase(pc[q])]
  OBVIOUS
<1> QED  BY <1>1 DEF Pool!vars, Phase

LEMMA PhaseKept ==
  ASSUME TypeOK, NEW r \in Requests, NEW where, Goto(r, where), Phase(where) = Phase(pc[r]), acct' = acct
  PROVE  UNCHANGED Pool!vars
<1>1. \A q \in Requests : Phase(pc'[q]) = Phase(pc[q])
  BY DEF Goto, TypeOK
<1> QED  BY <1>1, PoolStutters

LEMMA GoOnUsesPool ==
  ASSUME TypeOK, NEW r \in Requests, NEW p, NEW limited, pc[r] = "send", GoOn(r, p, limited)
  PROVE  Pool!Next \/ UNCHANGED Pool!vars
<1>1. (Goto(r, "sleep") /\ acct' = acct) \/ Pool!Return(r)
  BY DEF GoOn
<1>2. Phase("sleep") = Phase(pc[r])
  BY DEF Phase, Holding
<1> QED  BY <1>1, <1>2, PhaseKept DEF Pool!Next

(* The runner keeps to the protocol of the pool: it asks before it is given   *)
(* an account, takes no account beyond its limit, asks for no second one      *)
(* while it holds one, and gives each back exactly once, on whatever way an   *)
(* attempt ends (a throw, an abort in the pause and the finally included).    *)
(* With the theorem Refinement of PoolSchedulerProofs both sides of the       *)
(* boundary follow AccountPool.                                               *)
THEOREM UsesAccountPool == Spec => Pool!Spec
<1>1. Init => Pool!Init
  BY DEF Init, Pool!Init, Holding
<1>2. ASSUME IInv, [Next]_vars PROVE Pool!Next \/ UNCHANGED Pool!vars
  <2>1. TypeOK
    BY <1>2 DEF IInv
  <2>2. ASSUME NEW r \in Requests, Begin(r) PROVE UNCHANGED Pool!vars
    <3>1. Goto(r, "turn") /\ acct' = acct /\ Phase("turn") = Phase(pc[r])
      BY <2>2 DEF Begin, Phase, Holding
    <3> QED  BY <2>1, <3>1, PhaseKept
  <2>3. ASSUME NEW r \in Requests, LoopTop(r) PROVE Pool!Next \/ UNCHANGED Pool!vars
    <3>1. (Goto(r, "done") /\ acct' = acct) \/ Pool!Ask(r)
      BY <2>3 DEF LoopTop
    <3>2. Phase("done") = Phase(pc[r])
      BY <2>3 DEF LoopTop, Phase, Holding
    <3> QED  BY <2>1, <3>1, <3>2, PhaseKept DEF Pool!Next
  <2>4. ASSUME NEW r \in Requests, SelectFails(r) \/ Wake(r) PROVE Pool!Next
    BY <2>4 DEF SelectFails, Wake, Pool!Next
  <2>5. ASSUME NEW r \in Requests, NEW a \in Accounts, SelectAndReserve(r, a) PROVE Pool!Next
    BY <2>5 DEF SelectAndReserve, Pool!Next
  <2>6. ASSUME NEW r \in Requests, NEW k, Finish(r, k) \/ Repair(r, k) \/ Conclude(r, k) PROVE Pool!Next
    BY <2>6 DEF Finish, Repair, Conclude, Pool!Next
  <2>7. ASSUME NEW r \in Requests, NEW k, Fail(r, k) \/ Throw(r, k)
        PROVE  Pool!Next \/ UNCHANGED Pool!vars
    <3>1. pc[r] = "send" /\ (Pool!Return(r) \/ \E limited : GoOn(r, PolicyOf(r, k), limited))
      BY <2>7 DEF Fail, Throw
    <3> QED  BY <2>1, <3>1, GoOnUsesPool DEF Pool!Next
  <2>8. ASSUME NEW r \in Requests, Abort(r) PROVE Pool!Next \/ UNCHANGED Pool!vars
    <3>1. Pool!Return(r) \/ UNCHANGED <<pc, acct>>
      BY <2>8 DEF Abort
    <3> QED  BY <3>1, PoolStutters DEF Pool!Next
  <2>9. ASSUME UNCHANGED <<pc, acct>> PROVE UNCHANGED Pool!vars
    BY <2>9, PoolStutters
  <2>10. ASSUME \/ UNCHANGED vars
                \/ \E r \in Requests : Commit(r)
                \/ \E a \in Accounts : CooldownEnds(a)
         PROVE  UNCHANGED <<pc, acct>>
    BY <2>10 DEF vars, Commit, CooldownEnds
  <2> QED  BY <1>2, <2>2, <2>3, <2>4, <2>5, <2>6, <2>7, <2>8, <2>9, <2>10 DEF Next
<1>3. IInv /\ [Next]_vars => [Pool!Next]_(Pool!vars)
  BY <1>2
<1> QED  BY <1>1, <1>3, Inductive, PTL DEF Spec, Pool!Spec

HoldersOf(a) == {q \in Requests : acct[q] = a}

LEMMA HoldersFinite ==
  ASSUME NEW a
  PROVE  IsFiniteSet(HoldersOf(a)) /\ Cardinality(HoldersOf(a)) \in Nat
<1>1. HoldersOf(a) \in SUBSET Requests
  BY DEF HoldersOf
<1>2. IsFiniteSet(HoldersOf(a))
  BY <1>1, RunnerAssumption, FS_Subset DEF RunnerAssumption
<1> QED  BY <1>2, FS_CardinalityType

(* No account is in use by more attempts than its concurrency limit, however  *)
(* many runs retry, pause and switch side by side: an account is held through *)
(* the pause before a same-account retry and is taken anew only after the     *)
(* finally has given it back.                                                 *)
THEOREM CapHeld == Spec => [](\A a \in Accounts : Cardinality(HoldersOf(a)) <= Cap)
<1> DEFINE Within == \A a \in Accounts : Cardinality(HoldersOf(a)) <= Cap
<1>1. Init => Within
  <2> SUFFICES ASSUME Init, NEW a \in Accounts PROVE Cardinality(HoldersOf(a)) <= Cap
    OBVIOUS
  <2>1. HoldersOf(a) = {} /\ Cap \in Nat
    BY RunnerAssumption DEF RunnerAssumption, Init, HoldersOf
  <2> QED  BY <2>1, FS_EmptySet
<1>2. ASSUME TypeOK, Within, [Pool!Next]_(Pool!vars) PROVE Within'
  <2> SUFFICES ASSUME NEW a \in Accounts PROVE Cardinality(HoldersOf(a)') <= Cap
    OBVIOUS
  <2>1. acct \in [Requests -> Accounts \cup {NoAccount}] /\ NoAccount \notin Accounts /\ Cap \in Nat
    BY <1>2, RunnerAssumption DEF TypeOK, RunnerAssumption
  <2>2. Cardinality(HoldersOf(a)) <= Cap
    BY <1>2
  <2>3. ASSUME HoldersOf(a)' \subseteq HoldersOf(a) PROVE Cardinality(HoldersOf(a)') <= Cap
    <3>1. HoldersOf(a)' \in SUBSET HoldersOf(a)
      BY <2>3
    <3>2. Cardinality(HoldersOf(a)') <= Cardinality(HoldersOf(a)) /\ Cardinality(HoldersOf(a)') \in Nat
      BY <3>1, HoldersFinite, FS_Subset, FS_CardinalityType
    <3> QED  BY <2>1, <2>2, <3>2, HoldersFinite
  <2>4. ASSUME NEW r \in Requests, NEW b \in Accounts, Pool!Grant(r, b)
        PROVE  Cardinality(HoldersOf(a)') <= Cap
    <3>1. acct' = [acct EXCEPT ![r] = b]
      BY <2>4 DEF Pool!Grant
    <3>2. CASE a # b
      BY <2>1, <2>3, <3>1, <3>2 DEF HoldersOf
    <3>3. CASE a = b
      <4>1. Cardinality(HoldersOf(b)) < Cap
        <5>1. Pool!Cardinality(Pool!Holders(b)) < Cap
          BY <2>4 DEF Pool!Grant
        <5>2. Pool!Cardinality(Pool!Holders(b)) = Cardinality(Pool!Holders(b))
          BY Zenon DEF Pool!Cardinality, Cardinality, Pool!IsFiniteSet, IsFiniteSet
        <5>3. Pool!Holders(b) = HoldersOf(b)
          BY DEF Pool!Holders, HoldersOf
        <5> QED  BY <5>1, <5>2, <5>3
      <4>2. HoldersOf(a)' = HoldersOf(a) \cup {r}
        BY <2>1, <3>1, <3>3 DEF HoldersOf
      <4>3. /\ Cardinality(HoldersOf(a) \cup {r}) \in Nat
            /\ Cardinality(HoldersOf(a) \cup {r}) <= Cardinality(HoldersOf(a)) + 1
        <5> DEFINE S == HoldersOf(a)
        <5>1. IsFiniteSet(S) /\ Cardinality(S) \in Nat
          BY HoldersFinite
        <5> HIDE DEF S
        <5>2. Cardinality(S \cup {r}) = IF r \in S THEN Cardinality(S) ELSE Cardinality(S) + 1
          BY <5>1, FS_AddElement
        <5>3. Cardinality(S \cup {r}) \in Nat /\ Cardinality(S \cup {r}) <= Cardinality(S) + 1
          BY <5>1, <5>2
        <5> QED  BY <5>3 DEF S
      <4> QED  BY <2>1, <3>3, <4>1, <4>2, <4>3, HoldersFinite
    <3> QED  BY <3>2, <3>3
  <2>5. ASSUME NEW r \in Requests, Pool!Return(r) PROVE HoldersOf(a)' \subseteq HoldersOf(a)
    <3>1. acct' = [acct EXCEPT ![r] = NoAccount]
      BY <2>5, PoolReturn
    <3> QED  BY <2>1, <3>1 DEF HoldersOf
  <2>6. ASSUME acct' = acct PROVE HoldersOf(a)' \subseteq HoldersOf(a)
    BY <2>6 DEF HoldersOf
  <2>7. ASSUME \/ \E r \in Requests : Pool!Ask(r) \/ Pool!Refuse(r)
               \/ \E b \in Accounts : Pool!SetLimit(b)
               \/ UNCHANGED Pool!vars
        PROVE  acct' = acct
    BY <2>7 DEF Pool!Ask, Pool!Refuse, Pool!SetLimit, Pool!vars
  <2> QED  BY <1>2, <2>3, <2>4, <2>5, <2>6, <2>7 DEF Pool!Next
<1> HIDE DEF Within
<1>3. TypeOK /\ Within /\ [Pool!Next]_(Pool!vars) => Within'
  BY <1>2
<1>4. Spec => []Within
  BY <1>1, <1>3, TypeCorrect, UsesAccountPool, PTL DEF Spec, Pool!Spec
<1> QED  BY <1>4 DEF Within

-----------------------------------------------------------------------------
(* A run ends.                                                                *)

(* How far a run is from its end: the attempts it has left, and the stage of  *)
(* the current one.                                                           *)
Stage(r) ==
  IF pc[r] = "select" THEN 5
  ELSE IF pc[r] = "send" THEN IF committed[r] THEN 3 ELSE 4
  ELSE IF pc[r] \in {"sleep", "idle"} THEN 2
  ELSE IF pc[r] = "turn" THEN 1 ELSE 0

Rank(r) == 6 * (MaxAttempts - attempt[r]) + Stage(r)

AttemptsWithin ==
  \A r \in Requests : /\ attempt[r] <= MaxAttempts
                      /\ attempt[r] = 0 => pc[r] \in {"idle", "turn", "done"}

(* The moves of the loop.                                                     *)
Moved(r, where, com) ==
  Goto(r, where) /\ committed' = [committed EXCEPT ![r] = com] /\ attempt' = attempt

LoopMoves(r) ==
  \/ pc[r] = "idle" /\ Moved(r, "turn", committed[r])
  \/ pc[r] = "turn" /\ Moved(r, "done", committed[r])
  \/ /\ pc[r] = "turn" /\ attempt[r] < MaxAttempts /\ Goto(r, "select") /\ committed' = committed
     /\ attempt' = [attempt EXCEPT ![r] = attempt[r] + 1]
  \/ pc[r] = "select" /\ (Moved(r, "send", FALSE) \/ Moved(r, "done", committed[r]))
  \/ pc[r] = "send" /\ ~committed[r] /\ Moved(r, "send", TRUE)
  \/ pc[r] = "send" /\ \E where \in {"turn", "sleep", "done"} : Moved(r, where, committed[r])
  \/ pc[r] = "sleep" /\ \E where \in {"turn", "done"} : Moved(r, where, committed[r])

(* What a run may do that is not a move of its loop.                          *)
LoopRests(r) == pc' = pc /\ attempt' = attempt /\ committed' = committed

LEMMA StepMoves ==
  ASSUME TypeOK, [Next]_vars
  PROVE  (\E r \in Requests : LoopMoves(r)) \/ (\A r \in Requests : LoopRests(r))
<1>1. ASSUME NEW r \in Requests
      PROVE  committed = [committed EXCEPT ![r] = committed[r]] /\ pc = [pc EXCEPT ![r] = pc[r]]
  BY DEF TypeOK
<1>2. ASSUME NEW r \in Requests, Begin(r) PROVE LoopMoves(r)
  BY <1>1, <1>2 DEF Begin, run, Moved, LoopMoves
<1>3. ASSUME NEW r \in Requests, LoopTop(r) PROVE LoopMoves(r)
  BY <1>1, <1>3 DEF LoopTop, Moved, LoopMoves
<1>4. ASSUME NEW r \in Requests, NEW a \in Accounts, SelectAndReserve(r, a) PROVE LoopMoves(r)
  BY <1>4 DEF SelectAndReserve, run, Moved, LoopMoves
<1>5. ASSUME NEW r \in Requests, SelectFails(r) \/ Wake(r) PROVE LoopMoves(r)
  BY <1>1, <1>5 DEF SelectFails, Wake, run, Moved, LoopMoves
<1>6. ASSUME NEW r \in Requests, Commit(r) PROVE LoopMoves(r)
  <2>1. /\ pc[r] = "send" /\ ~committed[r] /\ pc' = pc /\ attempt' = attempt
        /\ committed' = [committed EXCEPT ![r] = TRUE]
    BY <1>6 DEF Commit, run
  <2>2. Moved(r, "send", TRUE)
    BY <1>1, <2>1 DEF Moved, Goto
  <2> QED  BY <2>1, <2>2 DEF LoopMoves
<1>7. ASSUME NEW r \in Requests, NEW k, Finish(r, k) \/ Repair(r, k) \/ Conclude(r, k) PROVE LoopMoves(r)
  BY <1>1, <1>7 DEF Finish, Repair, Conclude, run, Moved, LoopMoves
<1>8. ASSUME NEW r \in Requests, NEW p, NEW limited, pc[r] = "send", GoOn(r, p, limited) PROVE LoopMoves(r)
  <2>1. /\ attempt' = attempt /\ committed' = committed
        /\ Goto(r, "sleep") \/ Goto(r, "done") \/ Goto(r, "turn")
    BY <1>8 DEF GoOn
  <2> QED  BY <1>1, <1>8, <2>1 DEF Moved, LoopMoves
<1>9. ASSUME NEW r \in Requests, NEW k, Fail(r, k) PROVE LoopMoves(r)
  BY <1>8, <1>9 DEF Fail
<1>10. ASSUME NEW r \in Requests, NEW k, Throw(r, k) PROVE LoopMoves(r)
  <2>1. CASE committed[r] \/ ~ShouldContinue(PolicyOf(r, k))
    BY <1>1, <1>10, <2>1 DEF Throw, run, Moved, LoopMoves
  <2>2. CASE ~(committed[r] \/ ~ShouldContinue(PolicyOf(r, k)))
    BY <1>8, <1>10, <2>2 DEF Throw
  <2> QED  BY <2>1, <2>2
<1>11. ASSUME NEW r \in Requests, Abort(r) PROVE LoopMoves(r) \/ \A q \in Requests : LoopRests(q)
  BY <1>1, <1>11 DEF Abort, run, Moved, LoopMoves, LoopRests
<1>12. ASSUME UNCHANGED vars \/ \E a \in Accounts : CooldownEnds(a)
       PROVE  \A q \in Requests : LoopRests(q)
  BY <1>12 DEF vars, CooldownEnds, run, LoopRests
<1> QED  BY <1>2, <1>3, <1>4, <1>5, <1>6, <1>7, <1>9, <1>10, <1>11, <1>12 DEF Next

LEMMA MoveLowersRank ==
  ASSUME TypeOK, AttemptsWithin, NEW r \in Requests, LoopMoves(r)
  PROVE  /\ Rank(r)' < Rank(r) /\ attempt'[r] <= MaxAttempts
         /\ attempt'[r] = 0 => pc'[r] \in {"idle", "turn", "done"}
         /\ \A q \in Requests : q # r =>
              pc'[q] = pc[q] /\ attempt'[q] = attempt[q] /\ committed'[q] = committed[q]
<1>1. /\ attempt[r] \in Nat /\ MaxAttempts \in Nat /\ attempt[r] <= MaxAttempts
      /\ pc \in [Requests -> {"idle", "turn", "select", "done"} \cup Holding]
      /\ committed \in [Requests -> BOOLEAN] /\ attempt \in [Requests -> Nat]
      /\ attempt[r] = 0 => pc[r] \in {"idle", "turn", "done"}
  BY RunnerAssumption DEF RunnerAssumption, TypeOK, AttemptsWithin
<1>2. \A q \in Requests : q # r => pc'[q] = pc[q] /\ attempt'[q] = attempt[q] /\ committed'[q] = committed[q]
  BY <1>1 DEF LoopMoves, Moved, Goto
<1>3. ASSUME NEW where, NEW com \in BOOLEAN, Moved(r, where, com)
      PROVE  pc'[r] = where /\ committed'[r] = com /\ attempt'[r] = attempt[r]
  BY <1>1, <1>3 DEF Moved, Goto
<1>4. CASE /\ pc[r] = "turn" /\ attempt[r] < MaxAttempts /\ Goto(r, "select") /\ committed' = committed
           /\ attempt' = [attempt EXCEPT ![r] = attempt[r] + 1]
  <2>1. pc'[r] = "select" /\ attempt'[r] = attempt[r] + 1
    BY <1>1, <1>4 DEF Goto
  <2>2. Stage(r) = 1 /\ Stage(r)' = 5
    BY <1>4, <2>1 DEF Stage
  <2> QED  BY <1>1, <1>2, <1>4, <2>1, <2>2 DEF Rank
<1>5. CASE ~(/\ pc[r] = "turn" /\ attempt[r] < MaxAttempts /\ Goto(r, "select") /\ committed' = committed
             /\ attempt' = [attempt EXCEPT ![r] = attempt[r] + 1])
  <2>1. committed[r] \in BOOLEAN /\ FALSE \in BOOLEAN /\ TRUE \in BOOLEAN
    BY <1>1
  <2>2. /\ attempt'[r] = attempt[r]
        /\ \/ pc[r] = "idle" /\ pc'[r] = "turn"
           \/ pc[r] = "turn" /\ pc'[r] = "done"
           \/ pc[r] = "select" /\ pc'[r] = "send" /\ committed'[r] = FALSE
           \/ pc[r] = "select" /\ pc'[r] = "done"
           \/ pc[r] = "send" /\ ~committed[r] /\ pc'[r] = "send" /\ committed'[r] = TRUE
           \/ pc[r] = "send" /\ pc'[r] \in {"turn", "sleep", "done"}
           \/ pc[r] = "sleep" /\ pc'[r] \in {"turn", "done"}
    BY <1>3, <1>5, <2>1 DEF LoopMoves
  <2>3. Stage(r) \in Nat /\ Stage(r)' \in Nat /\ Stage(r)' < Stage(r)
    BY <2>2 DEF Stage
  <2>4. attempt'[r] = 0 => pc'[r] \in {"idle", "turn", "done"}
    BY <1>1, <2>2
  <2> QED  BY <1>1, <1>2, <2>2, <2>3, <2>4 DEF Rank
<1> QED  BY <1>4, <1>5

(* No mix of answers, exceptions, repairs, retries and switches keeps a run   *)
(* going: whatever moves its loop lowers a rank that starts at                *)
(* 6 * max_total_attempts + 2 and that nothing raises, so a run makes at most *)
(* that many moves before it is done.                                         *)
THEOREM RunProgress ==
  Spec => [][\A r \in Requests :
               /\ Rank(r) \in 0..(6 * MaxAttempts + 2)
               /\ Rank(r)' < Rank(r) \/ UNCHANGED <<pc[r], attempt[r], committed[r]>>]_vars
<1>1. Init => AttemptsWithin
  BY RunnerAssumption DEF RunnerAssumption, Init, AttemptsWithin
<1>2. ASSUME TypeOK, AttemptsWithin, [Next]_vars
      PROVE  /\ AttemptsWithin'
             /\ \A r \in Requests :
                  Rank(r)' < Rank(r) \/ UNCHANGED <<pc[r], attempt[r], committed[r]>>
  <2>1. CASE \A r \in Requests : LoopRests(r)
    BY <1>2, <2>1 DEF LoopRests, AttemptsWithin
  <2>2. ASSUME NEW r \in Requests, LoopMoves(r)
        PROVE  /\ AttemptsWithin'
               /\ \A q \in Requests :
                    Rank(q)' < Rank(q) \/ UNCHANGED <<pc[q], attempt[q], committed[q]>>
    <3>1. /\ Rank(r)' < Rank(r) /\ attempt'[r] <= MaxAttempts
          /\ attempt'[r] = 0 => pc'[r] \in {"idle", "turn", "done"}
          /\ \A q \in Requests : q # r =>
               pc'[q] = pc[q] /\ attempt'[q] = attempt[q] /\ committed'[q] = committed[q]
      BY <1>2, <2>2, MoveLowersRank
    <3>2. AttemptsWithin'
      BY <1>2, <3>1 DEF AttemptsWithin
    <3> HIDE DEF Rank
    <3> QED  BY <3>1, <3>2
  <2> QED  BY <1>2, <2>1, <2>2, StepMoves
<1>3. ASSUME TypeOK, AttemptsWithin, NEW r \in Requests PROVE Rank(r) \in 0..(6 * MaxAttempts + 2)
  <2>1. /\ attempt[r] \in Nat /\ MaxAttempts \in Nat /\ attempt[r] <= MaxAttempts
        /\ attempt[r] = 0 => pc[r] \in {"idle", "turn", "done"}
    BY <1>3, RunnerAssumption DEF RunnerAssumption, TypeOK, AttemptsWithin
  <2>2. Stage(r) \in 0..5 /\ (attempt[r] = 0 => Stage(r) \in 0..2)
    BY <2>1 DEF Stage
  <2> QED  BY <2>1, <2>2 DEF Rank
<1>4. TypeOK /\ AttemptsWithin /\ [Next]_vars => AttemptsWithin'
  BY <1>2
<1>5. TypeOK /\ AttemptsWithin /\ [Next]_vars =>
        [\A r \in Requests :
               /\ Rank(r) \in 0..(6 * MaxAttempts + 2)
               /\ Rank(r)' < Rank(r) \/ UNCHANGED <<pc[r], attempt[r], committed[r]>>]_vars
  BY <1>2, <1>3
<1> QED  BY <1>1, <1>4, <1>5, TypeCorrect, PTL DEF Spec
=============================================================================
