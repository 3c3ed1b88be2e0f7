---------------------------- MODULE AccountPool ----------------------------
(* What the account pool promises its callers, without queues, snapshots,   *)
(* cooldowns or schedulers: a request asks, and is refused or granted one   *)
(* account; a grant is made only while the account has fewer holders than   *)
(* its limit; a granted account is held until it is returned, and the       *)
(* operator may change a limit at any time.  PoolScheduler implements it.   *)
EXTENDS Naturals, FiniteSets

CONSTANTS Requests, Accounts, NoAccount, Limits

VARIABLES phase, holder, limit

vars == <<phase, holder, limit>>

Holders(a) == {r \in Requests : holder[r] = a}

Init ==
  /\ phase = [r \in Requests |-> "out"]
  /\ holder = [r \in Requests |-> NoAccount]
  /\ limit \in [Accounts -> Limits]

Ask(r) ==
  /\ phase[r] = "out"
  /\ phase' = [phase EXCEPT ![r] = "asking"]
  /\ UNCHANGED <<holder, limit>>

Grant(r, a) ==
  /\ phase[r] = "asking" /\ Cardinality(Holders(a)) < limit[a]
  /\ phase' = [phase EXCEPT ![r] = "holding"]
  /\ holder' = [holder EXCEPT ![r] = a]
  /\ UNCHANGED limit

Refuse(r) ==
  /\ phase[r] = "asking"
  /\ phase' = [phase EXCEPT ![r] = "out"]
  /\ UNCHANGED <<holder, limit>>

Return(r) ==
  /\ phase[r] = "holding"
  /\ phase' = [phase EXCEPT ![r] = "out"]
  /\ holder' = [holder EXCEPT ![r] = NoAccount]
  /\ UNCHANGED limit

SetLimit(a) ==
  /\ \E n \in Limits : limit' = [limit EXCEPT ![a] = n]
  /\ UNCHANGED <<phase, holder>>

Next ==
  \/ \E r \in Requests : Ask(r) \/ Refuse(r) \/ Return(r) \/ \E a \in Accounts : Grant(r, a)
  \/ \E a \in Accounts : SetLimit(a)

Spec == Init /\ [][Next]_vars
=============================================================================
