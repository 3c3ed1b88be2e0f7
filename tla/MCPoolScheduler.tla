-------------------------- MODULE MCPoolScheduler --------------------------
(* Small instances of PoolScheduler for TLC.                               *)
EXTENDS PoolScheduler, TLC

CONSTANTS a1, a2, r1, r2, r3, k1, none, nokey

NoKeys == [r \in Requests |-> NoKey]
AllShareKey == [r \in Requests |-> k1]

Flat == [a \in Accounts |-> 0]

AnyScope == {Accounts}
PinScopes == {Accounts, {a1}, {}}

AccountSymmetry == Permutations(Accounts)
PairSymmetry == Permutations(Accounts) \cup Permutations({r1, r2})
=============================================================================
