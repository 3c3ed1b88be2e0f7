-------------------------- MODULE MCFailoverRunner --------------------------
(* Small instances of FailoverRunner for TLC.                                 *)
EXTENDS FailoverRunner, TLC

CONSTANTS a1, a2, r1, r2, k1, none, nokey

OneConversation == [r \in Requests |-> k1]
SecondPinned == [r \in Requests |-> IF r = r2 THEN a2 ELSE none]
=============================================================================
