--------------------------- MODULE MCSessionLimit ---------------------------
EXTENDS SessionLimit, TLC

CONSTANTS a1, c1, c2, c3, r1, r2, r3

MCMaxSessions == a1 :> 2

Symmetry == Permutations({r1, r2, r3}) \cup Permutations({c1, c2, c3})
=============================================================================
