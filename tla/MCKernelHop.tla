----------------------------- MODULE MCKernelHop -----------------------------
(* Small instances of KernelHop for TLC.                                      *)
EXTENDS KernelHop, TLC

CONSTANTS h1, h2, j1, j2

Alike == Permutations(Hops) \cup Permutations(Jobs)
=============================================================================
