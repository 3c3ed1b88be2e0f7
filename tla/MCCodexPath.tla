---------------------------- MODULE MCCodexPath ----------------------------
(* Small instances of CodexPath for TLC.                                     *)
EXTENDS CodexPath, TLC

CONSTANTS r1, r2

SecondPinned == r1 :> NoPin @@ r2 :> 1
=============================================================================
