------------------------ MODULE MCCredentialRefresh ------------------------
EXTENDS CredentialRefresh, TLC

CONSTANTS c1, c2

(* One call that records its outcome beside one that does not.                *)
MCKinds == c1 :> {"monitor", "panel"} @@ c2 :> {"hop", "probe"}
=============================================================================
