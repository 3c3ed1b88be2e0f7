----------------------------- MODULE MCProxyPool -----------------------------
(* Small instances of ProxyPool for TLC.                                      *)
EXTENDS ProxyPool, TLC

CONSTANTS p1, p2, v1, v2

(* One VM is moved, the other toggled; one proxy is switched and edited, the  *)
(* other removed and probed by hand.                                          *)
MCPanel == [toggle |-> {v2}, move |-> {v1}, probe |-> {p2}, switch |-> {p1}, edit |-> {p1}, remove |-> {p2}]
=============================================================================
