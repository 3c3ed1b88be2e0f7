------------------------- MODULE UpstreamErrorPolicy -------------------------
(* classifyUpstreamResult (src/src/lib/pool/upstream-error-policy.mjs): what *)
(* the failover loop makes of the answer of one attempt.  The status, body   *)
(* and headers the code matches are abstracted to the kind of answer they    *)
(* amount to; committed says that output already reached the client.         *)

Results ==
  {"complete",            \* an assembled message with visible output
   "streamed",            \* a verified stream: the content went to the client, the body is empty
   "incomplete",          \* no visible output or no stop reason
   "refusal", "cancelled",
   "auth_unconfirmed",    \* a 401 of a stream cut short, or without request id
   "auth_dead",           \* any other 401, revoked token or invalid grant
   "wrap", "transport", "proxy", "edge",
   "repairable", "signature", "bad_request", "entitlement", "other",
   "org_disabled", "forbidden", "fable_denied",
   "account_limit", "model_limit", "fable_timeout", "overloaded", "server_error"}

Policy(scope, action, reason, again) ==
  [scope |-> scope, action |-> action, reason |-> reason, retrySameAccount |-> again]

Stop(scope, k) == Policy(scope, "stop", k, FALSE)
Continue(scope, k, again) == Policy(scope, "continue", k, again)
Cool(scope, k) == Policy(scope, "continue-and-cooldown", k, FALSE)

(* Before any output has reached the client.                                 *)
OpenPolicy(k, repaired, hasRefresh, signatureRepair) ==
  CASE k = "complete" -> Policy("success", "complete", k, FALSE)
    [] k \in {"incomplete", "streamed"} -> Continue("stream", "incomplete_assistant", TRUE)
    [] k = "cancelled" -> Stop("client_lifecycle", k)
    [] k = "auth_unconfirmed" -> Continue("account", k, FALSE)
    [] k = "auth_dead" -> Cool("account", IF hasRefresh THEN "oauth_revoked" ELSE "oauth_no_refresh")
    [] k \in {"wrap", "transport"} -> Continue("worker", k, TRUE)
    [] k \in {"proxy", "edge"} -> Cool("proxy", k)
    [] k = "repairable" /\ ~repaired -> Policy("request", "repair-and-retry", k, FALSE)
    [] k = "signature" /\ ~repaired /\ signatureRepair -> Policy("request", "repair-and-retry", k, FALSE)
    [] k \in {"refusal", "bad_request", "entitlement", "other"} -> Stop("request", k)
    [] k = "org_disabled" -> Policy("account", "disable", k, FALSE)
    [] k = "forbidden" -> Cool("credential", k)
    [] k = "fable_denied" -> Continue("account", k, FALSE)
    [] k = "account_limit" -> Cool("account", k)
    [] k \in {"model_limit", "fable_timeout"} -> Cool("model", k)
    [] k = "overloaded" -> Cool("provider", k)
    [] k = "server_error" -> Continue("provider", k, TRUE)
    [] OTHER -> Stop("request", k)

(* mutant: the check of result.committed is left out                         *)
ClassifyOpen(k, committed, repaired, hasRefresh, signatureRepair) ==
  OpenPolicy(k, repaired, hasRefresh, signatureRepair)

(* After the first output every answer ends the run, except a grant that is  *)
(* found dead: that test comes before the one of result.committed.           *)
ClassifyUpstreamResult(k, committed, repaired, hasRefresh, signatureRepair) ==
  IF committed /\ k \notin {"complete", "cancelled", "auth_dead"}
  THEN Stop(IF k = "auth_unconfirmed" THEN "account" ELSE "stream", k)
  ELSE OpenPolicy(k, repaired, hasRefresh, signatureRepair)

ShouldContinue(p) == p.action \in {"continue", "continue-and-cooldown"}
=============================================================================
