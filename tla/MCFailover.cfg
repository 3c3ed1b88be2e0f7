SPECIFICATION Spec
CHECK_DEADLOCK FALSE
CONSTANTS
  a1 = a1
  a2 = a2
  r1 = r1
  r2 = r2
  k1 = k1
  none = none
  nokey = nokey
  NoAccount = none
  NoKey = nokey
  Keys = {k1}
  KeyOf <- OneConversation

  Requests = {r1, r2}
  Accounts = {a1, a2}
  Streaming = {r1}
  PinTo <- SecondPinned
  Cancellable = {r2}
  Kinds = {"complete", "streamed", "incomplete", "refusal", "cancelled", "auth_unconfirmed",
           "auth_dead", "wrap", "transport", "proxy", "edge", "repairable", "signature",
           "bad_request", "entitlement", "other", "org_disabled", "forbidden", "fable_denied",
           "account_limit", "model_limit", "fable_timeout", "overloaded", "server_error"}
  HasRefresh = {a1}
  SignatureRepair = TRUE
  Cap = 1
  MaxAttempts = 4
  MaxSwitches = 1
  MaxSameRetries = 1
INVARIANTS TypeOK AttemptsPerAccount SwitchesExact OutputEndsRun
