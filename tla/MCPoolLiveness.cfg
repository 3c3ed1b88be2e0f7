SPECIFICATION FairSpec
CONSTANTS
  a1 = a1
  a2 = a2
  r1 = r1
  r2 = r2
  r3 = r3
  k1 = k1
  none = none
  nokey = nokey
  NoAccount = none
  NoKey = nokey
  Keys = {k1}

  Requests = {r1, r2}
  Accounts = {a1}
  KeyOf <- NoKeys
  Fable = {}
  Pinned = {r2}
  Cancellable = {r2}
  Scopes <- PinScopes
  Caps = {1}
  InitCap = 1
  FableCap = 1
  MaxWaiters = 1
  Priority <- Flat
  Gates = {"open", "rpm_limit", "slot_busy", "quota_blocked", "unhealthy", "unschedulable", "revoked"}
  CoolKinds = {"cool", "blocked", "no_refresh"}
  MaxReloads = 0
PROPERTIES SelectionSettles
