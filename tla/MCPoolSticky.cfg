SPECIFICATION Spec
CONSTANTS
  a1 = a1
  a2 = a2
  r1 = r1
  r2 = r2
  r3 = r3
  k1 = k1
  none = none
  nokey = nokey
  NoAccount = none
  NoKey = nokey
  Keys = {k1}

  Requests = {r1, r2}
  Accounts = {a1, a2}
  KeyOf <- AllShareKey
  Fable = {}
  Pinned = {}
  Cancellable = {}
  Scopes <- AnyScope
  Caps = {1}
  InitCap = 1
  FableCap = 1
  MaxWaiters = 1
  Priority <- Flat
  Gates = {"open"}
  CoolKinds = {"auth"}
  MaxReloads = 0
SYMMETRY AccountSymmetry
INVARIANTS UnboundRotates
PROPERTIES ReleaseNotifies
