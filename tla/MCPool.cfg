SPECIFICATION Spec
CONSTANTS
  a1 = a1
  a2 = a2
  r1 = r1
  r2 = r2
  r3 = r3
  k1 = k1
  none = none
  nokey = nokey
  NoAccount = none
  NoKey = nokey
  Keys = {k1}

  Requests = {r1, r2, r3}
  Accounts = {a1}
  KeyOf <- NoKeys
  Fable = {r1, r2}
  Pinned = {}
  Cancellable = {r3}
  Scopes <- AnyScope
  Caps = {1, 2}
  InitCap = 2
  FableCap = 1
  MaxWaiters = 1
  Priority <- Flat
  Gates = {"open"}
  CoolKinds = {}
  MaxReloads = 1
SYMMETRY PairSymmetry
INVARIANTS TypeOK QueuesExact CountersExact FableWithinCap
PROPERTIES AdmissionWithinCap ImplementsAccountPool
