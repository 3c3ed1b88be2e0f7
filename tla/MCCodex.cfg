SPECIFICATION CodexFairSpec
CONSTANTS
  r1 = r1
  r2 = r2
  NoPin = nopin
  Requests = {r1, r2}
  Slots = {1, 2}
  Pin <- SecondPinned
  Streams = {r1}
  FailoverMax = 2
  Probed = {1}
  Volatile = {1}
INVARIANTS OneAnswer OneKernelPerSlot
PROPERTIES CodexSettles RestrictionFollowsPark
