SPECIFICATION FairSpec
CHECK_DEADLOCK FALSE
CONSTANTS
  h1 = h1
  h2 = h2
  j1 = j1
  j2 = j2
  Watchdog = dog
  NoJob = nojob
  NoCaller = nocaller
  Hops = {h1, h2}
  Jobs = {j1}
  SlotMax = 1
  Watches = FALSE
  Crashes = FALSE
  Rotates = TRUE
PROPERTY HopsSettle
