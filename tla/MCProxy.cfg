SPECIFICATION Spec
CONSTANTS
  p1 = p1
  p2 = p2
  v1 = v1
  v2 = v2
  Proxies = {p1, p2}
  Vms = {v1, v2}
  NoProxy = noproxy
  BindLimit = 1
  MaxFailures = 2
  Disconnects = TRUE
  Panel <- MCPanel
INVARIANTS OneProxyPerVm KilledProxyComesBack OperatorOffKept DeadProxyVmOff
CHECK_DEADLOCK FALSE
