SPECIFICATION DiscoverySpec
CONSTANTS
  Pods = {p1}
  PrefillPods = {p1}
  Models = {m1}
  MaxChanges = 2
  MaxFaults = 1
  NoPod = NoPod
PROPERTIES
  CloseReturns
CHECK_DEADLOCK FALSE
