SPECIFICATION DiscoverySpec
CONSTANTS
  Pods = {p1, p2}
  PrefillPods = {p1}
  Models = {m1}
  MaxChanges = 2
  MaxFaults = 1
  NoPod = NoPod
INVARIANTS
  TableExact
  OnceRoutableIsKnown
  SessionsOpened
PROPERTIES
  EngineDiscovered
CHECK_DEADLOCK FALSE
