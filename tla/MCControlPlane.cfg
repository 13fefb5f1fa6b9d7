SPECIFICATION ControlSpec
CONSTANTS
  Discoveries = {d1, d2, dx}
  Callbacks = {c1, cx}
  Routers = {1, 2, 3}
  MonitorRouters = {2}
  Broken = {dx, cx, 3}
  MaxEdits = 1
  MaxFaults = 1
  Unreadable = Unreadable
  NoRouter = NoRouter
  Pods = {1, 2}
  MaxReplicas = 2
  MaxSpecEdits = 1
  MaxPodMoves = 2
  MaxCallFaults = 1
INVARIANTS
  AppliedWhole
  OneDiscovery
  DeletedIsUnloaded
  RouterTold
PROPERTIES
  ValidEditApplied
  Converges
CHECK_DEADLOCK FALSE
