SPECIFICATION LifeSpec
SYMMETRY Symmetry
CONSTANTS
  Engines = {e1, e2, e3}
  Requests = {r1, r2}
  MaxHandles = 4
  MaxTime = 0
  MaxSwapped = 0
  sliding_window_size = 1
  max_instance_failover_reroute_attempts = 1
  MaxChunks = 2
  NoRequest = NoRequest
INVARIANTS
  LedgerTracksGenerators
  RotationDistinct
  BadGatewayIsExhaustion
  TimeoutEndsRequest
  FinishedAsDelivered
