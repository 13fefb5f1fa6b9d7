SPECIFICATION LifeFairSpec
CONSTANTS
  Engines = {e1, e2, e3}
  Requests = {r1}
  MaxHandles = 3
  MaxTime = 1
  MaxSwapped = 0
  sliding_window_size = 1
  max_instance_failover_reroute_attempts = 2
  MaxChunks = 2
  NoRequest = NoRequest
PROPERTIES
  Answered
