SPECIFICATION LogicsSpec
CONSTANTS
  Endpoints = {1, 2, 3}
  Chunks = {a, b}
  MaxChunks = 2
  MaxEndpoints = 2
  MaxQps = 1
  MaxRequests = 3
  min_match_chunks = 1
  NoEndpoint = NoEndpoint
  Sessions = {s1, s2}
  NoSession = NoSession
  PrefillLabelled = {1, 2}
  DecodeLabelled = {2, 3}
  priority_default = 1
  priority_threshold = 1
  MaxPriority = 1
  _MAX_CACHE_SIZE = 2
  MaxRouted = 5
INVARIANTS
  RotationBalanced
  RolesBalanced
PROPERTIES
  LongestHolderChosen
  SessionSticks
CHECK_DEADLOCK FALSE
