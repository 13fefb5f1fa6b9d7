SPECIFICATION CachesSpec
CONSTANTS
  Urls = {1, 2}
  Requests = {r1, r2, r3}
  P = 2
  threshold = 1
  beta <- LowerBeta
  MaxIds = 3
  MaxTimeouts = 1
  MaxArrivals = 3
  NoUrl = NoUrl
  Chats = {c1, c2, c3}
  Conversations = {0, 1, 2}
  LLMs = {m1, m2}
  Wordless = 0
  Tolerances = {0, 1}
  MaxCrashes = 1
  MaxWriteErrors = 1
SYMMETRY Symmetry
INVARIANTS
  HitsBelong
PROPERTIES
  WarmCredited
  NotDominated
CHECK_DEADLOCK FALSE
