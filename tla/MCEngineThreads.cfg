SPECIFICATION ThreadsSpec
CONSTANTS
  Services = {e1}
  Backends = {e1, e2}
  Scraped = {e1, e2}
  Typed = {e1}
  NoService = NoService
  MaxServiceChanges = 2
  MaxStreamFaults = 1
  MaxFlips = 2
  MaxMetric = 1
  MaxMoves = 1
INVARIANTS
  TableAsExamined
  OfferedAsChecked
  StatsAreRecent
PROPERTIES
  WindsDown
  ShutdownEnds
