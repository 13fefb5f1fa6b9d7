SPECIFICATION StatsSpec
CONSTANTS
  Engines = {e1, e2}
  MaxHandles = 2
  MaxTime = 2
  MaxSwapped = 1
  sliding_window_size = 1
  NoRequest = NoRequest
INVARIANTS
  ReportedWindows
  CountsMatch
  FinishedExact
PROPERTIES
  OutcomeIsFinal
  ImplementsLedger
