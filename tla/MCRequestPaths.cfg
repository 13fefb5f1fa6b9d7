SPECIFICATION PathsSpec
CONSTANTS
  Engines = {e1, e2}
  Uploads = {r1, r2}
  MaxHandles = 2
  MaxTime = 0
  MaxSwapped = 0
  sliding_window_size = 1
  NoRequest = NoRequest
  PDRequests = {q1, q2}
  Prefillers = {p1, p2}
  NoEngine = NoEngine
  MaxReplacements = 4
  Sleepers = {s1}
  Admins = {a1, a2, a3}
  NoSleeper = NoSleeper
  MaxRestarts = 1
  Configurations <- MCConfigurations
  ModelNames = {"a", "b", "x"}
  NoModel = NoModel
  ExternalRequests = {x1, x2}
  max_retries = 1
INVARIANTS
  LeaksOnlyUniterated
  TruthfulAnswer
  SleepReflected
  ChangesAnnounced
  RoutedToOffered
  SessionsClosed
PROPERTIES
  ExternalAnswered
