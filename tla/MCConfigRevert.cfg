SPECIFICATION ConfigSpec
CONSTANTS
  Discoveries = {d1, d2}
  Callbacks = {c1}
  Routers = {1, 3}
  MonitorRouters = {}
  Broken = {3}
  MaxEdits = 2
  MaxFaults = 1
  Unreadable = Unreadable
  NoRouter = NoRouter
PROPERTIES
  FileTakesEffect
CHECK_DEADLOCK FALSE
