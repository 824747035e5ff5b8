SPECIFICATION RegistryFairSpec
CONSTANTS
  p1 = p1
  p2 = p2
  p3 = p3
  p4 = p4
  Pid = {p1, p2, p3, p4}
  Ancestry <- ForkedTwice
  App = app
  Toplevel = {}
  Nobody = nobody
  NoSession = noSession
  Engine = engine
  NoToplevel = noToplevel
  MaxEntries = 2
  MaxPending = 1
  MaxDepth = 3
  ForkBackend = TRUE
  Reregisters = TRUE
PROPERTIES ExitIsRecorded
CHECK_DEADLOCK FALSE
