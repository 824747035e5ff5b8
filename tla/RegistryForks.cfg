SPECIFICATION RegistrySpec
CONSTANTS
  p1 = p1
  p2 = p2
  p3 = p3
  p4 = p4
  Pid = {p1, p2, p3, p4}
  Ancestry <- ForkedTwice
  App = app
  Toplevel = {t1}
  Nobody = nobody
  NoSession = noSession
  Engine = engine
  NoToplevel = noToplevel
  MaxEntries = 1
  MaxPending = 1
  MaxDepth = 3
  ForkBackend = FALSE
  Reregisters = TRUE
INVARIANTS RegistryIsSound WindowsArePlaced WindowBelongsToSession
PROPERTIES RunningEntriesStay
CHECK_DEADLOCK FALSE
