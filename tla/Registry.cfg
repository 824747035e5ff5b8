SPECIFICATION RegistrySpec
CONSTANTS
  p1 = p1
  p2 = p2
  p3 = p3
  p4 = p4
  Pid = {p1, p2, p3}
  Ancestry <- OneForked
  App = app
  Toplevel = {t1, t2}
  Nobody = nobody
  NoSession = noSession
  Engine = engine
  NoToplevel = noToplevel
  MaxEntries = 1
  MaxPending = 1
  MaxDepth = 2
  ForkBackend = FALSE
  Reregisters = TRUE
INVARIANTS RegistryIsSound WindowsArePlaced WindowBelongsToSession
PROPERTIES RunningEntriesStay
SYMMETRY ToplevelSymmetry
CHECK_DEADLOCK FALSE
