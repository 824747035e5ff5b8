SPECIFICATION RegistrySpec
CONSTANTS
  p1 = p1
  p2 = p2
  p3 = p3
  p4 = p4
  Pid = {p1, p2, p3}
  Ancestry <- OneForked
  App = app
  Toplevel = {t1}
  Nobody = nobody
  NoSession = noSession
  Engine = engine
  NoToplevel = noToplevel
  MaxEntries = 3
  MaxPending = 1
  MaxDepth = 2
  ForkBackend = FALSE
  Reregisters = TRUE
INVARIANT NoWindowIsLost
CHECK_DEADLOCK FALSE
