SPECIFICATION FairSpec
CONSTANTS
  Task = {t1, t2}
  Config = {c1, c2}
  NoConfig = noConfig
  Nobody = nobody
  Launch = {l1, l2}
  LastPhase = 2
  MaxEvents = 1
  DrainMayTimeOut = TRUE
INVARIANTS SessionIsSound RestartsAreShared
PROPERTY BusyEnds
CHECK_DEADLOCK FALSE
