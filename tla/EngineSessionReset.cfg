SPECIFICATION Spec
CONSTANTS
  Task = {t1, t2}
  Config = {c1, c2}
  NoConfig = noConfig
  Nobody = nobody
  Launch = {l1, l2}
  LastPhase = 2
  MaxEvents = 2
  DrainMayTimeOut = FALSE
INVARIANT ResetIsAlone

CHECK_DEADLOCK FALSE
