CONSTANTS
  Window = {w1, w2}
  None = none
  Screen = {"program", "bar"}
  Apps <- MCApps
SPECIFICATION Spec
CHECK_DEADLOCK FALSE
INVARIANT NoThreadWaitsForItself
