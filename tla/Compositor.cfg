CONSTANTS
  Window = {w1, w2}
  None = none
  Screen = {"program"}
  Apps <- MCApps
SPECIFICATION Spec
SYMMETRY Symmetry
CHECK_DEADLOCK FALSE
INVARIANTS TablesAreSound NewestFullscreenIsInFront OneDesktopInSight
