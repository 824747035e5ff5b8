CONSTANTS
  Surface = {s1, s2}
  NoSurface = none
  Direct = {}
  Vulkan = {}
  FailureLimit = 2
  MaxBaseline = 1
SPECIFICATION ZeroSpec
INVARIANT SilentGuestHasHost
