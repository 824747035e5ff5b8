CONSTANTS
  Surface = {s1, s2}
  NoSurface = none
  Direct = {s1, s2}
  Vulkan = {}
  FailureLimit = 2
  MaxBaseline = 1
SPECIFICATION ZeroSpec
PROPERTIES CountedFrameIsStored
