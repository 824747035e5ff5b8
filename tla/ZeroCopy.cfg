CONSTANTS
  Surface = {s1, s2}
  NoSurface = none
  Direct = {s1}
  Vulkan = {s2}
  FailureLimit = 2
  MaxBaseline = 2
SPECIFICATION ZeroFairSpec
INVARIANT BindingIsSound
PROPERTIES FallbackShowsNewFrame FallbackEnds
