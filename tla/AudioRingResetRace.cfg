SPECIFICATION Spec
CONSTANTS
  Frame = {f1, f2}
  Silence = silence
  Capacity = 2
  IndexModulus = 4
  MaxBatch = 2
  HostSide = "consumer"
INVARIANT ReaderNeverOvertakes
