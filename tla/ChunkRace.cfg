SPECIFICATION Spec
CONSTANTS
  w1 = w1
  c1 = c1
  c2 = c2
  Writers = {w1}
  Truncaters = {}
  Compactors = {c1, c2}
  Collectors = {}
  ChunkLen = 2
  MinSliceCount = 2
  MinFragment = 10
  LightEnabled = TRUE
  LightThreshold = 3
  HeavyEnabled = TRUE
  HeavySlices = 2
  HeavyFragment = 30
  HeavyForce = 50
  MaxSlices = 4
  MaxVersion = 2
SYMMETRY Processes
PROPERTIES ContentSpec
CHECK_DEADLOCK FALSE
