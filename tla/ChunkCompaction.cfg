SPECIFICATION Spec
CONSTANTS
  w1 = w1
  t1 = t1
  c1 = c1
  g1 = g1
  Writers = {w1}
  Truncaters = {t1}
  Compactors = {c1}
  Collectors = {g1}
  ChunkLen = 2
  MinSliceCount = 2
  MinFragment = 10
  LightEnabled = TRUE
  LightThreshold = 2
  HeavyEnabled = TRUE
  HeavySlices = 2
  HeavyFragment = 30
  HeavyForce = 50
  MaxSlices = 3
  MaxVersion = 2
INVARIANTS NoDanglingSlice LiveNotCondemned NoLeakedBlock
PROPERTIES VersionTracksList ContentSpec
CHECK_DEADLOCK FALSE
