SPECIFICATION StoreSpec
CONSTANTS
  w1 = w1
  t1 = t1
  c1 = c1
  g1 = g1
  Writers = {w1}
  Truncaters = {t1}
  Compactors = {c1}
  Collectors = {g1}
  ChunkLen = 2
  MinSliceCount = 2
  MinFragment = 10
  LightEnabled = FALSE
  LightThreshold = 2
  HeavyEnabled = TRUE
  HeavySlices = 2
  HeavyFragment = 30
  HeavyForce = 50
  MaxSlices = 3
  MaxVersion = 2
  Nodes = {n1, n2}
  Owners = {o1}
  Inodes = {i1}
  Size = 1
  SessionTtl = 1
  LockTtl = 1
  MaxSessions = 2
  MaxClock = 2
  Horizon = 0
  Kinds = {"plock"}
  Asked = {"W"}
  Groups = {k1}
  Slots = {s1, s2}
  GroupCollectors = {q1}
  MaxStops = 1
  TruncatedSlices = 2
PROPERTIES DelayedReclaimed ReservationsSettle DeadReleased GroupReclaimed
CHECK_DEADLOCK FALSE
