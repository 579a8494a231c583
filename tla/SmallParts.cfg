SPECIFICATION PartSpec
CONSTANTS
  Tasks = {a, b, c, d}
  MaxLocks = 5
  Callers = {a, b, c}
  Keys = {k}
  MaxFlights = 2
  Names = {x, y}
  Mutators = {m1}
  Lookers = {l1}
  Listers = {r1}
  Ops = {"create", "remove", "rename"}
  MaxOps = 2
  MaxLosses = 1
  None = None
  Owners = {o1, o2}
  Pids = {1, 2}
  Size = 3
  Groups = {g1}
  Slots = {s1, s2}
  Collectors = {c1, c2}
INVARIANTS GateSound FlightsSound CacheAgrees  LiveMemberReadable
PROPERTIES NoReplay ByteSpec
CHECK_DEADLOCK FALSE
