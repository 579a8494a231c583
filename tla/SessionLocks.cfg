CONSTANTS
  Nodes = {n1, n2}
  Owners = {o1}
  Inodes = {i1}
  Size = 1
  SessionTtl = 1
  LockTtl = 1
  MaxSessions = 2
  MaxClock = 2
  Horizon = 1
  Kinds = {"plock", "flock"}
  Asked = {"R", "W"}
SPECIFICATION Spec
INVARIANTS LocksAccounted LocksExclude
PROPERTIES RenewedSurvives NoResurrection
CHECK_DEADLOCK FALSE
