SPECIFICATION Spec
CONSTANTS
    Tasks = {t1, t2}
    Calls = {"write", "truncate", "stat"}
    ChunkSize = 2
    MaxSize = 3
    Writes <- TwoWrites
    GoOn = TRUE
INVARIANTS TruncatedGone
CHECK_DEADLOCK FALSE
