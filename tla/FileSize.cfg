SPECIFICATION Spec
CONSTANTS
    Tasks = {t1, t2}
    Calls = {"write", "zero", "fallocate", "truncate", "flush", "chmod", "stat"}
    ChunkSize = 2
    MaxSize = 3
    Writes <- TwoWrites
    GoOn = FALSE
INVARIANTS TruncatedStaysGone SizesConsistent FlushedStaysVisible 
CHECK_DEADLOCK FALSE
SYMMETRY AnyTask
