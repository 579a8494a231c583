SPECIFICATION Spec
CONSTANTS
    MaxWrites = 2
    MaxCalls = 1
    Tasks = {t1, t2}
    MaxRetries = 2
    MaxFaults = 2
INVARIANTS ListSound ChunkTended FlushAccountsForAll
CHECK_DEADLOCK FALSE
