SPECIFICATION MountSpec
CONSTANTS
    MaxWrites = 2
    MaxCalls = 0
    Tasks = {t1, t2}
    MaxRetries = 2
    MaxFaults = 1
    EarlyWrites = 1
    EarlyEvents = 3
    RequireStage = TRUE
    Handles = {}
    Probers = {p1}
    MaxEvents = 3
    NoEntry = NoEntry
    Callers = {a, b, c}
    Keys = {k}
    MaxFlights = 2
    GateTasks = {a, b, c}
    MaxLocks = 3
PROPERTIES FrozenLeaves  ListsBecomeCurrent WaitersReturn LocksGranted
CHECK_DEADLOCK FALSE
