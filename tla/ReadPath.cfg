SPECIFICATION Spec
CONSTANTS
    Handles = {h1}
    Probers = {p1}
    MaxEvents = 2
    NoEntry = NoEntry
INVARIANTS ReadsFresh VersionsTrusted
CHECK_DEADLOCK FALSE
