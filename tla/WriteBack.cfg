SPECIFICATION Spec
CONSTANTS
    MaxWrites = 2
    MaxEvents = 2
    RequireStage = TRUE
INVARIANTS  NewestWins TruncatedStaysGone
CHECK_DEADLOCK FALSE
