SPECIFICATION FairSpec
CONSTANTS
    Turns = 1
    Events = 2
    MaxCancels = 1
    MaxSteers = 0
    MaxExits = 0
    PoolCapacity = 1
    ProgressCapacity = 1
PROPERTY CancelledTurnEnds
CHECK_DEADLOCK FALSE
