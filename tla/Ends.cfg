SPECIFICATION TurnsSpec
CONSTANTS
    Turns = 2
    Events = 1
    MaxCancels = 1
    MaxSteers = 1
    MaxExits = 0
    PoolCapacity = 1
    ProgressCapacity = 1
    Astra = TRUE
    Disturbances = 1
    MaxLines = 3
    PipeRoom = 1
PROPERTY EveryTurnEnds
\* The turns are over.
CHECK_DEADLOCK FALSE
