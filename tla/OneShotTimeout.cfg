SPECIFICATION OneShotSpec
CONSTANTS
    MaxLines = 1
    PipeRoom = 1
    LoopCapacity = 1
PROPERTY TimedOutTurnEnds
\* The turn is over.
CHECK_DEADLOCK FALSE
