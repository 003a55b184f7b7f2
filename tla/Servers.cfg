SPECIFICATION ServersSpec
CONSTANTS
    Turns = 2
    Astra = TRUE
    Events = 1
    Disturbances = 2
    PoolCapacity = 1
    Users = {u1, u2}
    AuthThreshold = 1
    MaxAuthCalls = 3
    MaxTokens = 3
INVARIANT RequeuedWasNotApplied
INVARIANT OnlyAdriftMixesIn
INVARIANT AnsweredIsComplete
INVARIANT RunsOnce
INVARIANT RefusedStaysOut
\* The last turn or command has ended and the server waits for input.
CHECK_DEADLOCK FALSE
