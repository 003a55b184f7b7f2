SPECIFICATION SessionsSpec
CONSTANTS
    Messages = {1, 2, 3}
    Manage = {3}
    NoEntry = NoEntry
    NoProcess = NoProcess
    MaxCommands = 1
    MaxSpawns = 2
    MaxFaults = 1
    MaxPanics = 1
    Tables = {users, sessions}
    Skills = skills
    Callers = {c1, c2}
    NoCaller = NoCaller
    MaxCalls = 4
    MaxBreaks = 2
    SendMaxRetries = 3
    TextsSent = 2
    TokensGiven = 3
    Reopens = 1
    MaxLines = 4
    PipeRoom = 1
    LoopCapacity = 1
    Turns = 2
    Events = 1
    MaxCancels = 1
    MaxSteers = 1
    MaxExits = 1
    PoolCapacity = 1
    ProgressCapacity = 1
    Disturbances = 2
INVARIANT FreshUnlessRaced
INVARIANT InterruptsHitOwnTurn
INVARIANT OnlyCancelSpoils
INVARIANT AcknowledgedSurvives
INVARIANT NewestIsServed
INVARIANT OutputIsWhole
PROPERTY OnlyOwnEraStored
\* The turns, calls and sends are over.
CHECK_DEADLOCK FALSE
