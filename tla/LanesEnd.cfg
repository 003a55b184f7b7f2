SPECIFICATION FairSpec
CONSTANTS
    Keys <- TwoKeys
    BackendOf <- MCBackendOf
    Sorts <- Texts
    Permits = 1
    LaneCapacity = 1
    ReplyCapacity = 2
    MaxRequests = 2
    MaxFaults = 1
INVARIANT NoneLeftBehind
INVARIANT LaneCountersExact
PROPERTY TerminalIsFinal
PROPERTY EveryRequestEnds
CHECK_DEADLOCK FALSE
