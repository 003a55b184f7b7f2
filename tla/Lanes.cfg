SPECIFICATION Spec
CONSTANTS
    Keys <- OneCodexKey
    BackendOf <- MCBackendOf
    Sorts <- SteeredOrScheduled
    Permits = 1
    LaneCapacity = 1
    ReplyCapacity = 3
    MaxRequests = 3
    MaxFaults = 0

INVARIANT HandedInArrivalOrder
INVARIANT CancelledNeverHanded
CHECK_DEADLOCK FALSE
