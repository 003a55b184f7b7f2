SPECIFICATION TasksSpec
CONSTANTS
    MaxJobs = 2
    Period = 1
    Day = 2
    MaxTime = 2
    MaxStops = 1
    MaxFaults = 1
    Messages = 4
    Disturbances = 2
    LinkCapacity = 1
    LaneCapacity = 1
    ReplyCapacity = 1
    Posts = 3
    Restarts = 1
    Mishaps = 2
    InboxCapacity = 1
INVARIANTS
    NoneVanishes
    OncePerDue
    DeletedStaysDeleted
    LostOnlyWithItsLink
    NoneRunsTwice
PROPERTIES
    DueIsBegun
    MainReturns
    PostedIsTaken
\* Every message has been answered and no job is left.
CHECK_DEADLOCK FALSE
