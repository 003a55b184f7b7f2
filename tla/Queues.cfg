SPECIFICATION QueuesSpec
CONSTANTS
    Instances = {g1}
    Replies = {r1, r2}
    Queued = {r2}
    NoInstance = NoInstance
    NoReply = NoReply
    ReplayLimit = 2
    MaxCrashes = 3
    MaxFaults = 1
    Capacity = 2
    Messages = 4
    MaxPanics = 2
INVARIANTS
    OncePerStart
PROPERTIES
    ImplementsDurableReply
    StoredIsTried
    ImplementsFifo
    OfferedIsTaken
\* Every reply is settled, every message offered, and the bounds are used up.
CHECK_DEADLOCK FALSE
