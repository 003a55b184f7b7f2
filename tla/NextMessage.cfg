SPECIFICATION SettingsSpec
CONSTANTS
    Users = {u1}
    Chats = {c1}
    NoProcess = NoProcess
    MaxRequests = 2
    MaxChanges = 1
    MaxExits = 0
INVARIANT NextMessageTakesIt
\* The changes and the turns end.
CHECK_DEADLOCK FALSE
