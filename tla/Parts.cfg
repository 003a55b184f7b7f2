SPECIFICATION PartsSpec
CONSTANTS
    Exprs <- MCExprs
    TzOffset <- FiveHoursBehind
    Starts <- MCStarts
    Duration = 5800
    MaxLate = 2
    Texts <- MCTexts
    MaxChunk = 3
    Characters <- MCCharacters
    Answers <- MCAnswers
    Callers = {1, 2}
    MaxErrors = 1
    Users = {u1, u2}
    Chats = {c1}
    NoProcess = NoProcess
    MaxRequests = 2
    MaxChanges = 2
    MaxExits = 1
    MaxTurns = 3
    MaxUse = 2
    MaxResets = 1
INVARIANT RunsAsTold
INVARIANT SplitKeeps
INVARIANT OnlySpaceStalls
INVARIANT ShownAsStored
INVARIANT EventsTellTheRow
INVARIANT RunsAsSet
INVARIANT ChargedOnce
PROPERTY ImplementsRegister
\* The watched days, the text, the answer, the changes or the turns end.
CHECK_DEADLOCK FALSE
