SPECIFICATION SplitSpec
CONSTANTS
    Texts <- MCTexts
    MaxChunk = 3
INVARIANT EveryPassShortens
CHECK_DEADLOCK FALSE
