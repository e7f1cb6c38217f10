CONSTANTS
    PageSize = 2
    NumPages = 3
    PlainSize = 4
    BufLen = 3
    FileCap = 4
    MaxLen = 4
    WordBits = 5
    MaxCalls = 1
    InitCaches <- MC_InitCaches
    InitPlain <- MC_InitPlain
    InitFile <- MC_InitFile
SPECIFICATION Spec
INVARIANTS TypeOK CallMatchesReference HookTransfers PinsMatchCursor
CHECK_DEADLOCK FALSE
