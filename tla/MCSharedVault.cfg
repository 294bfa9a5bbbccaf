SPECIFICATION Spec
CONSTANTS
    MaxInits = 3
    MaxTokens = 6
    MaxFaults = 2
    MaxUpsets = 2
INVARIANTS
    TypeOK
    KeyKept
    Level2LeavesReady
    Level2FailsOnlyWithoutKey
CHECK_DEADLOCK FALSE
