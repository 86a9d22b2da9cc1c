SPECIFICATION Spec
CONSTANTS
    Chunk = 2
    Inserts <- MCInserts
    MaxText = 3
    MaxLine = 1
    MaxChar = 2
    MaxMove = 1
INVARIANT
    DeletionLeavesAPoint
CHECK_DEADLOCK FALSE
