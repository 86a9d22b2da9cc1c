SPECIFICATION Spec
CONSTANTS
    Chunk = 2
    Inserts <- MCInserts
    MaxText = 4
    MaxLine = 2
    MaxChar = 2
    MaxMove = 2
INVARIANTS
    TypeOK
    IsTbuf
    HoldsDocument
    ResultsRight
    QueriesRight
    PositionRight
    AbortsExplained
    StuckExplained
PROPERTIES
    CallsEnd
    ImplementsCursor
CHECK_DEADLOCK FALSE
