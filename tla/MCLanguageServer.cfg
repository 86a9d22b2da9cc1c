SPECIFICATION Spec
CONSTANTS
    Node = {n1, n2}
    NULL = NULL
    NoPath = NoPath
    p1 = p1
    p2 = p2
    u1 = u1
    u2 = u2
    ubad = ubad
    Uri <- MCUri
    Path <- MCPath
    PathOf <- MCPathOf
    Bucket = {0, 1}
    Hash <- MCHash
    Chunk = 2
    MaxText = 3
    Messages <- MCMessages
INVARIANTS
    TypeOK
    AnsweredOnce
    DocumentsNeedInitialize
    DeathsExplained
    ShutdownReleasesAll
PROPERTIES
    OnlyItsDocument
    HandlersEnd
CHECK_DEADLOCK FALSE
