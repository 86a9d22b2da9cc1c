SPECIFICATION Spec
CONSTANTS
    Node = {n1, n2, n3}
    NULL = NULL
    NoPath = NoPath
    p1 = p1
    p2 = p2
    p3 = p3
    p4 = p4
    u1 = u1
    u1b = u1b
    u2 = u2
    u3 = u3
    u4 = u4
    ubad = ubad
    Uri <- MCUri
    Path <- MCPath
    PathOf <- MCPathOf
    Bucket = {0, 1, 2}
    Hash <- MCHash
    Versions = {1, 2}
    Contents <- MCContents
    Batches <- MCBatches
    Chunk = 2
    MaxText = 3
INVARIANTS
    TypeOK
    ListComplete
    BucketsAgree
    ResultsRight
SYMMETRY Symmetry
PROPERTIES
    ImplementsFileMap
CHECK_DEADLOCK FALSE
