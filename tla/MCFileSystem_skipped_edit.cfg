SPECIFICATION Spec
CONSTANTS
    Node = {n1, n2}
    NULL = NULL
    NoPath = NoPath
    p1 = p1
    p2 = p2
    p3 = p3
    p4 = p4
    u1 = u1
    u1b = u1b
    u2 = u2
    u3 = u3
    u4 = u4
    ubad = ubad
    Uri <- MCSmallUri
    Path <- MCSmallPath
    PathOf <- MCSmallPathOf
    Bucket = {0, 1}
    Hash <- MCSmallHash
    Versions = {1}
    Contents <- MCContents
    Batches <- MCSmallBatches
    Chunk = 2
    MaxText = 3
INVARIANT
    ChangesAreComplete
CHECK_DEADLOCK FALSE
