SPECIFICATION Spec
CONSTANTS
    Node = {n1, n2}
    NULL = NULL
    NoPath = NoPath
    p1 = p1
    p2 = p2
    u1 = u1
    Uri = {u1}
    Path = {p1, p2}
    PathOf <- MCPathOf
    Bucket = {0, 1}
    Hash <- MCHash
    Texts <- MCTexts
    Chars <- MCChars
    Chunk = 4
    MaxChars = 2
    MaxVersion = 2
    MaxUnsent = 2
    MaxQueue = 1
INVARIANTS
    SaveAgrees
    NeverSplits
PROPERTIES
    ImplementsMirror
    ServerEnds
CHECK_DEADLOCK FALSE
