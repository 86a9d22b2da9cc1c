SPECIFICATION Spec
CONSTANTS
    Byte = {a, b}
    NUL = NUL
    Limit = 4
    MaxString = 3
    Strings <- MCStrings
INVARIANTS
    TypeOK
    ReadsText
    PeerAligned
PROPERTIES
    SplitMakesRoom
    ImplementsCursor
