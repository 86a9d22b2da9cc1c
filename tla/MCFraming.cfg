SPECIFICATION Spec
CONSTANTS
    Bodies <- MCBodies
    Extra <- MCExtra
    Leftover = {0, 2}
    BufSize = 5
    MaxFrames = 2
INVARIANTS
    TypeOK
    InOrder
    KeepsInStep
PROPERTIES
    FramesDelivered
    ReaderEnds
CHECK_DEADLOCK FALSE
