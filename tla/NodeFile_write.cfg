SPECIFICATION Spec

CONSTANTS
    w1 = w1
    w2 = w2
    w3 = w3
    Writers = {w1, w2, w3}
    Lengths = {1, 2, 4}
    Rollover = 3
    MaxFiles = 3
    MaxSize = 4
    OpenFails = TRUE
    WriteFails = TRUE

CHECK_DEADLOCK FALSE
SYMMETRY MCWriters
INVARIANT TypeOK
INVARIANT RangesApart
INVARIANT Tiled
INVARIANT RolloverKept
