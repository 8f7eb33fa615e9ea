SPECIFICATION FairSpec

CONSTANTS
    b1 = b1
    b2 = b2
    b3 = b3
    MinThreads = 1
    MaxThreads = 2
    DownTicks = 2
    Blocks = {b1, b2}

CHECK_DEADLOCK FALSE
PROPERTY StopEnds
PROPERTY Drained
PROPERTY Wakes
INVARIANT ParkedEmpty
INVARIANT StopLosesNothing
