CONSTANTS
    Pids = {p1}
    Tids = {m}
    Drains = 2
    Grace = 1
    ReapEvery = 1
    MaxLag = 1
    Wrap = 64
    MaxBlocks = 2
SPECIFICATION Spec
INVARIANTS
    TypeOK
    FinalizedOnce
    LostOnlyIfStale
PROPERTY
    FinishedInTheEnd
