CONSTANTS
    Main = m
    Foreign = g
    NoOne = NoOne
    Threads = {m, g}
    TraceAll = FALSE
    Aggregation = TRUE
    KeepFrom = 4
    MaxCalls <- MCCalls
    MaxInterval = 2
    MaxForks = 2
SPECIFICATION Spec
CHECK_DEADLOCK FALSE
INVARIANTS
    TypeOK
    TraceComplete
    OwnEventsOnly
    HashNamed
    CrashOnlyInFinalize
PROPERTY
    CallsReturn
