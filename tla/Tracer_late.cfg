CONSTANTS
    Main = m
    Foreign = g
    NoOne = NoOne
    Threads = {m, g}
    TraceAll = FALSE
    Aggregation = TRUE
    KeepFrom = 4
    MaxCalls <- MCCalls
    MaxInterval = 2
    MaxForks = 1
SPECIFICATION Spec
CHECK_DEADLOCK FALSE
INVARIANT LateCallHarmless
