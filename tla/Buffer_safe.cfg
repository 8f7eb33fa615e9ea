SPECIFICATION Spec

CONSTANTS
    main = main
    worker = worker
    Orphan = Orphan
    NoOne = NoOne
    Threads = {main, worker}
    Main = main
    MaxEvents = 1
    MaxFlushes = 1
    Finalizes = TRUE
    Spurious = FALSE
    OpenFails = FALSE
    Stops = FALSE
    Crashes = TRUE

CHECK_DEADLOCK FALSE


INVARIANT TypeOK
INVARIANT OneUser
INVARIANT FlushedAtFinalize
