SPECIFICATION FairSpec

CONSTANTS
    main = main
    worker = worker
    Orphan = Orphan
    NoOne = NoOne
    Threads = {main, worker}
    Main = main
    MaxEvents = 1
    MaxFlushes = 1
    Finalizes = FALSE
    Spurious = TRUE
    OpenFails = TRUE
    Stops = TRUE
    Crashes = FALSE

CHECK_DEADLOCK FALSE

PROPERTY CallsReturn
