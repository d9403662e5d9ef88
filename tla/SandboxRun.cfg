SPECIFICATION FairSpec
CONSTANTS
    p1 = p1
    Procs <- One
    Boxes <- OneBoxes
    Requests <- EveryRequest
    SlowStart = FALSE
    MayStop = TRUE
    Cleanups = TRUE
    Flaky = {}
INVARIANTS
    PassedForReal
    NothingLeft
PROPERTIES
    EveryRunEnds
    LeftoversAreRemoved
CHECK_DEADLOCK FALSE
