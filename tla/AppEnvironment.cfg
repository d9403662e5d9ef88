SPECIFICATION FairSpec
CONSTANTS
    p1 = p1
    Procs <- One
    Boxes <- OneBoxes
    WithDb = TRUE
    Interrupts = 1
    Cleanups = TRUE
    Flaky = {"inspect"}
INVARIANTS
    EverythingRemoved
    AppStartsAfterDb
PROPERTY
    EnvironmentEnds
CHECK_DEADLOCK FALSE
