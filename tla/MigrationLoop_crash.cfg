SPECIFICATION ResumedSpec
CONSTANTS
    N = 2
    Paths <- PairPaths
    AppPaths <- PairApp
    Protected <- DatabaseProtected
    Target <- PairTarget
    OwnTest <- PairOwnTest
    TestUnits = {}
    MaxAttempts = 2
    Skeleton <- PairSkeleton
    Answers <- PairAnswers
    Selections <- EveryUnit
    MaxCrashes = 2
    CrashPoints <- Points
    MayTear = TRUE
INVARIANTS
    GreenCommitHasCode
    BlockedHasReport
    ProtectedUntouched
    StoppedRunResumes
PROPERTIES
    GreenIsFinal
    RunEnds
    GreenReachesGit
