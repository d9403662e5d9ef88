SPECIFICATION Spec
CONSTANTS
    N = 2
    Paths <- PairPaths
    AppPaths <- PairApp
    Protected <- DatabaseProtected
    Target <- PairTarget
    OwnTest <- PairOwnTest
    TestUnits = {}
    MaxAttempts = 1
    Skeleton <- PairSkeleton
    Answers <- PairAnswers
    Selections <- PairSelections
    MaxCrashes = 1
    CrashPoints <- RunPoints
    MayTear = FALSE
INVARIANT
    OnlyGreenCodeCommitted
