SPECIFICATION Spec
CONSTANTS
    N = 4
    Paths <- SharedPaths
    AppPaths <- SharedApp
    Protected <- DatabaseProtected
    Target <- SharedTarget
    OwnTest <- SharedOwnTest
    TestUnits = {4}
    MaxAttempts = 2
    Skeleton <- SharedSkeleton
    Answers <- SharedAnswers
    Selections <- SharedSelections
    MaxCrashes = 0
    CrashPoints <- NoPoints
    MayTear = FALSE
INVARIANTS
    TypeOK
    HeadPassesSuite
    OnlyGreenCodeCommitted
    AttemptOnCommittedTree
    NothingLeftBehind
    BlockedAfterAllAttempts
    GreenCommitHasCode
PROPERTY
    ImplementsHistory
