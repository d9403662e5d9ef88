SPECIFICATION Spec
CONSTANTS
    Repos <- SomeRepos
    Asking = {TRUE, FALSE}
    Answers <- SomeAnswers
INVARIANTS
    DependenciesFirst
    UnitsAreCycles
    EveryFileHasItsTarget
PROPERTY
    PlanIsMade
CHECK_DEADLOCK FALSE
