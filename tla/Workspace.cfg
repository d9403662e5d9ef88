SPECIFICATION Spec
CONSTANTS
    Paths <- SomePaths
    Ignored = {"dist", ".venv", "coverage"}
    Links = {"link"}
    Secret = {".env"}
    SourceFiles <- SomeFiles
    Installed = ".venv"
    Littered = {"dist", "report"}
    Repos <- SomeRepos
    Versions <- SomeVersions
    Picks = {0, 2, 5}
    MaxChanges = 3
INVARIANTS
    OneMutantAtATime
    
CHECK_DEADLOCK FALSE
