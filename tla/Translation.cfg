SPECIFICATION Spec
CONSTANTS
    Apps <- SomeApps
    Targets <- Layouts
    AuthFile <- Auth
    DatabaseFile <- Database
    MainFile <- Main
    ModelsFile <- Models
    RoutesFile <- Routes
    SchemasFile <- Schemas
    MaxChanges = 1
    MaxWaivers = 1
INVARIANTS
    SkeletonIsMapped
    FailsClosed
    SkeletonBoots
    CompleteLedgerCovers
    SchemaCheckIsExact
CHECK_DEADLOCK FALSE
