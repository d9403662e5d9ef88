SPECIFICATION Spec
CONSTANTS
    Cases <- AllCases
INVARIANTS
    EffectsAddUp
    DeterministicIsStable
    NothingHidden
    ApprovedRulesSettle
CHECK_DEADLOCK FALSE
