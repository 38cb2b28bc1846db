SPECIFICATION Spec
CONSTANTS
    MaxRequest = 3
    MaxInput = 2
    MaxRuns = 4
INVARIANTS
    CompleteOnSuccess
    FrozenUntilContinue
    NoProgramLeftBehind
PROPERTIES
    AdapterEnds
CHECK_DEADLOCK FALSE
