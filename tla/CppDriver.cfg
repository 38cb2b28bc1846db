SPECIFICATION Spec
CONSTANTS
    NumSources = 2
    Flags = {f1, f2}
    Forged = forged
    MaxMoves = 2
    MaxCalls = 2
    Torn = torn
    None = None
INVARIANTS
    CheckedBeforeCompiling
    NothingRunsOn
    SuccessIsComplete
PROPERTIES
    CallsReturn
CHECK_DEADLOCK FALSE
