SPECIFICATION Spec
CONSTANTS
    Model = model
    Response = rsp
    Early = early
    Late = late
    s1 = s1
    s2 = s2
    UnitFiles <- TwoUnits
    MaxMoves = 2
    Absent = absent
    None = None
INVARIANTS
    CompleteFactsHaveOneSource
    ResultIsOneInstant
CHECK_DEADLOCK FALSE
