SPECIFICATION Spec
CONSTANTS
    Model = model
    Response = rsp
    Early = early
    Late = late
    s1 = s1
    s2 = s2
    UnitFiles <- TwoUnits
    MaxMoves = 1
    Absent = absent
    None = None
INVARIANTS
    CommandsAreOfTheInputs
CHECK_DEADLOCK FALSE
