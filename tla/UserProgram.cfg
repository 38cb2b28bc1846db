SPECIFICATION ProgramSpec
CONSTANTS
    Programs = {user}
    Keys <- SmallKeys
    BuildKeys <- SmallBuildKeys
    Fields = {"r"}
    Protected <- SmallProtected
    Injectable <- SmallProtected
    Edits <- SmallEdits
    MaxSets = 3
    MaxSaves = 1
    None = none
    Calls = {c1, c2}
    Processes = {p1, p2}
    Dirs = {d1, d2}
    Bases = {b1, b2}
    MaxSources = 2
    Leftovers = {0}
    MaxTroubles = 1
    NoNumber = none
    Callers = {s1, s2}
    Files = {f}
    Functions = {g}
    MaxStubs = 2
    MaxEdits = 1
INVARIANTS
    SetIsAllOrNothing
    ChecksItsOwnProject
    TextIsNeverLost
PROPERTIES
    ReadsBackAsWritten
CHECK_DEADLOCK FALSE
