SPECIFICATION ConfigSpec
CONSTANTS
    Programs = {p1}
    Keys <- SmallKeys
    BuildKeys <- SmallBuildKeys
    Fields = {"r"}
    Protected <- SmallProtected
    Injectable <- SmallProtected
    Edits <- SmallEdits
    MaxSets = 3
    MaxSaves = 1
    None = none
PROPERTIES
    FailedSetLeavesTheFile
CHECK_DEADLOCK FALSE
