SPECIFICATION Spec
CONSTANTS
    MaxRequest = 1
    MaxInput = 1
    MaxRuns = 2
PROPERTIES
    WaitIsGuarded
CHECK_DEADLOCK FALSE
