SPECIFICATION MCSpec
CONSTANTS
    Places = {q1, q2, q3}
    f3 = f3
    Regular = {f1, f2, f3}
    Directories = {d1}
    Special = {x1}
    Pseudo = {f2, f3}
    Reports <- MCReports
    Texts <- MCTexts
    Listings <- MCListings
    Authorized = {q1}
    Granted = {q2}
    MaxBytes = 2
    MaxEntries = 2
    Chunk = 2
    MaxMoves = 2
    None = None
INVARIANTS
    ReadsOnlyAuthorizedObjects
    ReadIsOneInstant
CHECK_DEADLOCK FALSE
