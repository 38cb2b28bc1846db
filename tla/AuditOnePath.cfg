SPECIFICATION MCSpec
CONSTANTS
    Paths = {p1, p2}
    Physicals = {q1, q2}
    d1 = d1
    Files = {f1, f2}
    Dirs = {d1}
    Stamps = {s1, s2}
    c1 = c1  c2 = c2  c3 = c3
    Contents = {c1, c2, c3}
    Size <- MCSize
    Authorized = {q1}
    MaxQueries = 5
    MaxFileBytes = 1
    MaxTotalBytes = 2
    MaxStringBytes = 45
    MaxEntries = 1
    MaxMoves = 2
    None = None
INVARIANTS
    TypeOK
    OneFileBehindEachPath
    QuietDiskNeverFails
    BudgetsHold
    OpenedAliasesAgree
PROPERTY
    ImplementsPinnedView
CHECK_DEADLOCK FALSE
