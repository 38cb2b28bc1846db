SPECIFICATION Spec
CONSTANTS
    a = a  b = b
    fa = fa  fb = fb  fo = fo
    Projects = {a, b}
    Roots = {a, b}
    Outside = outside
    Files = {fa, fb, fo}
    Home <- MCHome
    Units <- MCUnits
    MaxMoves = 2
    MaxProcesses = 2
    MaxExports = 1
    None = None
INVARIANTS
    IsolationNeverDowngraded
    FactsDescribeAcceptedInputs
    DiscoveryStaysConfined
CHECK_DEADLOCK FALSE
