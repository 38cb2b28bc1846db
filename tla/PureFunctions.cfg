SPECIFICATION Spec
CONSTANTS
    Words = {"a", "b"}
    BaseDir <- MCBaseDir
    MaxLength = 5
    Dims = {0, 1, 2, 3}
    MaxDims = 3
    LeafSizes = {0, 1, 4}
    FieldOffsets = {0, 1, 2, 4}
    FieldSizes = {1, 2}
    MaxFields = 3
    None = None
    Absent = absent
    Nothing = nothing
    MaxText = 5
    IncludeRoots <- MCIncludeRoots
    QuotedRoots <- MCQuotedRoots
    Macros = {"M", "N"}
    Names = {"a", "b"}
    Source <- MCSource
    Compilations <- MCCompilations
    Elsewhere <- MCElsewhere
    MaxDepth = 3
INVARIANTS
    DescriptorFitsPayload
    OutputsAreToldApart
    EmittedAsNested
    UnmarkedSurvives
    UnmarkedBodiesBehaveAlike
    RoundTripKeepsMeaning
    RegexReadsWhatRuns
    SilentSuccessIsTheProgramsGraph
    ScannersSeeTheCode
    StubReplacesTheBody
    ScannersFollowTheScopes
    CleanScanMissesNothing
    KeyCoversPreprocessing
CHECK_DEADLOCK FALSE
