SPECIFICATION Spec
CONSTANTS
    Builders = {b1, b2}
    Sources = {good, other, bad, impure}
    Unsupported = {bad}
    Impure = {impure}
    Pin = 0
    MaxMoves = 2
    MaxAttempts = 3
    Torn = torn
    None = None
INVARIANTS
    OnlyVerifiedOutput
    PublicationBelongsTogether
CHECK_DEADLOCK FALSE
