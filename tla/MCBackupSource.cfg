\* One request creates a backup and restores it.
SPECIFICATION Spec
CONSTANTS
    b1 = b1 b2 = b2 b3 = b3 w1 = w1 p1 = p1 p2 = p2 None = None
    Id = {b1, b2}
    Write = {w1}
    Process = {p1}
    Cloud = TRUE
    MaxLocks = 0
    Tiers <- TiersOfTheCode
INVARIANT SourceSurvives
CHECK_DEADLOCK FALSE
