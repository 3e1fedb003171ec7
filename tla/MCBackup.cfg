\* Two requests create, verify, lock and restore the backups of a day.  The
\* system stops when the backups of the bound are used.
SPECIFICATION Spec
CONSTANTS
    b1 = b1 b2 = b2 b3 = b3 w1 = w1 p1 = p1 p2 = p2 None = None
    Id = {b1, b2}
    Write = {w1}
    Process = {p1, p2}
    Cloud = TRUE
    MaxLocks = 1
    Tiers <- TiersOfTheCode
SYMMETRY Symmetry
INVARIANTS RestoresExclusive RestoreRollsBack AlwaysRecoverable
CHECK_DEADLOCK FALSE
