CONSTANTS
    Proc = {p1, p2}
    None = None
    TailLines = 3
    RotateAt = 2
    MaxSha = 6
    MaxFailures = 2
    MaxCrashes = 1
SPECIFICATION GSpec
SYMMETRY Symmetry
INVARIANTS TypeOK GTypeOK UntouchedLogVerifies ChainSkipsDamage AckedKept ChainContinuesUndisturbed  MarkedFailuresAreInTheLog
PROPERTIES ImplementsLedger
CHECK_DEADLOCK FALSE
