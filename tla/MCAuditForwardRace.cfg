CONSTANTS
    Proc = {p1}
    None = None
    TailLines = 2
    RotateAt = 2
    MaxSha = 6
    MaxFailures = 0
    MaxCrashes = 0
    Batch = 1
    RotateInRun = TRUE
    MaxSendErrors = 1
SPECIFICATION FSpec
INVARIANTS SentAtLeastOnce
CHECK_DEADLOCK FALSE
