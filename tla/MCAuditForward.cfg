CONSTANTS
    Proc = {p1}
    None = None
    TailLines = 2
    RotateAt = 2
    MaxSha = 5
    MaxFailures = 1
    MaxCrashes = 1
    Batch = 1
    RotateInRun = FALSE
    MaxSendErrors = 1
SPECIFICATION FLiveSpec
INVARIANTS FTypeOK SentAtLeastOnceUndisturbed
PROPERTIES StartsOverOnlyWhenGone BacklogDelivered
CHECK_DEADLOCK FALSE
