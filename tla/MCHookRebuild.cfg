CONSTANTS
    Events = 3
    NoPid = NoPid
    Blank = Blank
    MaxCrashes = 2
    MayFail = TRUE
SPECIFICATION Spec
INVARIANTS TypeOK BuildsSerializedUnlessStolen LockHasBuilder QuietIsSettled
PROPERTIES IndexNeverOlder EveryEventBuilt LaterEventNotLost
CHECK_DEADLOCK FALSE
