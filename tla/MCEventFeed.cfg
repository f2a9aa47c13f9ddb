SPECIFICATION FairSpec
CONSTANTS
    Local = {s1}
    Remote = {w1}
    Tailer = tailer
    QueueSize = 1
    MaxEvents = 3
    MaxRotations = 2
INVARIANTS
    TypeOK
    OnceAndInOrder
    DropsCounted
    NoLineSkipped
PROPERTIES
    LineArrives
CHECK_DEADLOCK FALSE
