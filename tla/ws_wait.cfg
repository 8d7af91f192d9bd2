SPECIFICATION Spec
CONSTANTS
    ChanCapacity = 1
    Capacity = 1
    BatchSize = 1
    MaxBad = 0
    Window = 1
    MaxMessages = 1
    MaxOthers = 0
INVARIANT WaitMeansClosed
CHECK_DEADLOCK FALSE
