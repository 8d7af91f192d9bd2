SPECIFICATION FairSpec
CONSTANTS
    ChanCapacity = 1
    Capacity = 1
    BatchSize = 4
    MaxBad = 0
    Window = 4
    MaxMessages = 1
    MaxOthers = 0
PROPERTY Answered
CHECK_DEADLOCK FALSE
