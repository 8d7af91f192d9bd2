SPECIFICATION FairSpec
CONSTANTS
    ChanCapacity = 1
    Capacity = 1
    BatchSize = 2
    MaxBad = 1
    Window = 2
    MaxMessages = 2
    MaxOthers = 1
INVARIANTS
    TypeOK
    WaitIsFinal
    NothingLeftBehind
PROPERTIES
    MessagesAreKept
    ShutdownEnds
    TornDown
    Answered
CHECK_DEADLOCK FALSE
