SPECIFICATION FairSpec
CONSTANTS
    Callers = {c1, c2}
    Capacity = 2
INVARIANTS
    TypeOK
    OneCloseFrame
    FlushNeverBlocks
    EndIsPassedOn
PROPERTIES
    ComesApart
    CallsReturn
    KeepsPromise
