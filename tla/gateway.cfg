SPECIFICATION Spec
CONSTANTS
    Kind = "btc"
    MaxBatchSize = 2
    Recorders = {1, 2}
    NHandlers = 2
    Failures = {"noProviders"}
    MaxMethodLabels = 2
    MaxExchanges = 1
    Asked <- MCAsked
INVARIANTS
    TypeOK
    StayersAreAnswered
    OwnAnswer
    NotStale
    LabelsAreBounded
    LabelCountSettles
    AdmitsAnsweredMethods
    NobodyIsForgotten
PROPERTY RequestsEnd
CHECK_DEADLOCK FALSE
