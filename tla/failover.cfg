SPECIFICATION Spec
CONSTANTS
    NProviders = 2
    eth_call = eth_call
    debug_trace = debug_trace
    Methods = {eth_call, debug_trace}
    DefaultRateLimitBackoff = 1
    DefaultUnsupportedMethodTTL = 1
    AttemptCap = 1
    LongAgo = 0
    Requests = {r1, r2}
    Batches <- CallAndBatch
    Kind = "eth"
    Codes <- MissingNoDataInternalNull
    Statuses = {200, 413, 429, 501}
    RetryAfters = {0}
    MaxResponses = 2
    Lacks <- LacksTrace
    Reliable = {2}
    Clear = {2}
    Cancellable = {r1, r2}
SYMMETRY RequestSymmetry
INVARIANTS TypeOK ServedByReliable FlagsAreReported NotFoundIsTrue
PROPERTIES OnlyFaultsTakeOffline
