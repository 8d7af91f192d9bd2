SPECIFICATION FairSpec
CONSTANTS
    NProviders = 3
    eth_call = eth_call
    debug_trace = debug_trace
    Methods = {eth_call, debug_trace}
    DefaultRateLimitBackoff = 2
    DefaultUnsupportedMethodTTL = 1
    AttemptCap = 1
    LongAgo = 0
    Requests = {r1}
    Batches <- EachCall
    Kind = "eth"
    Codes <- MissingNoDataInternalNull
    Statuses = {200, 402, 413, 429, 500, 501}
    RetryAfters = {0, 1}
    MaxResponses = 1
    Lacks <- LacksTrace
    Reliable = {2}
    Clear = {2}
    Cancellable = {r1}
PROPERTIES WalksInOrder RequestsEnd
