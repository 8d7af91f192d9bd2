SPECIFICATION Spec
CONSTANTS
    NProviders = 1
    eth_call = eth_call
    debug_trace = debug_trace
    Methods = {eth_call}
    DefaultRateLimitBackoff = 1
    DefaultUnsupportedMethodTTL = 1
    AttemptCap = 1
    LongAgo = 0
    Requests = {r1}
    Batches <- OneCall
    Kind = "eth"
    Codes <- None
    Statuses = {200, 429}
    RetryAfters = {0}
    MaxResponses = 1
    Lacks <- LacksNothing
    Reliable = {}
    Clear = {}
    Cancellable = {r1}
INVARIANTS RateLimitedIsOffline
