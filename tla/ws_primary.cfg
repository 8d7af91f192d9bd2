SPECIFICATION FairSpec
CONSTANTS
    NProviders = 2
    Methods = {"call", "trace"}
    DefaultRateLimitBackoff = 1
    DefaultUnsupportedMethodTTL = 1
    AttemptCap = 1
    LongAgo = 2
    ApiCalls = {"a1"}
    Sessions = {"s1"}
    Incoming <- MCIncoming
    EndpointKinds = {"tron", "eth"}
    HasWs = {2}
    Reliable = {2}
    Lacks <- FirstLacksTrace
    Codes <- OkMissingInternalLimited
    Ids = {1, 2}
    MaxInFlight = 2
    AliveThreshold = 1
INVARIANT CanReconnect
