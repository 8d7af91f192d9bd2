SPECIFICATION FairSpec
CONSTANTS
    NProviders = 2
    Methods = {"call", "trace"}
    DefaultRateLimitBackoff = 1
    DefaultUnsupportedMethodTTL = 1
    AttemptCap = 1
    LongAgo = 1
    ApiCalls = {"a1"}
    Sessions = {"s1"}
    Incoming <- MCIncoming
    EndpointKinds = {"tron", "eth"}
    HasWs = {1, 2}
    Reliable = {2}
    Lacks <- FirstLacksTrace
    Codes <- OkMissingInternalLimited
    Ids = {1}
    MaxInFlight = 2
    AliveThreshold = 0
INVARIANTS
    TypeOK
    ReliableStaysOnline
    ReliableServes
PROPERTIES ReturnsToPrimary FlagsAreAttributed
