SPECIFICATION FairSpec
CONSTANTS
    NProviders = 2
    Methods = {}
    DefaultRateLimitBackoff = 2
    DefaultUnsupportedMethodTTL = 1
    AttemptCap = 2
    LongAgo = 0
    Chains = {"1", "2"}
    Configured = ""
    Tolerance = 0
    MaxHeight = 1
    Interval = 1
    RetryAfters = {0}
    FirstBackoff = 1
    SecondBackoff = 2
    ShortDelay = 1
    MediumDelay = 2
    LongDelay = 3
    Flaky = {1}
    Settling = {1}
INVARIANTS TypeOK OneChain TipIsReached
PROPERTIES Recovers Leaves
