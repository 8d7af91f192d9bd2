SPECIFICATION Spec
CONSTANTS
    NProviders = 2
    Methods = {}
    DefaultRateLimitBackoff = 1
    DefaultUnsupportedMethodTTL = 1
    AttemptCap = 1
    LongAgo = 0
    Chains = {"", "1"}
    Configured = ""
    Tolerance = 0
    MaxHeight = 1
    Interval = 1
    RetryAfters = {0}
    FirstBackoff = 1
    SecondBackoff = 2
    ShortDelay = 1
    MediumDelay = 1
    LongDelay = 1
    Flaky = {}
    Settling = {}
INVARIANTS OneChain
