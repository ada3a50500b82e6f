SPECIFICATION FairSpec
CONSTANTS
    Turns = {t1, t2}
    Providers = {"deepseek", "qwen", "zhipu"}
    Primary = "deepseek"
    FallbackList <- MCFallbackList
    MaxAttempts = 3
    RequestLimit = 3
    TokenLimit = 2
    Usage = 1
    LastDay = 2
    MaxCalls = 2
    MaxTurns = 3
INVARIANTS
    SpendingIsBounded
    FailureMeansAllAsked
PROPERTIES
    TurnsEnd
CHECK_DEADLOCK FALSE
