SPECIFICATION FairSpec
CONSTANTS
    Requests = {r1, r2}
    Other = other
    RATE_LIMIT_REQUESTS = 1
    WINDOW_SECONDS = 2
    TTL_SECONDS = 3
    BREAKER_COOLDOWN = 2
    MAX_CONNECTIONS = 2
    Settings <- Environments
    MaxSilences = 1
INVARIANTS
    AdmittedHoldsMark
PROPERTIES
    DuplicatesAreRecognised
    BreakerRecovers
    AbandonedMarksEnd
