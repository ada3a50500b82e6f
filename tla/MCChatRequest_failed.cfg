\* One request and its retry, Redis never fails.
SPECIFICATION Spec
CONSTANTS
    Requests = {r1, r2}
    Tokens = {k1}
    NoToken = NoToken
    RATE_LIMIT_REQUESTS = 2
    DAILY_REQUEST_LIMIT = 3
    RedisMayFail = FALSE
INVARIANTS
    FailureLetsRetry
