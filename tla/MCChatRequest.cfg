\* Three requests, at most one key, Redis may fail.
SPECIFICATION Spec
CONSTANTS
    Requests = {r1, r2, r3}
    Tokens = {k1}
    NoToken = NoToken
    RATE_LIMIT_REQUESTS = 2
    DAILY_REQUEST_LIMIT = 3
    RedisMayFail = TRUE
SYMMETRY RequestSymmetry
INVARIANTS
    TypeOK
    OneExecutionPerKey
    ExecutionHoldsMark
    RunsAreClosed
    EndedRequestsKeepMark
