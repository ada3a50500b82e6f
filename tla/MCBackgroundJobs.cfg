SPECIFICATION FairSpec
CONSTANTS
    Videos = {v1, v2}
    Reviews = {r1}
    Films <- MCFilms
    DEDUP_THRESHOLD = 1
    DEDUP_WINDOW = 2
    MAX_WORKERS = 1
    MaxRestarts = 1
INVARIANTS
    SuccessIsServed
    KeptFramesStandForAll
PROPERTIES
    TasksEnd
CHECK_DEADLOCK FALSE
