SPECIFICATION FairSpec
CONSTANTS
    Corpus <- MCCorpus
    ContentOf <- MCContentOf
    Superseded = {"b1"}
    Enhancements <- MCEnhancements
    VectorScore <- MCVectorScore
    KeywordScore <- MCKeywordScore
    RerankScore <- MCRerankScore
    VECTOR_TOP_K = 2
    BM25_TOP_K = 2
    FINAL_TOP_K = 2
    MIN_RESULTS = 1
    RRF_K = 60
    SCORE_THRESHOLD = 300000
    BATCH_SIZE = 2
    Tools = {t1}
    Services = {s1}
    Rebuilders = {r1}
    MaxFaults = 2
INVARIANTS
    TypeOK
    IndexIsWhole
    HitsAreServed
PROPERTIES
    PartialAnswersEnd
CHECK_DEADLOCK FALSE
