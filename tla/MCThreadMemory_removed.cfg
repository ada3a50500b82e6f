\* Two turns, the second one with a compaction.
SPECIFICATION Spec
CONSTANTS
    MaxTurns = 2
    KEEP_RECENT = 1
    AUTO_COMPACT = 3
    SLIDING_WINDOW_SIZE = 99
    SUMMARY_ITEMS = 12
    DocumentTurns = {}
    EvidenceTurns = {}
    ToolTurns = {1, 2}
    Questions = {a}
    Replies = {r}
    MODEL_MAX = 128
    INPUT_TOKENS = 64
    OUTPUT_RESERVE = 8
    RECENT_COUNT = 3
    LONG_MATERIAL = 4
    LONG_CASES = 8
    Explicit <- EvidenceOverride
    MessageSizes <- Lengths
    OtherParts <- Parts
    Environments <- TwoTurns
INVARIANTS
    RemovedIsSummarised
