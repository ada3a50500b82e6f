\* One conversation: questions that may repeat, tools, a document and a report.
SPECIFICATION Spec
CONSTANTS
    MaxTurns = 3
    KEEP_RECENT = 1
    AUTO_COMPACT = 3
    SLIDING_WINDOW_SIZE = 4
    SUMMARY_ITEMS = 12
    DocumentTurns = {1}
    EvidenceTurns = {1}
    ToolTurns = {1}
    Questions = {a, b}
    Replies = {r}
    MODEL_MAX = 128
    INPUT_TOKENS = 64
    OUTPUT_RESERVE = 8
    RECENT_COUNT = 3
    LONG_MATERIAL = 4
    LONG_CASES = 8
    Explicit <- EvidenceOverride
    MessageSizes <- Lengths
    OtherParts <- Parts
    Environments <- Conversations
SYMMETRY QuestionSymmetry
INVARIANTS
    ArchiveFollowsThread
    OwnTurnIsExtracted
    PromptIsWellFormed
