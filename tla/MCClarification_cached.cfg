SPECIFICATION Spec
CONSTANTS
    Threads = {t1, t2}
    Messages = {"dismissed", "years", "wages", "deposit"}
    Words <- MCWords
    Tells <- MCTells
    Marks <- MCMarks
    Size <- MCSize
    Categories <- MCCategories
    Dimensions <- MCDimensions
    MAX_CLARIFICATION_ROUNDS = 2
    BLOCKING_MISSING = 2
    DETAILED = 120
    NARRATIVE = 180
    MaxAnswers = 1
INVARIANTS
    CachedAnswerFits
