SPECIFICATION Spec
CONSTANTS
    LAW_TOP_K = 2
    CASE_TOP_K = 1
    RETAINED_LAWS = 2
    RETAINED_CASES = 1
    Batches <- SomeBatches
    Texts <- SomeTexts
    NextSteps <- SomeSteps
    MaxRounds = 3
    MAX_REPAIR_ROUNDS = 1
    MAX_ANSWER_ATTEMPTS = 2
INVARIANTS
    TypeOK
    CitationsStand
    PassedMeansSupported
    ModelAnswersAreGrounded
