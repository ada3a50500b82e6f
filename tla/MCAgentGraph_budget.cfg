\* The production budgets (2 per step, 3 per request), plans of up to two steps.
SPECIFICATION Spec
CONSTANTS
    MAX_TOOL_CALLS_PER_AGENT = 2
    MAX_TOOL_CALLS_PER_REQUEST = 3
    EVIDENCE_LAW_TARGET = 2
    EVIDENCE_CASE_TARGET = 1
    EVIDENCE_GAIN_STOP_THRESHOLD = 0
    RETAINED_LAWS = 2
    RETAINED_CASES = 1
    MAX_STEP_RETRIES = 1
    MAX_REPAIR_ROUNDS = 1
    MAX_AGENT_REPLAN_RETRIES = 1
    MAX_PLAN_STEPS = 2
    Queries = {q1, q2}
    MaxCallsPerResponse = 2
    MaxGain = 1
    InitialRoutes = {"case_analysis_agent", "final"}
    SilentAgents = {}
SYMMETRY QuerySymmetry
INVARIANTS
    TypeOK
    RequestToolBudget
    CompletedByOwnRun
    NoQueryRepeated
