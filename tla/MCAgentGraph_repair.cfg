\* A repair of plans of up to two steps.
SPECIFICATION Spec
CONSTANTS
    MAX_TOOL_CALLS_PER_AGENT = 1
    MAX_TOOL_CALLS_PER_REQUEST = 2
    EVIDENCE_LAW_TARGET = 1
    EVIDENCE_CASE_TARGET = 1
    EVIDENCE_GAIN_STOP_THRESHOLD = 0
    RETAINED_LAWS = 1
    RETAINED_CASES = 1
    MAX_STEP_RETRIES = 1
    MAX_REPAIR_ROUNDS = 1
    MAX_AGENT_REPLAN_RETRIES = 1
    MAX_PLAN_STEPS = 2
    Queries = {q1}
    MaxCallsPerResponse = 1
    MaxGain = 1
    InitialRoutes = {"case_analysis_agent", "statute_retrieval_agent", "case_retrieval_agent", "legal_consult_agent", "final"}
    SilentAgents = {}
INVARIANT RepairedEvidenceComesFirst
