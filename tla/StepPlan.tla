----------------------------- MODULE StepPlan -----------------------------
(***************************************************************************)
(* The execution plan of one request and the pure functions that rewrite   *)
(* it: the reducer of the plan channel (agent/state.py), the step settling *)
(* and dispatch of the Supervisor (agent/nodes/supervisor.py), the reset   *)
(* of an overall re-plan (agent/nodes/verifier.py) and the local repair of *)
(* the Repair Router (agent/repair.py).                                    *)
(*                                                                         *)
(* A plan is a list of steps in the code, and every function that touches  *)
(* it looks steps up by step_id.  Here it is a function from the step ids  *)
(* to the steps, and a step carries its place in the list as pos.          *)
(***************************************************************************)
EXTENDS Naturals, FiniteSets, Sequences

CASE_ANALYSIS      == "case_analysis"
STATUTE_RETRIEVAL  == "statute_retrieval"
CASE_RETRIEVAL     == "case_retrieval"
LEGAL_CONSULTATION == "legal_consultation"

TaskType == {CASE_ANALYSIS, STATUTE_RETRIEVAL, CASE_RETRIEVAL, LEGAL_CONSULTATION}

\* Variant: the agent's registry name instead of its node name.
TASK_AGENT_MAP_Names ==
    [t \in TaskType |->
        CASE t = CASE_ANALYSIS      -> "case_analysis_agent"
          [] t = STATUTE_RETRIEVAL  -> "statute_retrieval_agent"
          [] t = CASE_RETRIEVAL     -> "case_retrieval"
          [] t = LEGAL_CONSULTATION -> "legal_consult_agent"]

\* The one specialist a task type is assigned to (graph node name).
TASK_AGENT_MAP ==
    [t \in TaskType |->
        CASE t = CASE_ANALYSIS      -> "case_analysis_agent"
          [] t = STATUTE_RETRIEVAL  -> "statute_retrieval_agent"
          [] t = CASE_RETRIEVAL     -> "case_retrieval_agent"
          [] t = LEGAL_CONSULTATION -> "legal_consult_agent"]

Agents == {"case_analysis_agent", "statute_retrieval_agent",
           "case_retrieval_agent", "legal_consult_agent"}

Status == {"pending", "running", "completed", "failed"}

\* step_1, step_2, ... are the planner's; repair_1, ... the Repair Router's.
StepId == {"step", "repair"} \X (Nat \ {0})
Step   == [task : TaskType, status : Status, pos : Nat]

NoPlan == [id \in {} |-> {}]

IsPlan(p) ==
    /\ p \in [DOMAIN p -> Step]
    /\ DOMAIN p \subseteq StepId
    /\ IsFiniteSet(DOMAIN p)

TasksOf(p)          == {p[id].task : id \in DOMAIN p}
WithStatus(p, s)    == {id \in DOMAIN p : p[id].status = s}
AgentOf(p, id)      == TASK_AGENT_MAP[p[id].task]
Mark(p, id, status) == [p EXCEPT ![id].status = status]

\* The step next(step for step in plan if status == "pending") returns.
IsFirstPending(p, id) ==
    /\ id \in WithStatus(p, "pending")
    /\ \A other \in WithStatus(p, "pending") : p[id].pos <= p[other].pos

\* A fresh plan with one pending step per task, in the given order.
PlanOf(tasks) ==
    [id \in {"step"} \X DOMAIN tasks |->
        [task |-> tasks[id[2]], status |-> "pending", pos |-> id[2]]]

(***************************************************************************)
(* The plan channel's reducer: a step whose id is known is overwritten in  *)
(* place, an unknown one is appended at the end in the order of the        *)
(* update, and writing the empty list clears the plan.                     *)
(***************************************************************************)
merge_plan_steps(left, right) ==
    LET fresh == DOMAIN right \ DOMAIN left
        rank(id) == Cardinality({other \in fresh : right[other].pos <= right[id].pos})
    IN  IF right = NoPlan
        THEN NoPlan
        ELSE [id \in DOMAIN left \cup DOMAIN right |->
                IF id \in fresh
                THEN [right[id] EXCEPT !.pos = Cardinality(DOMAIN left) + rank(id)]
                ELSE IF id \in DOMAIN right
                     THEN [right[id] EXCEPT !.pos = left[id].pos]
                     ELSE left[id]]

\* Every step of the plan goes back to pending for an overall re-plan.
ResetPlan(p) == [id \in DOMAIN p |-> [p[id] EXCEPT !.status = "pending"]]

(***************************************************************************)
(* plan_repair: the list the Repair Router computes before the reducer     *)
(* sees it.  A target task with no step in the plan gets one, inserted in  *)
(* front of the first legal-consultation step (or at the end when there is *)
(* none); then the first step of a target and every step behind it are     *)
(* reopened.  `added' lists the missing targets in the order of the        *)
(* verifier's issues.                                                      *)
(***************************************************************************)
InsertRepairSteps(p, added) ==
    LET ahead    == {id \in DOMAIN p :
                        \A other \in DOMAIN p :
                            p[other].task = LEGAL_CONSULTATION => p[id].pos < p[other].pos}
        at       == Cardinality(ahead) + 1
        place(k) == IF added[k] = LEGAL_CONSULTATION THEN Len(added)
                    ELSE Cardinality({j \in 1 .. k : added[j] # LEGAL_CONSULTATION})
        new      == {"repair"} \X DOMAIN added
    IN  [id \in DOMAIN p \cup new |->
            IF id \in DOMAIN p
            THEN [p[id] EXCEPT !.pos = IF @ >= at THEN @ + Len(added) ELSE @]
            ELSE [task   |-> added[id[2]],
                  status |-> "pending",
                  pos    |-> at + place(id[2]) - 1]]

\* Variant: only the steps of a target are reopened, not those behind them.
ReopenTargetsOnly(p, targets) ==
    [id \in DOMAIN p |->
        IF p[id].task \in targets THEN [p[id] EXCEPT !.status = "pending"] ELSE p[id]]

Reopen(p, targets) ==
    LET hit == {id \in DOMAIN p : p[id].task \in targets}
    IN  [id \in DOMAIN p |->
            IF \E h \in hit : p[h].pos <= p[id].pos
            THEN [p[id] EXCEPT !.status = "pending"]
            ELSE p[id]]

plan_repair(p, targets, added) == Reopen(InsertRepairSteps(p, added), targets)
=============================================================================
