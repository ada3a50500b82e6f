---------------------------- MODULE AgentGraph ----------------------------
(***************************************************************************)
(* One chat request inside the LangGraph workflow (agent/graph.py), from   *)
(* the complexity router to the end of the graph: planning, the            *)
(* Supervisor's plan execution, the tool loop of the specialists under its *)
(* budgets, verification, local repair, overall re-plan and the answer.    *)
(*                                                                         *)
(* pc is the node the graph runs next.  Every action is one node together  *)
(* with the conditional edge that leaves it.  What a model answers, which  *)
(* tools it asks for, what a search finds and what the semantic            *)
(* verification objects to are choices.                                    *)
(***************************************************************************)
EXTENDS StepPlan

CONSTANTS
    MAX_TOOL_CALLS_PER_AGENT,     \* tool calls one dispatched step may spend
    MAX_TOOL_CALLS_PER_REQUEST,   \* tool calls one request may spend
    EVIDENCE_LAW_TARGET,          \* enough statutes: stop searching
    EVIDENCE_CASE_TARGET,         \* enough cases: stop searching
    EVIDENCE_GAIN_STOP_THRESHOLD, \* a gain this small stops the loop
    RETAINED_LAWS,                \* statutes the evidence pool keeps
    RETAINED_CASES,               \* cases the evidence pool keeps
    MAX_STEP_RETRIES,
    MAX_REPAIR_ROUNDS,
    MAX_AGENT_REPLAN_RETRIES,
    MAX_PLAN_STEPS,
    Queries,                      \* normalised search keywords
    MaxCallsPerResponse,          \* bound: tool calls in one model response
    MaxGain,                      \* bound: new evidence of one tool round
    InitialRoutes,                \* routes the intent router may have chosen
    SilentAgents                  \* specialists that return no report

\* plan_repair numbers the steps it adds from repair_1 in every round, so the
\* plan's step ids are unique for at most one round.
ASSUME BudgetAssumption ==
    /\ MAX_TOOL_CALLS_PER_AGENT \in Nat \ {0}
    /\ MAX_TOOL_CALLS_PER_REQUEST \in Nat \ {0}
    /\ MAX_STEP_RETRIES \in Nat
    /\ MAX_REPAIR_ROUNDS \in {0, 1}
    /\ MAX_AGENT_REPLAN_RETRIES \in Nat
    /\ MAX_PLAN_STEPS \in Nat \ {0}

ASSUME EvidenceAssumption ==
    /\ EVIDENCE_LAW_TARGET \in Nat \ {0}
    /\ EVIDENCE_CASE_TARGET \in Nat \ {0}
    /\ EVIDENCE_GAIN_STOP_THRESHOLD \in Nat
    /\ RETAINED_LAWS \in Nat
    /\ RETAINED_CASES \in Nat
    /\ MaxGain \in Nat
    /\ MaxCallsPerResponse \in Nat \ {0}

ASSUME RouteAssumption ==
    /\ InitialRoutes \subseteq Agents \cup {"final"}
    /\ SilentAgents \subseteq Agents

VARIABLES
    pc,          \* next graph node
    mode,        \* execution_mode: "simple" | "plan"
    needsCase,   \* needs_case_retrieval
    route,       \* supervisor_route
    finalized,   \* supervisor_finalized
    plan,
    current,     \* current_step, or NoStep
    retry,       \* retry_count
    toolCount,   \* tool_call_count
    toolTotal,   \* tool_call_total
    failure,     \* tool_loop_failure is set
    refresh,     \* tool_refresh_allowed
    signatures,  \* tool_query_signatures
    calls,       \* the admitted tool calls the tool node is about to run
    laws,        \* number of retrieved_laws
    cases,       \* number of retrieved_cases
    gain,        \* evidence_gain
    reports,     \* keys of agent_reports: <<task_id, agent>>
    targets,     \* task types of the repair_targets the Repair Router is to read
    repairs,     \* repair_count
    replans,     \* replan_retry_count
    \* History, read by properties only:
    executed,    \* signatures a tool node has run in this request
    toolRuns,    \* number of tool executions in this request
    reported,    \* steps whose newest dispatch returned a report
    ranBefore    \* <<a, b>>: b's newest report came after a's newest report

flow     == <<pc, mode, needsCase, route, finalized>>
work     == <<plan, current, retry, reports>>
budget   == <<toolCount, toolTotal, failure, refresh, signatures, calls>>
evidence == <<laws, cases, gain>>
rework   == <<targets, repairs, replans>>
history  == <<executed, toolRuns, reported, ranBefore>>
vars     == <<flow, work, budget, evidence, rework, history>>

NoStep == <<"none", 0>>
Tools  == {"law", "case"}
Calls  == Tools \X Queries

\* The tools bound to each specialist's tool node (agent/tools).
ToolsOf ==
    [a \in Agents |->
        CASE a = "case_analysis_agent"     -> {"law", "case"}
          [] a = "statute_retrieval_agent" -> {"law"}
          [] a = "case_retrieval_agent"    -> {"case"}
          [] a = "legal_consult_agent"     -> {"law"}]

\* Task types the routing table can name as repair targets.
RepairTasks == {STATUTE_RETRIEVAL, CASE_RETRIEVAL, LEGAL_CONSULTATION}

InjectiveLists(S, n) ==
    {s \in UNION {[1 .. k -> S] : k \in 0 .. n} :
        \A i, j \in DOMAIN s : i # j => s[i] # s[j]}

-----------------------------------------------------------------------------
(* The request as the nodes before the complexity router leave it: the     *)
(* per-request fields are reset (api/chat.py), evidence_gain is whatever   *)
(* the previous request of the thread left behind.  A chitchat request is  *)
(* already answered (finalized).                                           *)
Init ==
    /\ pc = "complexity_router"
    /\ mode = "plan"
    /\ needsCase = FALSE
    /\ \/ route \in InitialRoutes /\ finalized = FALSE
       \/ route = "end" /\ finalized = TRUE
    /\ plan = NoPlan
    /\ current = NoStep
    /\ retry = 0
    /\ toolCount = 0
    /\ toolTotal = 0
    /\ failure = FALSE
    /\ refresh = FALSE
    /\ signatures = {}
    /\ calls = <<>>
    /\ laws = 0
    /\ cases = 0
    /\ gain \in {0, 1}
    /\ reports = {}
    /\ targets = {}
    /\ repairs = 0
    /\ replans = 0
    /\ executed = {}
    /\ toolRuns = 0
    /\ reported = {}
    /\ ranBefore = {}

(* complexity_router_node.  Case retrieval is only ever needed on the      *)
(* planned path; an answered request goes to the planner, which clears the *)
(* plan.                                                                   *)
SimplePlan == PlanOf(<<STATUTE_RETRIEVAL, LEGAL_CONSULTATION>>)

ComplexityRouter ==
    /\ pc = "complexity_router"
    /\ \/ /\ finalized
          /\ pc' = "planner"
          /\ UNCHANGED <<mode, needsCase, plan>>
       \/ /\ ~finalized
          /\ mode' = "simple"
          /\ needsCase' = FALSE
          /\ plan' = merge_plan_steps(plan, SimplePlan)
          /\ pc' = "supervisor"
       \/ /\ ~finalized
          /\ mode' = "plan"
          /\ needsCase' \in BOOLEAN
          /\ plan' = plan
          /\ pc' = "planner"
    /\ UNCHANGED <<route, finalized, current, retry, reports>>
    /\ UNCHANGED <<budget, evidence, rework, history>>

(* planner_node.  Whatever the model returns, normalisation leaves a       *)
(* non-empty list of distinct task types, with case retrieval only when it *)
(* is needed; the deterministic fallback is one of these lists too.        *)
NormalizedTaskLists(allowCase) ==
    InjectiveLists(IF allowCase THEN TaskType ELSE TaskType \ {CASE_RETRIEVAL},
                   MAX_PLAN_STEPS) \ {<<>>}

\* Variant: only a route naming a specialist is planned for.
PlannerSkipsUnlessAgent == finalized \/ route \notin Agents

PlannerSkips == finalized \/ route \in {"end", "final"}

Planner ==
    /\ pc = "planner"
    /\ \/ /\ PlannerSkips
          /\ plan' = merge_plan_steps(plan, NoPlan)
       \/ /\ ~PlannerSkips
          /\ \E tasks \in NormalizedTaskLists(needsCase) :
                plan' = merge_plan_steps(plan, PlanOf(tasks))
    /\ pc' = "supervisor"
    /\ UNCHANGED <<mode, needsCase, route, finalized, current, retry, reports>>
    /\ UNCHANGED <<budget, evidence, rework, history>>

-----------------------------------------------------------------------------
(* _executor_update and should_execute_next.                               *)

Running == {id \in WithStatus(plan, "running") : current \in {NoStep, id}}

HasReport(id) == <<id, AgentOf(plan, id)>> \in reports

\* Variants: a report outranks the failure; only reported steps are settled.
OutcomeByReport(id) == IF HasReport(id) THEN "completed" ELSE "failed"
SettledIfReported ==
    [id \in DOMAIN plan |->
        IF id \in Running /\ HasReport(id)
        THEN [plan[id] EXCEPT !.status = "completed"] ELSE plan[id]]

\* What becomes of the running step: a tool failure outranks a report.
Outcome(id) == IF ~failure /\ HasReport(id) THEN "completed" ELSE "failed"

Settled ==
    [id \in DOMAIN plan |->
        IF id \in Running THEN [plan[id] EXCEPT !.status = Outcome(id)] ELSE plan[id]]

MustRetry(id) ==
    /\ ~failure
    /\ ~HasReport(id)
    /\ retry < MAX_STEP_RETRIES

NextRetryUncounted == retry  \* variant
NextRetry == retry + 1

\* The same step runs once more, on what is left of its tool budget.
SupervisorRetries ==
    /\ pc = "supervisor"
    /\ \E id \in Running :
          /\ MustRetry(id)
          /\ retry' = NextRetry
          /\ current' = id
          /\ route' = AgentOf(plan, id)
    /\ failure' = FALSE
    /\ pc' = "specialist"
    /\ UNCHANGED <<mode, needsCase, finalized, plan, reports>>
    /\ UNCHANGED <<toolCount, toolTotal, refresh, signatures, calls>>
    /\ UNCHANGED <<evidence, rework, history>>

\* The running step is settled and the first pending one is dispatched.
SupervisorDispatches ==
    /\ pc = "supervisor"
    /\ \A id \in Running : ~MustRetry(id)
    /\ \E id \in DOMAIN plan :
          /\ IsFirstPending(Settled, id)
          /\ plan' = merge_plan_steps(plan, Mark(Settled, id, "running"))
          /\ current' = id
          /\ route' = AgentOf(plan, id)
          /\ reported' = reported \ {id}
    /\ retry' = 0
    /\ toolCount' = 0
    /\ failure' = FALSE
    /\ pc' = "specialist"
    /\ UNCHANGED <<mode, needsCase, finalized, reports>>
    /\ UNCHANGED <<toolTotal, refresh, signatures, calls>>
    /\ UNCHANGED <<evidence, rework, executed, toolRuns, ranBefore>>

\* Variant: a failed step sends the rest of the plan unrun to verification.
NothingPendingOrFailed == WithStatus(Settled, "pending") = {} \/ WithStatus(Settled, "failed") # {}

NothingPending == WithStatus(Settled, "pending") = {}

\* Nothing is left to dispatch.
SupervisorFinishesPlan ==
    /\ pc = "supervisor"
    /\ plan # NoPlan
    /\ \A id \in Running : ~MustRetry(id)
    /\ NothingPending
    /\ plan' = merge_plan_steps(plan, Settled)
    /\ current' = NoStep
    /\ retry' = 0
    /\ route' = "verify"
    /\ pc' = "result_verifier"
    /\ UNCHANGED <<mode, needsCase, finalized, reports>>
    /\ UNCHANGED <<budget, evidence, rework, history>>

\* supervisor_agent_node without a plan: the planner cleared it because the
\* route names no specialist, and should_execute_next ends the graph.
SupervisorWithoutPlan ==
    /\ pc = "supervisor"
    /\ plan = NoPlan
    /\ pc' = "end"
    /\ UNCHANGED <<mode, needsCase, route, finalized>>
    /\ UNCHANGED <<work, budget, evidence, rework, history>>

-----------------------------------------------------------------------------
(* The specialists and their tool loop (agent/tool_loop.py).               *)

\* The tool calls of one model response, in order; legal consultation keeps
\* the first one only.
Requests(agent) ==
    LET most == IF agent = "legal_consult_agent" THEN 1 ELSE MaxCallsPerResponse
    IN  UNION {[1 .. n -> ToolsOf[agent] \X Queries] : n \in 1 .. most}

TargetReached(call) ==
    \/ call[1] = "law"  /\ laws >= EVIDENCE_LAW_TARGET
    \/ call[1] = "case" /\ cases >= EVIDENCE_CASE_TARGET

\* Positions of a response whose signature is new, within it and before it.
FreshCalls(request) ==
    {i \in DOMAIN request :
        /\ request[i] \notin signatures
        /\ \A j \in 1 .. i - 1 : request[j] # request[i]}

\* evaluate_tool_stop: the response is dropped and the specialist reports.
SoftStopped(request) ==
    \/ toolTotal >= MAX_TOOL_CALLS_PER_REQUEST
    \/ ~refresh /\ \A i \in DOMAIN request : TargetReached(request[i])
    \/ toolCount > 0 /\ gain <= EVIDENCE_GAIN_STOP_THRESHOLD
    \/ ~refresh /\ FreshCalls(request) = {}

Admissible(request) == IF refresh THEN DOMAIN request ELSE FreshCalls(request)

\* Variant: only the budget of the step counts.
RemainingOfStep == MAX_TOOL_CALLS_PER_AGENT - toolCount

\* What both budgets leave; the request budget is not exhausted here.
Remaining ==
    IF MAX_TOOL_CALLS_PER_AGENT - toolCount < MAX_TOOL_CALLS_PER_REQUEST - toolTotal
    THEN MAX_TOOL_CALLS_PER_AGENT - toolCount
    ELSE MAX_TOOL_CALLS_PER_REQUEST - toolTotal

\* apply_tool_call_budget: the longest prefix of the admissible calls that
\* both budgets allow.
Granted(request) ==
    {granted \in SUBSET Admissible(request) :
        /\ \A i \in granted, j \in Admissible(request) : j < i => j \in granted
        /\ \/ granted = Admissible(request) /\ Cardinality(granted) <= Remaining
           \/ Cardinality(granted) = Remaining}

CallsAt(request, positions) == {request[i] : i \in positions}

\* The model asks for tools and the budgets grant some of them.
SpecialistCallsTools ==
    /\ pc = "specialist"
    /\ route \notin SilentAgents
    /\ toolCount < MAX_TOOL_CALLS_PER_AGENT
    /\ \E request \in Requests(route) :
          /\ ~SoftStopped(request)
          /\ \E granted \in Granted(request) :
                /\ toolCount' = toolCount + Cardinality(granted)
                /\ toolTotal' = toolTotal + Cardinality(granted)
                /\ signatures' = signatures \cup CallsAt(request, granted)
                /\ calls' = [i \in granted |-> request[i]]
    /\ failure' = FALSE
    /\ pc' = "tools"
    /\ UNCHANGED <<mode, needsCase, route, finalized, refresh>>
    /\ UNCHANGED <<work, evidence, rework, history>>

\* The model asks for tools, no soft stop applies and the step's own budget
\* is spent: the call is rejected as a failure of the step.
SpecialistOverLimit ==
    /\ pc = "specialist"
    /\ route \notin SilentAgents
    /\ toolCount >= MAX_TOOL_CALLS_PER_AGENT
    /\ \E request \in Requests(route) :
          /\ ~SoftStopped(request)
          /\ signatures' = signatures \cup CallsAt(request, Admissible(request))
    /\ failure' = TRUE
    /\ pc' = "tool_limit_exceeded"
    /\ UNCHANGED <<mode, needsCase, route, finalized>>
    /\ UNCHANGED <<toolCount, toolTotal, refresh, calls>>
    /\ UNCHANGED <<work, evidence, rework, history>>

\* tool_limit_observation_node: error observations for the rejected calls.
ToolLimitExceeded ==
    /\ pc = "tool_limit_exceeded"
    /\ failure' = TRUE
    /\ pc' = "supervisor"
    /\ UNCHANGED <<mode, needsCase, route, finalized>>
    /\ UNCHANGED <<toolCount, toolTotal, refresh, signatures, calls>>
    /\ UNCHANGED <<work, evidence, rework, history>>

\* The tool node runs the granted calls and the evidence normalizer behind it
\* folds what they found into the bounded evidence pool.
AtMost(n, limit) == IF n <= limit THEN n ELSE limit

RunTools ==
    /\ pc = "tools"
    /\ \E newLaws, newCases \in 0 .. MaxGain :
          /\ newLaws > 0  => \E i \in DOMAIN calls : calls[i][1] = "law"
          /\ newCases > 0 => \E i \in DOMAIN calls : calls[i][1] = "case"
          /\ laws'  = AtMost(laws + newLaws, RETAINED_LAWS)
          /\ cases' = AtMost(cases + newCases, RETAINED_CASES)
          /\ gain'  = newLaws + newCases
    /\ executed' = executed \cup CallsAt(calls, DOMAIN calls)
    /\ toolRuns' = toolRuns + Cardinality(DOMAIN calls)
    /\ calls' = <<>>
    /\ pc' = "specialist"
    /\ UNCHANGED <<mode, needsCase, route, finalized>>
    /\ UNCHANGED <<toolCount, toolTotal, failure, refresh, signatures>>
    /\ UNCHANGED <<work, rework, reported, ranBefore>>

\* The model answers without tools, or its tool calls were soft-stopped: the
\* specialist writes the report of the current step.
SpecialistReports ==
    /\ pc = "specialist"
    /\ route \notin SilentAgents
    /\ reports' = reports \cup {<<current, route>>}
    /\ reported' = reported \cup {current}
    /\ ranBefore' = {pair \in ranBefore : current \notin {pair[1], pair[2]}}
                        \cup {<<a, current>> : a \in reported \ {current}}
    /\ pc' = "supervisor"
    /\ UNCHANGED <<mode, needsCase, route, finalized, plan, current, retry>>
    /\ UNCHANGED <<budget, evidence, rework, executed, toolRuns>>

\* A specialist that returns without a report (case_analysis_agent_node when
\* there is no question text).
SpecialistIsSilent ==
    /\ pc = "specialist"
    /\ route \in SilentAgents
    /\ pc' = "supervisor"
    /\ UNCHANGED <<mode, needsCase, route, finalized>>
    /\ UNCHANGED <<work, budget, evidence, rework, history>>

\* The specialist's model call raises: the graph run is aborted.
SpecialistRaises ==
    /\ pc = "specialist"
    /\ route \notin SilentAgents
    /\ pc' = "aborted"
    /\ UNCHANGED <<mode, needsCase, route, finalized>>
    /\ UNCHANGED <<work, budget, evidence, rework, history>>

-----------------------------------------------------------------------------
(* result_verifier_node and should_after_verifier.  The deterministic      *)
(* audit objects to every step that is not completed; which repairable     *)
(* issues the citation check and the model raise is a choice.              *)

PlanIncomplete == plan = NoPlan \/ \E id \in DOMAIN plan : plan[id].status # "completed"

\* The simple path has no planner to go back to.
MayReplan == mode # "simple" /\ replans < MAX_AGENT_REPLAN_RETRIES

\* Nothing to object to, or nothing the budgets allow to be done about it.
VerifierAccepts ==
    /\ pc = "result_verifier"
    /\ \E issues \in SUBSET RepairTasks :
          \/ issues # {} /\ repairs >= MAX_REPAIR_ROUNDS
          \/ issues = {} /\ ~PlanIncomplete
          \/ issues = {} /\ ~MayReplan
    /\ targets' = {}
    /\ route' = "answer_generator"
    /\ pc' = "answer_generator"
    /\ UNCHANGED <<mode, needsCase, finalized, repairs, replans>>
    /\ UNCHANGED <<work, budget, evidence, history>>

\* Some issue names a specialist that can repair it.
VerifierSendsToRepair ==
    /\ pc = "result_verifier"
    /\ repairs < MAX_REPAIR_ROUNDS
    /\ targets' \in (SUBSET RepairTasks) \ {{}}
    /\ repairs' = repairs + 1
    /\ route' = "repair"
    /\ pc' = "repair_router"
    /\ UNCHANGED <<mode, needsCase, finalized, replans>>
    /\ UNCHANGED <<work, budget, evidence, history>>

\* Variant: a re-plan forgets which queries the request has run.
retry_updates_forgets ==
    /\ plan' = merge_plan_steps(plan, ResetPlan(plan))
    /\ current' = NoStep
    /\ retry' = 0
    /\ reports' = {}
    /\ toolCount' = 0
    /\ failure' = FALSE
    /\ refresh' = FALSE
    /\ signatures' = {}
    /\ reported' = {}
    /\ ranBefore' = {}
    /\ UNCHANGED <<toolTotal, calls, laws, cases, gain>>

\* Only unfinished steps are objected to: the whole plan runs again.
retry_updates ==
    /\ plan' = merge_plan_steps(plan, ResetPlan(plan))
    /\ current' = NoStep
    /\ retry' = 0
    /\ reports' = {}
    /\ toolCount' = 0
    /\ failure' = FALSE
    /\ refresh' = FALSE
    /\ reported' = {}
    /\ ranBefore' = {}
    /\ UNCHANGED <<toolTotal, signatures, calls, laws, cases, gain>>

VerifierReplans ==
    /\ pc = "result_verifier"
    /\ PlanIncomplete
    /\ MayReplan
    /\ targets' = {}
    /\ retry_updates
    /\ replans' = replans + 1
    /\ route' = "replan"
    /\ pc' = "planner"
    /\ UNCHANGED <<mode, needsCase, finalized, repairs, executed, toolRuns>>

-----------------------------------------------------------------------------
(* repair_router_node.                                                     *)

\* Variant: a repair starts on a spent tool budget.
RepairBlockedByRounds == targets = {} \/ repairs > MAX_REPAIR_ROUNDS

RepairBlocked ==
    \/ targets = {}
    \/ repairs > MAX_REPAIR_ROUNDS
    \/ toolTotal >= MAX_TOOL_CALLS_PER_REQUEST

RepairRouterSkips ==
    /\ pc = "repair_router"
    /\ RepairBlocked
    /\ route' = "answer_generator"
    /\ pc' = "answer_generator"
    /\ targets' = {}
    /\ UNCHANGED <<mode, needsCase, finalized, repairs, replans>>
    /\ UNCHANGED <<work, budget, evidence, history>>

MissingTargets == targets \ TasksOf(plan)

repair_updates(repaired) ==
    /\ plan' = merge_plan_steps(plan, repaired)
    /\ current' = NoStep
    /\ retry' = 0
    /\ toolCount' = 0
    /\ failure' = FALSE
    /\ refresh' = TRUE
    /\ UNCHANGED <<reports, toolTotal, signatures, calls, laws, cases, gain>>

RepairRouter ==
    /\ pc = "repair_router"
    /\ ~RepairBlocked
    /\ \E added \in InjectiveLists(MissingTargets, Cardinality(MissingTargets)) :
          /\ Len(added) = Cardinality(MissingTargets)
          /\ repair_updates(plan_repair(plan, targets, added))
    /\ route' = "repair"
    /\ pc' = "supervisor"
    /\ targets' = {}
    /\ UNCHANGED <<mode, needsCase, finalized, repairs, replans, history>>

-----------------------------------------------------------------------------
(* answer_generator_node: a provider failure falls back to a deterministic *)
(* answer, so the node always answers.                                     *)
AnswerGenerator ==
    /\ pc = "answer_generator"
    /\ route' = "end"
    /\ finalized' = TRUE
    /\ pc' = "end"
    /\ UNCHANGED <<mode, needsCase>>
    /\ UNCHANGED <<work, budget, evidence, rework, history>>

Finished ==
    /\ pc \in {"end", "aborted"}
    /\ UNCHANGED vars

Next ==
    \/ ComplexityRouter
    \/ Planner
    \/ SupervisorRetries
    \/ SupervisorDispatches
    \/ SupervisorFinishesPlan
    \/ SupervisorWithoutPlan
    \/ SpecialistCallsTools
    \/ SpecialistOverLimit
    \/ ToolLimitExceeded
    \/ RunTools
    \/ SpecialistReports
    \/ SpecialistIsSilent
    \/ SpecialistRaises
    \/ VerifierAccepts
    \/ VerifierSendsToRepair
    \/ VerifierReplans
    \/ RepairRouterSkips
    \/ RepairRouter
    \/ AnswerGenerator
    \/ Finished

\* LangGraph runs the next node as soon as the previous one returned, and a
\* model or tool call that hangs is cut by its client's timeout.
Fairness == WF_vars(Next)

Spec == Init /\ [][Next]_vars /\ Fairness

-----------------------------------------------------------------------------
(* Properties.                                                             *)

FlowType ==
    /\ pc \in {"complexity_router", "planner", "supervisor", "specialist", "tools",
               "tool_limit_exceeded", "result_verifier", "repair_router",
               "answer_generator", "end", "aborted"}
    /\ mode \in {"simple", "plan"}
    /\ route \in Agents \cup {"final", "end", "verify", "repair", "replan",
                              "answer_generator"}
    /\ needsCase \in BOOLEAN
    /\ finalized \in BOOLEAN

WorkType ==
    /\ IsPlan(plan)
    /\ current \in StepId \cup {NoStep}
    /\ retry \in Nat
    /\ reports \subseteq StepId \X Agents

BudgetType ==
    /\ toolCount \in Nat
    /\ toolTotal \in Nat
    /\ failure \in BOOLEAN
    /\ refresh \in BOOLEAN
    /\ signatures \subseteq Calls
    /\ IsFiniteSet(DOMAIN calls)
    /\ \A i \in DOMAIN calls : calls[i] \in Calls

EvidenceType == laws \in Nat /\ cases \in Nat /\ gain \in Nat

ReworkType == targets \subseteq RepairTasks /\ repairs \in Nat /\ replans \in Nat

HistoryType ==
    /\ executed \subseteq Calls
    /\ toolRuns \in Nat
    /\ reported \subseteq StepId
    /\ ranBefore \subseteq StepId \X StepId

\* Every state variable keeps its kind of value.
TypeOK == FlowType /\ WorkType /\ BudgetType /\ EvidenceType /\ ReworkType /\ HistoryType

\* The request's tool bill: however often steps are retried, repaired or
\* re-planned, the tool nodes run at most MAX_TOOL_CALLS_PER_REQUEST calls, and
\* the counters account for every one of them.
RequestToolBudget ==
    /\ toolRuns <= MAX_TOOL_CALLS_PER_REQUEST
    /\ toolTotal = toolRuns + Cardinality(DOMAIN calls)
    /\ toolCount <= MAX_TOOL_CALLS_PER_AGENT

\* One step runs at a time, it is the current step, and its specialist is the
\* one at work.
OneStepAtATime ==
    /\ \A a, b \in WithStatus(plan, "running") : a = b
    /\ pc \in {"specialist", "tools", "tool_limit_exceeded"} =>
          /\ current \in WithStatus(plan, "running")
          /\ route = AgentOf(plan, current)

\* Verification, repair and the answer only look at plans in which every step
\* has been tried: none is pending or running.
SettledBeforeVerification ==
    pc \in {"result_verifier", "repair_router", "answer_generator"} =>
        /\ plan # NoPlan
        /\ \A id \in DOMAIN plan : plan[id].status \in {"completed", "failed"}

\* A step counts as completed only by a report of its newest dispatch: a report
\* left over from before a repair or a re-plan never stands in for it, and a
\* tool failure is never masked by one.
CompletedByOwnRun ==
    \A id \in WithStatus(plan, "completed") :
        id \in reported /\ HasReport(id)

\* Apart from the refresh a repair asks for, no query runs twice in a request,
\* not even after a re-plan.
NoQueryRepeated ==
    pc = "tools" /\ ~refresh =>
        /\ CallsAt(calls, DOMAIN calls) \cap executed = {}
        /\ \A i, j \in DOMAIN calls : i # j => calls[i] # calls[j]

\* When the answer is written, the completed steps ran in the order the plan
\* keeps them in: a repair that redoes a step redoes all that stands behind it.
\* Where a step that a repair adds comes to stand is the next property's matter.
RunsFollowPlanOrder ==
    pc = "answer_generator" =>
        \A a, b \in WithStatus(plan, "completed") :
            plan[a].pos < plan[b].pos => <<a, b>> \in ranBefore

\* "New evidence must be analysed anew" (plan_repair): when the answer is
\* written, every consultation ran after the retrievals a repair added.  The
\* reducer appends them behind it, so the code does not keep this.
RepairedEvidenceComesFirst ==
    pc = "answer_generator" =>
        \A a, b \in WithStatus(plan, "completed") :
            (/\ a[1] = "repair" /\ plan[a].task # LEGAL_CONSULTATION
             /\ plan[b].task = LEGAL_CONSULTATION) => <<a, b>> \in ranBefore

\* A request that was worked on ends with an answer, or aborted: no retry,
\* repair or re-plan lets it fall out of the graph.  Only one that nothing was
\* ever planned for may.
WorkedRequestsAreAnswered ==
    pc = "end" /\ ~finalized => replans = 0 /\ reports = {} /\ toolTotal = 0 /\ mode = "plan"

\* A graph run that ends (and was not aborted) has produced an answer.  The code
\* does not keep this when a request with a pending question is routed to "final".
EndsWithAnswer == pc = "end" => finalized

\* Every request ends, whatever the models keep asking for.
Terminates == <>(pc \in {"end", "aborted"})

\* The workflow implements the contract of RequestContract: the nodes from the
\* router to the tools are work, the verifier and the answer are the review; a
\* graph that ends has answered, or (WorkedRequestsAreAnswered) never worked.
Phase ==
    CASE pc \in {"complexity_router", "planner", "supervisor", "specialist", "tools",
                 "tool_limit_exceeded"}               -> "work"
      [] pc \in {"result_verifier", "answer_generator"} -> "review"
      [] pc = "repair_router"                         -> "rework"
      [] pc = "end"                                   -> "answered"
      [] pc = "aborted"                               -> "aborted"

Contract == INSTANCE RequestContract WITH
    ToolBudget <- MAX_TOOL_CALLS_PER_REQUEST,
    MaxRework  <- MAX_REPAIR_ROUNDS + MAX_AGENT_REPLAN_RETRIES,
    phase      <- Phase,
    granted    <- repairs + replans,
    spent      <- toolTotal

ImplementsContract == Contract!CSpec
=============================================================================
