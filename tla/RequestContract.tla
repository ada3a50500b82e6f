-------------------------- MODULE RequestContract --------------------------
(***************************************************************************)
(* What the workflow promises for one request, without any of its nodes    *)
(* (PROJECT_INFO.md, docs/architecture/overview.md): rounds of work under  *)
(* one tool budget, each followed by a review; a review may grant at most  *)
(* MaxRework further rounds, and a granted round starts only while the     *)
(* budget can still buy evidence or nothing has to be bought; the answer   *)
(* is given by a review, or straight away to a request that needs no work. *)
(***************************************************************************)
EXTENDS Naturals

CONSTANTS
    ToolBudget,  \* tool calls one request may spend
    MaxRework    \* further rounds the reviews of one request may grant

VARIABLES
    phase,    \* "work" | "review" | "rework" | "answered" | "aborted"
    granted,  \* further rounds granted so far
    spent     \* tool calls granted so far

cvars == <<phase, granted, spent>>

CInit == phase = "work" /\ granted = 0 /\ spent = 0

Spend ==
    /\ phase = "work"
    /\ spent' \in spent + 1 .. ToolBudget
    /\ UNCHANGED <<phase, granted>>

Submit ==
    /\ phase = "work"
    /\ phase' = "review"
    /\ UNCHANGED <<granted, spent>>

\* The whole round is redone at once, or a repair is prepared.
GrantRework ==
    /\ phase = "review"
    /\ granted < MaxRework
    /\ phase' \in {"work", "rework"}
    /\ granted' = granted + 1
    /\ UNCHANGED spent

\* A prepared repair starts, or is given up for want of budget.
StartRepair ==
    /\ phase = "rework"
    /\ spent < ToolBudget
    /\ phase' = "work"
    /\ UNCHANGED <<granted, spent>>

GiveUpRepair ==
    /\ phase = "rework"
    /\ spent = ToolBudget
    /\ phase' = "review"
    /\ UNCHANGED <<granted, spent>>

Answer ==
    /\ phase = "review"
    /\ phase' = "answered"
    /\ UNCHANGED <<granted, spent>>

AnswerWithoutWork ==
    /\ phase = "work"
    /\ granted = 0 /\ spent = 0
    /\ phase' = "answered"
    /\ UNCHANGED <<granted, spent>>

Abort ==
    /\ phase = "work"
    /\ phase' = "aborted"
    /\ UNCHANGED <<granted, spent>>

CNext ==
    \/ Spend
    \/ Submit
    \/ GrantRework
    \/ StartRepair
    \/ GiveUpRepair
    \/ Answer
    \/ AnswerWithoutWork
    \/ Abort

CSpec == CInit /\ [][CNext]_cvars
=============================================================================
