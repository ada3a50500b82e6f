---------------------------- MODULE Clarification ----------------------------
(***************************************************************************)
(* From a message to the plan: what a thread remembers between turns of a  *)
(* question that lacks facts, when it asks the user for them, how a reply  *)
(* is put back into the question, and which execution mode the turn gets   *)
(* (agent/nodes/query.py, clarification.py, supervisor.py, complexity.py,   *)
(* agent/clarification.py, agent/agents/fact_analysis_agent.py), beside     *)
(* the answer cache that all threads share.  What follows the complexity    *)
(* router (AgentGraph) is one step here.                                    *)
(*                                                                         *)
(* A text is a sequence of messages; the rules look for keywords, so they   *)
(* see the union of what its messages hold, and the sum of their lengths.   *)
(***************************************************************************)
EXTENDS Naturals, Sequences, FiniteSets, SequencesExt

CONSTANTS
    Threads,
    Messages,           \* what users send
    Words,              \* message -> <<category, word>> it holds of LEGAL_KEYWORDS
    Tells,              \* message -> <<category, dimension>> of FACT_DIMENSIONS
    Marks,              \* message -> which other patterns it matches (Mark)
    Size,               \* message -> length
    Categories,         \* categories in the order of LEGAL_KEYWORDS
    Dimensions,         \* category -> its fact dimensions
    MAX_CLARIFICATION_ROUNDS,
    BLOCKING_MISSING,   \* _BLOCKING_MISSING_DIMENSIONS
    DETAILED,           \* _DETAILED_TEXT_LENGTH
    NARRATIVE,          \* _NARRATIVE_TEXT_LENGTH
    MaxAnswers          \* answers in the cache at a time (bound)

\* own, demand: _OWN_CASE_PATTERNS, _CONCLUSION_DEMAND_PATTERNS; information:
\* LEGAL_INFORMATION_PATTERNS; generic: a legal word of no category; cases and
\* several: the patterns of agent/complexity.py; document: comes with an upload.
Mark == {"own", "demand", "information", "generic", "cases", "several", "document"}
General == "general"

ASSUME ClarificationAssumption ==
    /\ Words \in [Messages -> SUBSET (ToSet(Categories) \X {1, 2})]
    /\ Tells \in [Messages -> SUBSET UNION {{c} \X Dimensions[c] : c \in ToSet(Categories)}]
    /\ Marks \in [Messages -> SUBSET Mark]
    /\ Size \in [Messages -> Nat]
    /\ "contract" \in ToSet(Categories) /\ General \notin ToSet(Categories)
    /\ \A c \in ToSet(Categories) : IsFiniteSet(Dimensions[c])
    /\ MAX_CLARIFICATION_ROUNDS \in Nat \ {0}
    /\ {BLOCKING_MISSING, DETAILED, NARRATIVE, MaxAnswers} \subseteq Nat
    /\ BLOCKING_MISSING > 1   \* what lacks one fact only is complete

VARIABLES
    facts,    \* by thread, in its checkpoint: confirmed_facts
    asked,    \*   clarification_round
    pending,  \*   needs_clarification and clarification_blocking
    turn,     \* by thread: the turn under way, or the last one
    cache,    \* response cache: message -> the answer it holds, to the message
              \* as it stands or to a question the message was a reply to
    \* History, read by properties only:
    opening,  \* the question asked about, with the replies to it, until it strays
    strayed   \* the thread asked about a second question, or a turn was cut
              \* between the decision to ask and the question

vars == <<facts, asked, pending, turn, cache, opening, strayed>>

Nothing == <<>>   \* no text
NoFacts == [original |-> Nothing, supplements |-> [k \in 0 .. MAX_CLARIFICATION_ROUNDS |-> Nothing]]
Quiet   == [needs |-> FALSE, blocking |-> FALSE]
NoTurn  == [at |-> "idle", question |-> Nothing, message |-> Nothing, resumed |-> FALSE,
            route |-> "", rating |-> "", sufficient |-> TRUE, many |-> FALSE, outcome |-> "none"]

Init ==
    /\ facts = [t \in Threads |-> NoFacts]
    /\ asked = [t \in Threads |-> 0]
    /\ pending = [t \in Threads |-> Quiet]
    /\ turn = [t \in Threads |-> NoTurn]
    /\ cache = [m \in Messages |-> "none"]
    /\ opening = [t \in Threads |-> Nothing]
    /\ strayed = [t \in Threads |-> FALSE]

-----------------------------------------------------------------------------
(* What the rules find in a text.                                           *)

Of(field, M) == UNION {field[m] : m \in M}
Has(mark, text) == \E i \in DOMAIN text : mark \in Marks[text[i]]
Length(text) == LET upTo[i \in 0 .. Len(text)] == IF i = 0 THEN 0 ELSE upTo[i - 1] + Size[text[i]]
                IN  upTo[Len(text)]

Score == [M \in SUBSET Messages |-> [c \in ToSet(Categories) |-> Cardinality({w \in Of(Words, M) : w[1] = c})]]
Spans(text) == Cardinality({c \in ToSet(Categories) : Score[ToSet(text)][c] > 0})

\* classify_legal_intent: the first of the categories with the most keywords.
Category ==
    [M \in SUBSET Messages |->
        LET most == {i \in DOMAIN Categories : \A c \in ToSet(Categories) : Score[M][c] <= Score[M][Categories[i]]}
            first == CHOOSE i \in most : \A j \in most : i <= j
        IN  IF Score[M][Categories[first]] = 0 THEN General ELSE Categories[first]]
IsLegal(text) == Category[ToSet(text)] # General \/ Has("generic", text)

\* check_fact_completeness; a text of no category needs the facts of a contract.
MissingIn ==
    [M \in SUBSET Messages |->
        LET c == IF Category[M] = General THEN "contract" ELSE Category[M]
        IN  {d \in Dimensions[c] : <<c, d>> \notin Of(Tells, M)}]

ASSUME AnalysisIsTotal ==
    /\ Score \in [SUBSET Messages -> [ToSet(Categories) -> Nat]]
    /\ Category \in [SUBSET Messages -> ToSet(Categories) \cup {General}]
    /\ MissingIn \in [SUBSET Messages -> SUBSET UNION {Dimensions[c] : c \in ToSet(Categories)}]

Missing(text) == Cardinality(MissingIn[ToSet(text)])
IsSufficient(text) == IsLegal(text) => Missing(text) <= 1

Demands(text) == Has("own", text) /\ Has("demand", text)

\* The supplements as they came, and facts_text: the original question first.
SupplementsOf(f) ==
    LET upTo[k \in 0 .. MAX_CLARIFICATION_ROUNDS] ==
            IF k = 0 THEN f.supplements[0] ELSE upTo[k - 1] \o f.supplements[k]
    IN  upTo[MAX_CLARIFICATION_ROUNDS]
FactsText(f) == f.original \o SupplementsOf(f)

Decision(sufficient, needs, blocking) ==
    [sufficient |-> sufficient, needs |-> needs, blocking |-> blocking]

\* What decide_clarification makes of a question with the rounds used up.
ExhaustedIsEnough == Decision(TRUE, FALSE, FALSE)  \* variant: facts taken as complete
Exhausted         == Decision(FALSE, FALSE, FALSE)

\* decide_clarification.  The model of the fact analysis adds questions and
\* legal issues to the outcome and changes nothing else of it.
Decide(t) ==
    LET question == turn[t].question
        combined == question \o FactsText(facts[t])
    IN  IF ~IsLegal(IF question = Nothing THEN combined ELSE question) \/ Has("document", turn[t].message)
        THEN Decision(TRUE, FALSE, FALSE)
        ELSE IF asked[t] >= MAX_CLARIFICATION_ROUNDS THEN Exhausted
        ELSE IF IsSufficient(combined) \/ (Has("information", question) /\ ~Has("own", question))
        THEN Decision(TRUE, FALSE, FALSE)
        ELSE Decision(FALSE, TRUE, /\ Demands(question)
                                   /\ Missing(combined) >= BLOCKING_MISSING
                                   /\ Length(combined) < DETAILED)

\* decide_complexity: which signals keep a question from the simple plan.
IsSimple(t) ==
    LET q == turn[t].question
    IN  /\ q # Nothing
        /\ ~Has("document", turn[t].message) /\ ~Has("cases", q) /\ ~Has("several", q)
        /\ turn[t].rating # "high" /\ ~turn[t].many
        /\ Length(q) < NARRATIVE
        /\ Spans(q) < 2
        /\ turn[t].sufficient \/ pending[t].needs

-----------------------------------------------------------------------------
(* A turn.                                                                  *)

At(t, place) == turn[t].at = place
Goto(t, place) == turn' = [turn EXCEPT ![t].at = place]
EndAs(t, outcome) ==
    turn' = [turn EXCEPT ![t] = [NoTurn EXCEPT !.outcome = outcome, !.question = turn[t].question]]

\* The cache knows the message only; the graph does not run.
AnswerFromCache(t, m) ==
    /\ At(t, "idle")
    /\ cache[m] # "none"
    /\ turn' = [turn EXCEPT ![t] = [NoTurn EXCEPT !.resumed = (cache[m] = "resumed"), !.outcome = "cached"]]
    /\ UNCHANGED <<facts, asked, pending, cache, opening, strayed>>

\* _build_state_input leaves the facts and the pending question alone.  With an
\* entry in the cache the graph still runs when Redis fails.
StartTurn(t, m) ==
    /\ At(t, "idle")
    /\ turn' = [turn EXCEPT ![t] = [NoTurn EXCEPT !.at = "merge", !.message = <<m>>]]
    /\ UNCHANGED <<facts, asked, pending, cache, opening, strayed>>

IsReply(t) == pending[t].needs /\ pending[t].blocking

\* merge_confirmed_facts: a fact left blank takes nothing away.
Confirmed(known, said) == IF said = Nothing THEN known ELSE said

\* query_rewrite_node and fact_merge_node: a reply is put behind the original
\* question and what was replied before.
MergeFacts(t) ==
    /\ At(t, "merge")
    /\ IF IsReply(t)
       THEN /\ turn' = [turn EXCEPT ![t].at = "intent", ![t].resumed = TRUE,
                          ![t].question = FactsText(facts[t]) \o turn[t].message]
            /\ facts' = [facts EXCEPT ![t].supplements[asked[t]] = Confirmed(@, turn[t].message)]
            /\ pending' = [pending EXCEPT ![t] = Quiet]
            /\ opening' = [opening EXCEPT ![t] = IF strayed[t] THEN Nothing ELSE @ \o turn[t].message]
       ELSE /\ turn' = [turn EXCEPT ![t].at = "intent", ![t].question = turn[t].message]
            /\ UNCHANGED <<facts, pending, opening>>
    /\ UNCHANGED <<asked, cache, strayed>>

\* intent_router_node: the model, or the rules when it fails, choose a route.
\* A message of no legal interest gets its answer here, a reply never does.
\* What counts of the route is whether it names an agent, and of the rating
\* whether it is high.
Routes == {"agent", "final"}
IsChat(t) == turn[t].route = "final" /\ ~turn[t].resumed

RouteIntent(t) ==
    /\ At(t, "intent")
    /\ \E route \in Routes, rating \in {"low", "high"} :
          turn' = [turn EXCEPT ![t].at = "facts", ![t].route = route, ![t].rating = rating]
    /\ UNCHANGED <<facts, asked, pending, cache, opening, strayed>>

\* fact_analysis_agent_node, and should_after_fact_analysis.  It has nothing
\* to do in a turn that has its answer.
AnalyseFacts(t) ==
    /\ At(t, "facts")
    /\ IF IsChat(t)
       THEN Goto(t, "complexity") /\ UNCHANGED pending
       ELSE LET d == Decide(t)
            IN  /\ pending' = [pending EXCEPT ![t] = [needs |-> d.needs, blocking |-> d.blocking]]
                /\ \E many \in IF d.sufficient THEN {FALSE} ELSE BOOLEAN :   \* legal issues found
                      turn' = [turn EXCEPT ![t].sufficient = d.sufficient, ![t].many = many,
                                 ![t].at = IF d.needs /\ d.blocking THEN "clarification" ELSE "complexity"]
    /\ UNCHANGED <<facts, asked, cache, opening, strayed>>

\* The rounds after one more question.
RoundsOfNewQuestion(t) == IF turn[t].resumed THEN asked[t] ELSE asked[t] + 1  \* variant
RoundsAfter(t) == asked[t] + 1

\* The first question it asks about stays the original one.
LatestQuestion(t) == turn[t].question  \* variant
OriginalQuestion(t) == IF facts[t].original = Nothing THEN turn[t].question ELSE facts[t].original

\* clarification_node
AskUser(t) ==
    /\ At(t, "clarification")
    /\ asked' = [asked EXCEPT ![t] = RoundsAfter(t)]
    /\ facts' = [facts EXCEPT ![t].original = Confirmed(@, OriginalQuestion(t))]
    /\ strayed' = [strayed EXCEPT ![t] = @ \/ (~turn[t].resumed /\ facts[t].original # Nothing)]
    /\ opening' = [opening EXCEPT ![t] = IF strayed'[t] THEN Nothing
                                        ELSE IF turn[t].resumed THEN @ ELSE turn[t].question]
    /\ EndAs(t, "asked")
    /\ UNCHANGED <<pending, cache>>

\* complexity_router_node and the rest of the graph.  The planner drops the
\* plan of a reply the router called final, and the turn ends in silence.  The
\* answer is cached under the message of the turn, unless Redis fails.
Finish(t) ==
    /\ At(t, "complexity")
    /\ LET outcome == CASE IsChat(t)                 -> "chat"
                        [] ~IsChat(t) /\ IsSimple(t) -> "simple"
                        [] OTHER -> IF turn[t].route = "final" THEN "silent" ELSE "planned"
       IN  /\ EndAs(t, outcome)
           /\ \/ cache' = cache
              \/ /\ outcome # "silent"
                 /\ Cardinality({m \in Messages : cache[m] # "none"} \cup {turn[t].message[1]}) <= MaxAnswers
                 /\ cache' = [cache EXCEPT ![turn[t].message[1]] = IF turn[t].resumed THEN "resumed" ELSE "own"]
    /\ UNCHANGED <<facts, asked, pending, opening, strayed>>

\* A node raises or the client goes away; what earlier nodes wrote is saved.
Interrupt(t) ==
    /\ ~At(t, "idle")
    /\ EndAs(t, "interrupted")
    /\ strayed' = [strayed EXCEPT ![t] = @ \/ At(t, "clarification")]
    /\ opening' = [opening EXCEPT ![t] = IF strayed'[t] THEN Nothing ELSE @]
    /\ UNCHANGED <<facts, asked, pending, cache>>

\* The checkpoint is gone: deleted, or kept in the memory of a process that ended.
LoseCheckpoint(t) ==
    /\ facts' = [facts EXCEPT ![t] = NoFacts]
    /\ asked' = [asked EXCEPT ![t] = 0]
    /\ pending' = [pending EXCEPT ![t] = Quiet]
    /\ turn' = [turn EXCEPT ![t] = NoTurn]
    /\ opening' = [opening EXCEPT ![t] = Nothing]
    /\ strayed' = [strayed EXCEPT ![t] = FALSE]
    /\ UNCHANGED cache

ExpireAnswer(m) ==
    /\ cache[m] # "none"
    /\ cache' = [cache EXCEPT ![m] = "none"]
    /\ UNCHANGED <<facts, asked, pending, turn, opening, strayed>>

Node(t) == MergeFacts(t) \/ RouteIntent(t) \/ AnalyseFacts(t) \/ AskUser(t) \/ Finish(t)

Next ==
    \/ \E t \in Threads :
          \/ Node(t) \/ Interrupt(t) \/ LoseCheckpoint(t)
          \/ \E m \in Messages : AnswerFromCache(t, m) \/ StartTurn(t, m)
    \/ \E m \in Messages : ExpireAnswer(m)

\* A graph that has started runs on.  Nobody has to write.
Spec == Init /\ [][Next]_vars /\ \A t \in Threads : WF_vars(Node(t))

-----------------------------------------------------------------------------
(* Properties.                                                              *)

\* The question a reply resumes is the one the thread asked about first with
\* all replies since, in order, whatever was interrupted, lost, answered from
\* the cache or asked again in between (nodes/clarification.py:55-88, 101-138).
\* The code does not promise it once the thread has strayed: see the README.
ResumedQuestionIsWhole ==
    \A t \in Threads :
        turn[t].resumed /\ ~strayed[t] /\ turn[t].at \in {"intent", "facts"} => turn[t].question = opening[t]

\* All the thread knows was said in this question.
OnlyThisQuestion(t) == ToSet(FactsText(facts[t])) \subseteq ToSet(turn[t].question)

\* A conclusion on the user's own case that two facts or more are missing for
\* is never worked out on the simple plan: the user is asked, or, when asked
\* too often already, a planner sees what is missing (complexity.py:131-135,
\* clarification.py:208-233).
ConclusionsAreNotRushed ==
    \A t \in Threads :
        LET q == turn[t].question
        IN  turn[t].outcome = "simple" /\ Demands(q) /\ IsLegal(q) /\ OnlyThisQuestion(t)
            => \/ Missing(q) < BLOCKING_MISSING
               \/ Length(q \o FactsText(facts[t])) >= DETAILED

\* However often the user writes, a thread stops asking (clarification.py:44-45
\* "no more going back and forth"), if its turns are not cut off and
\* its checkpoint not lost for ever.
ClarificationEnds ==
    \A t \in Threads :
        <>[][~Interrupt(t) /\ ~LoseCheckpoint(t)]_vars => <>[](turn[t].at # "clarification")

-----------------------------------------------------------------------------
(* What the repository says and the code does not do.                       *)

\* PROJECT_INFO.md:764: the exact cache avoids wrong reuse.  The answer to a
\* reply is kept under the reply alone, and serves any thread that says so.
CachedAnswerFits == \A t \in Threads : turn[t].outcome = "cached" => ~turn[t].resumed

\* nodes/clarification.py:5-7, 111-112: a reply is merged with the question it
\* is about.  When the user is asked, what the thread keeps for the reply holds
\* the question of this turn; a second dispute's is not kept, the first stays
\* the original one (state.py:388-390 speaks of a reset that no node writes).
AskedQuestionIsKept ==
    \A t \in Threads :
        turn[t].outcome = "asked" => ToSet(turn[t].question) \subseteq ToSet(FactsText(facts[t]))
=============================================================================
