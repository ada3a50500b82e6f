---------------------------- MODULE ContextWindow ----------------------------
(***************************************************************************)
(* The input of one model call, built from a thread's messages and the     *)
(* turn's material under a token budget: services/context_builder.py.      *)
(* Pure operators; ThreadMemory applies them to every state it reaches.     *)
(* Sizes are in a coarse unit, of a thousand tokens with the default values. *)
(***************************************************************************)
EXTENDS Naturals, Sequences, FiniteSets, SequencesExt, FiniteSetsExt

CONSTANTS
    MODEL_MAX,        \* CONTEXT_MODEL_MAX_TOKENS
    INPUT_TOKENS,     \* CONTEXT_INPUT_TOKEN_BUDGET, of the complex tier
    OUTPUT_RESERVE,   \* CONTEXT_OUTPUT_TOKEN_RESERVE, of the standard tier
    RECENT_COUNT,     \* CONTEXT_RECENT_MESSAGE_COUNT, of the standard tier
    LONG_MATERIAL,    \* material that makes a request long
    LONG_CASES,       \* retrieved cases that make it long
    Explicit          \* CONTEXT_*_TOKEN_BUDGET of each layer, 0 if unset

-----------------------------------------------------------------------------
(* The budget of a request.                                                *)

\* _LAYER_SHARES, in percent; a tool result is one of the recent messages.
Shares == [system |-> 9, relevant_memory |-> 8, summary |-> 6, recent_messages |-> 24,
           current_plan |-> 6, evidence |-> 37, current_task |-> 10, tool_result |-> 2]
Layers == DOMAIN Shares

\* TIERS, in tenths of the base values.
Scales == [standard |-> [input |-> 5,  reserve |-> 10, capacity |-> 10],
           complex  |-> [input |-> 10, reserve |-> 15, capacity |-> 16],
           long     |-> [input |-> 20, reserve |-> 20, capacity |-> 25]]

ASSUME WindowAssumption ==
    /\ {MODEL_MAX, INPUT_TOKENS, OUTPUT_RESERVE, RECENT_COUNT, LONG_MATERIAL, LONG_CASES} \subseteq Nat \ {0}
    /\ Explicit \in [Layers -> Nat]

AtLeastOne(n) == Max({1, n})
PartOf(n, share, whole) == (2 * n * share + whole) \div (2 * whole)  \* round

\* The reserve takes at most half of the input.
TierInput(tier) ==
    AtLeastOne(Min({PartOf(Min({INPUT_TOKENS, MODEL_MAX}), Scales[tier].input, 10), MODEL_MAX}))
TierReserve(tier) ==
    AtLeastOne(Min({PartOf(OUTPUT_RESERVE, Scales[tier].reserve, 10), AtLeastOne(TierInput(tier) \div 2)}))
TierPrompt(tier) == AtLeastOne(TierInput(tier) - TierReserve(tier))

LayerBudget(layer, prompt) ==
    IF Explicit[layer] # 0 THEN Explicit[layer] ELSE AtLeastOne(PartOf(prompt, Shares[layer], 100))

\* budget_for_tier.
Budget(tier) ==
    [prompt |-> TierPrompt(tier),
     count  |-> AtLeastOne(PartOf(RECENT_COUNT, Scales[tier].capacity, 10)),
     layer  |-> [layer \in Layers |-> LayerBudget(layer, TierPrompt(tier))]]

\* resolve_context_tier: material and cases first, then the router's rating.
Tier(material, cases, rating) ==
    IF material >= LONG_MATERIAL \/ cases >= LONG_CASES THEN "long"
    ELSE IF rating \in {"simple", "medium"} THEN "standard"
    ELSE "complex"  \* or not rated yet

-----------------------------------------------------------------------------
(* The prompt.                                                             *)

\* _message_tokens adds this to the content of a message.
Envelope == 1

\* _truncate: a limit of nothing is no limit.
Truncated(size, limit) == IF limit <= 0 \/ size <= limit THEN size ELSE limit

\* The messages the window is cut from: system messages are rebuilt as
\* sections, tool results are summarised when they are too long.
Candidates(messages, size, budget) ==
    LET spoken == SelectSeq(messages, LAMBDA m : m.role \notin {"document", "evidence"})
        Sized(m) == [role |-> m.role, said |-> m.said,
                     tokens |-> Envelope + IF m.role = "tool" THEN Truncated(size["tool"], budget.layer.tool_result) ELSE size[m.role]]
        from == IF Len(spoken) > budget.count THEN Len(spoken) - budget.count ELSE 0
    IN  [i \in 1 .. Len(spoken) - from |-> Sized(spoken[from + i])]

Tokens(s) == FoldLeft(LAMBDA sum, m : sum + m.tokens, 0, s)
Suffix(s, k) == SubSeq(s, Len(s) - k + 1, Len(s))

\* Only the newest message is cut to the window's share, and only content of
\* users and tools.
FitNewest(s, limit) ==
    IF s = <<>> \/ s[Len(s)].role \notin {"human", "tool"} \/ s[Len(s)].tokens <= limit THEN s
    ELSE [s EXCEPT ![Len(s)].tokens =
             Envelope + IF limit > 2 * Envelope
                        THEN Truncated(@ - Envelope, limit - 2 * Envelope) ELSE @ - Envelope]

\* A window never starts with the result of a call it does not show.
KeepResults(s) == s  \* variant
DropResults(s) ==
    LET shown == {i \in DOMAIN s : s[i].role # "tool"}
    IN  IF shown = {} THEN <<>> ELSE SubSeq(s, Min(shown), Len(s))

\* _recent_messages: the longest suffix within its share, one message at least.
RecentMessages(messages, size, budget) ==
    LET share == budget.layer.recent_messages
        all   == FitNewest(Candidates(messages, size, budget), share)
        fits  == {k \in 1 .. Len(all) : k = 1 \/ Tokens(Suffix(all, k)) <= share}
    IN  IF all = <<>> THEN <<>> ELSE DropResults(Suffix(all, Max(fits)))

\* The loop of build_model_context that makes room for the base prompt: whole
\* exchanges leave from the front, the last message is cut or left out.
WithinRoom(s, room) ==
    LET starts == {i \in DOMAIN s : (i = 1 \/ s[i].role # "tool") /\ Tokens(SubSeq(s, i, Len(s))) <= room}
    IN  IF starts # {} THEN SubSeq(s, Min(starts), Len(s))
        ELSE IF s = <<>> \/ s[Len(s)].role = "tool" \/ room <= Envelope THEN <<>>
        ELSE <<[s[Len(s)] EXCEPT !.tokens = Envelope + Truncated(@ - Envelope, room - Envelope)]>>

\* The optional sections, each cut to its share and then to what is left; once
\* nothing is left the rest is dropped.
Sections == <<"relevant_memory", "summary", "current_plan", "evidence", "current_task">>
TakenWhole(used, section, budget) == used + section  \* variant
Taken(used, section, budget) ==
    IF used >= budget.prompt THEN used ELSE used + Truncated(section, budget.prompt - used)

\* build_model_context: the messages, and the tokens of the whole prompt, which
\* are checked against the budget.
ModelContext(messages, size, text, budget) ==
    LET system == Truncated(text.system, Min({budget.layer.system, budget.prompt}))
        recent == WithinRoom(RecentMessages(messages, size, budget), budget.prompt - system)
    IN  [recent |-> recent,
         budget |-> budget.prompt,
         tokens |-> FoldLeft(LAMBDA used, name : Taken(used, Truncated(text[name], budget.layer[name]), budget),
                             system + Tokens(recent), Sections)]
=============================================================================
