--------------------------- MODULE MCThreadMemory ---------------------------
(***************************************************************************)
(* Instances of the thread's memory for TLC: three turns one after the     *)
(* other; two with a restart that loses the checkpoint, with a deletion,   *)
(* or overlapping and with a compaction on demand.                         *)
(***************************************************************************)
EXTENDS ThreadMemory

World(backend, overlapping, turns, restarts, compactions, deletes, failures) ==
    [backend |-> backend, overlapping |-> overlapping, turns |-> turns,
     restarts |-> restarts, compactions |-> compactions, deletes |-> deletes, failures |-> failures]

Conversations ==
    {World("postgres", FALSE, 3, 0, 0, 0, 0), World("memory", FALSE, 2, 1, 0, 0, 1),
     World("postgres", TRUE, 2, 0, 1, 0, 1), World("postgres", FALSE, 2, 0, 0, 1, 2)}

QuestionSymmetry == Permutations(Questions)

\* Two turns and nothing else.
TwoTurns == {World("postgres", FALSE, 2, 0, 0, 0, 0)}

Size(human, call, tool, ai) == [human |-> human, call |-> call, tool |-> tool, ai |-> ai]
Lengths == {Size(1, 1, 1, 1), Size(30, 1, 9, 2), Size(2, 30, 9, 6)}

\* Thousands of tokens: a short turn, one with everything, and a huge base prompt.
Text(system, memory, summarised, plan, evidence, task) ==
    [system |-> system, relevant_memory |-> memory, summary |-> summarised,
     current_plan |-> plan, evidence |-> evidence, current_task |-> task]
Parts == {Text(1, 1, 0, 1, 2, 1), Text(3, 20, 20, 20, 200, 20), Text(200, 9, 9, 9, 3, 9)}

\* Operators may give the evidence more than its share.
EvidenceOverride == [layer \in Layers |-> IF layer = "evidence" THEN 90 ELSE 0]

=============================================================================
