-------------------------- MODULE AgentGraphProofs --------------------------
(***************************************************************************)
(* Proofs about the workflow of one request, for every value of the        *)
(* budgets and any number of queries, plan steps and tool calls.           *)
(***************************************************************************)
EXTENDS AgentGraph, FiniteSetTheorems, TLAPS

-----------------------------------------------------------------------------
(* What the plan operations of StepPlan return, for plans of any size.      *)

\* A list of task types as the planner and the repair produce it.
IsTaskList(tasks) == \E n \in Nat : tasks \in [1 .. n -> TaskType]

\* The empty plan is a plan, and a plan without steps is the empty plan.
LEMMA NoPlanIsPlan ==
    /\ IsPlan(NoPlan)
    /\ DOMAIN NoPlan = {}
    /\ \A p : IsPlan(p) => (p = NoPlan <=> DOMAIN p = {})
BY FS_EmptySet DEF IsPlan, NoPlan

\* Changing the status of a step leaves a step.
LEMMA StatusChange ==
    ASSUME NEW s \in Step, NEW v \in Status
    PROVE  /\ [s EXCEPT !.status = v] \in Step
           /\ [s EXCEPT !.status = v].status = v
           /\ [s EXCEPT !.status = v].task = s.task
           /\ [s EXCEPT !.status = v].pos = s.pos
BY DEF Step

\* A step moved to another place is a step of the same task and status.
LEMMA PlaceChange ==
    ASSUME NEW s \in Step, NEW n \in Nat
    PROVE  /\ [s EXCEPT !.pos = n] \in Step
           /\ [s EXCEPT !.pos = n].status = s.status
           /\ [s EXCEPT !.pos = n].task = s.task
           /\ [s EXCEPT !.pos = n].pos = n
BY DEF Step

\* A fresh plan is a plan whose steps are all pending, one for each task.
LEMMA PlanOfIsPlan ==
    ASSUME NEW tasks, IsTaskList(tasks)
    PROVE  /\ IsPlan(PlanOf(tasks))
           /\ DOMAIN PlanOf(tasks) = {"step"} \X DOMAIN tasks
           /\ \A id \in DOMAIN PlanOf(tasks) : PlanOf(tasks)[id].status = "pending"
<1>1. PICK n \in Nat : tasks \in [1 .. n -> TaskType]
  BY DEF IsTaskList
<1>2. DOMAIN tasks = 1 .. n
  BY <1>1
<1>3. \A i \in 1 .. n : tasks[i] \in TaskType /\ i \in Nat \ {0}
  BY <1>1
<1>4. {"step"} \X (1 .. n) \subseteq StepId
  BY DEF StepId
<1>5. IsFiniteSet({"step"} \X (1 .. n))
  <2>1. IsFiniteSet(1 .. n)
    BY FS_Interval
  <2>2. IsFiniteSet({"step"})
    BY FS_Singleton
  <2> QED  BY <2>1, <2>2, FS_Product
<1>6. \A id \in {"step"} \X (1 .. n) : id[2] \in 1 .. n
  OBVIOUS
<1>7. \A id \in {"step"} \X (1 .. n) :
        [task |-> tasks[id[2]], status |-> "pending", pos |-> id[2]] \in Step
  BY <1>3, <1>6 DEF Step, Status
<1> QED  BY <1>2, <1>4, <1>5, <1>7 DEF PlanOf, IsPlan
\* What the plan reducer returns when the update is not empty: a plan of the
\* steps of both; where the update has a step, that step's task and status.
LEMMA MergeIsPlan ==
    ASSUME NEW l, IsPlan(l), NEW r, IsPlan(r), DOMAIN r # {}
    PROVE  /\ IsPlan(merge_plan_steps(l, r))
           /\ DOMAIN merge_plan_steps(l, r) = DOMAIN l \cup DOMAIN r
           /\ \A id \in DOMAIN r :
                /\ merge_plan_steps(l, r)[id].status = r[id].status
                /\ merge_plan_steps(l, r)[id].task = r[id].task
           /\ \A id \in DOMAIN l \ DOMAIN r : merge_plan_steps(l, r)[id] = l[id]
<1> DEFINE fresh    == DOMAIN r \ DOMAIN l
           rank(id) == Cardinality({other \in fresh : r[other].pos <= r[id].pos})
           step(id) == IF id \in fresh
                       THEN [r[id] EXCEPT !.pos = Cardinality(DOMAIN l) + rank(id)]
                       ELSE IF id \in DOMAIN r
                            THEN [r[id] EXCEPT !.pos = l[id].pos]
                            ELSE l[id]
<1>1. merge_plan_steps(l, r) = [id \in DOMAIN l \cup DOMAIN r |-> step(id)]
  BY NoPlanIsPlan DEF merge_plan_steps
<1>2. DOMAIN merge_plan_steps(l, r) = DOMAIN l \cup DOMAIN r
  BY <1>1
<1>3. IsFiniteSet(fresh) /\ IsFiniteSet(DOMAIN l)
  BY FS_Subset DEF IsPlan
<1>4. Cardinality(DOMAIN l) \in Nat
  BY <1>3, FS_CardinalityType
<1>5. ASSUME NEW id PROVE rank(id) \in Nat
  <2>1. IsFiniteSet({other \in fresh : r[other].pos <= r[id].pos})
    BY <1>3, FS_Subset
  <2> QED  BY <2>1, FS_CardinalityType
<1>6. /\ \A id \in DOMAIN l : l[id] \in Step /\ l[id].pos \in Nat
      /\ \A id \in DOMAIN r : r[id] \in Step
  BY DEF IsPlan, Step
<1>7. ASSUME NEW id \in fresh
      PROVE  /\ step(id) \in Step
             /\ step(id).status = r[id].status
             /\ step(id).task = r[id].task
  <2>1. Cardinality(DOMAIN l) + rank(id) \in Nat
    BY <1>4, <1>5
  <2> HIDE DEF rank
  <2> QED  BY <1>6, <2>1, PlaceChange
<1>8. ASSUME NEW id \in DOMAIN r, id \in DOMAIN l
      PROVE  /\ step(id) \in Step
             /\ step(id).status = r[id].status
             /\ step(id).task = r[id].task
  BY <1>6, <1>8, PlaceChange
<1>9. ASSUME NEW id \in DOMAIN l, id \notin DOMAIN r
      PROVE  step(id) = l[id]
  BY <1>9
<1>10. \A id \in DOMAIN l \cup DOMAIN r : step(id) \in Step
  <2> HIDE DEF step
  <2> QED  BY <1>6, <1>7, <1>8, <1>9
<1>11. IsFiniteSet(DOMAIN l \cup DOMAIN r)
  BY FS_Union DEF IsPlan
<1>12. IsPlan(merge_plan_steps(l, r))
  <2> HIDE DEF step
  <2> QED  BY <1>1, <1>2, <1>10, <1>11 DEF IsPlan
<1>13. \A id \in DOMAIN r :
          /\ merge_plan_steps(l, r)[id].status = r[id].status
          /\ merge_plan_steps(l, r)[id].task = r[id].task
  <2> HIDE DEF step
  <2> QED  BY <1>1, <1>7, <1>8
<1>14. \A id \in DOMAIN l \ DOMAIN r : merge_plan_steps(l, r)[id] = l[id]
  <2> HIDE DEF step
  <2> QED  BY <1>1, <1>9
<1> QED  BY <1>2, <1>12, <1>13, <1>14

\* Where the plan reducer puts the steps: those of the plan stay in place, the
\* others go behind them, and no place is beyond the number of steps.
LEMMA MergePlaces ==
    ASSUME NEW l, IsPlan(l), NEW r, IsPlan(r), DOMAIN r # {}
    PROVE  /\ \A id \in DOMAIN l : merge_plan_steps(l, r)[id].pos = l[id].pos
           /\ \A id \in DOMAIN r \ DOMAIN l :
                /\ Cardinality(DOMAIN l) <= merge_plan_steps(l, r)[id].pos
                /\ merge_plan_steps(l, r)[id].pos <= Cardinality(DOMAIN l \cup DOMAIN r)
<1> DEFINE fresh    == DOMAIN r \ DOMAIN l
           upto(id) == {other \in fresh : r[other].pos <= r[id].pos}
           rank(id) == Cardinality(upto(id))
           place(id) == Cardinality(DOMAIN l) + rank(id)
           m        == merge_plan_steps(l, r)
<1>1. /\ \A id \in fresh : m[id] = [r[id] EXCEPT !.pos = place(id)]
      /\ \A id \in DOMAIN l \cap DOMAIN r : m[id] = [r[id] EXCEPT !.pos = l[id].pos]
      /\ \A id \in DOMAIN l \ DOMAIN r : m[id] = l[id]
  BY NoPlanIsPlan DEF merge_plan_steps
<1>2. /\ \A id \in DOMAIN l : l[id] \in Step /\ l[id].pos \in Nat
      /\ \A id \in DOMAIN r : r[id] \in Step
  BY DEF IsPlan, Step
<1>3. IsFiniteSet(fresh) /\ IsFiniteSet(DOMAIN l) /\ DOMAIN l \cap fresh = {}
  BY FS_Subset DEF IsPlan
<1>4. /\ Cardinality(DOMAIN l) \in Nat
      /\ Cardinality(fresh) \in Nat
      /\ Cardinality(DOMAIN l \cup fresh) = Cardinality(DOMAIN l) + Cardinality(fresh)
  <2>1. Cardinality(DOMAIN l \cap fresh) = 0
    BY <1>3, FS_EmptySet
  <2>2. Cardinality(DOMAIN l) \in Nat /\ Cardinality(fresh) \in Nat
    BY <1>3, FS_CardinalityType
  <2>3. Cardinality(DOMAIN l \cup fresh)
          = Cardinality(DOMAIN l) + Cardinality(fresh) - Cardinality(DOMAIN l \cap fresh)
    BY <1>3, FS_Union
  <2> HIDE DEF fresh
  <2> QED  BY <2>1, <2>2, <2>3
<1>5. ASSUME NEW id \in fresh PROVE rank(id) \in Nat /\ rank(id) <= Cardinality(fresh)
  <2>1. IsFiniteSet(upto(id)) /\ Cardinality(upto(id)) <= Cardinality(fresh)
    BY <1>3, FS_Subset
  <2> QED  BY <2>1, FS_CardinalityType
<1>6. DOMAIN l \cup fresh = DOMAIN l \cup DOMAIN r
  OBVIOUS
<1> HIDE DEF m, rank
<1>7. \A id \in fresh : m[id].pos = Cardinality(DOMAIN l) + rank(id)
  <2>1. SUFFICES ASSUME NEW id \in fresh PROVE m[id].pos = place(id)
    OBVIOUS
  <2>2. place(id) \in Nat /\ r[id] \in Step /\ m[id] = [r[id] EXCEPT !.pos = place(id)]
    BY <1>1, <1>2, <1>4, <1>5
  <2> HIDE DEF place
  <2> QED  BY <2>2, PlaceChange
<1>8. ASSUME NEW id \in DOMAIN l PROVE m[id].pos = l[id].pos
  <2>1. CASE id \in DOMAIN r
    <3>1. /\ l[id].pos \in Nat /\ r[id] \in Step
          /\ m[id] = [r[id] EXCEPT !.pos = l[id].pos]
      BY <1>1, <1>2, <2>1
    <3> QED  BY <3>1, PlaceChange
  <2>2. CASE id \notin DOMAIN r
    BY <1>1, <2>2
  <2> QED  BY <2>1, <2>2
<1>9. ASSUME NEW id \in fresh
      PROVE  /\ Cardinality(DOMAIN l) <= m[id].pos
             /\ m[id].pos <= Cardinality(DOMAIN l \cup DOMAIN r)
  <2>1. rank(id) \in Nat /\ rank(id) <= Cardinality(fresh)
    BY <1>5
  <2>2. m[id].pos = Cardinality(DOMAIN l) + rank(id)
    BY <1>7
  <2>3. Cardinality(DOMAIN l \cup DOMAIN r) = Cardinality(DOMAIN l) + Cardinality(fresh)
    BY <1>4, <1>6
  <2> HIDE DEF fresh
  <2> QED  BY <1>4, <2>1, <2>2, <2>3
<1> QED  BY <1>8, <1>9 DEF m

\* An empty update clears the plan.
LEMMA MergeEmpty == \A l : merge_plan_steps(l, NoPlan) = NoPlan
BY DEF merge_plan_steps

\* An update that is not empty leaves a plan that is not.
LEMMA MergeNotEmpty ==
    ASSUME NEW l, IsPlan(l), NEW r, IsPlan(r), DOMAIN r # {}
    PROVE  merge_plan_steps(l, r) # NoPlan
<1>1. DOMAIN merge_plan_steps(l, r) # {}
  BY MergeIsPlan
<1> QED  BY <1>1, NoPlanIsPlan

\* A status that no step of two plans has is not brought in by merging them.
LEMMA MergeAvoidsStatus ==
    ASSUME NEW l, IsPlan(l), NEW r, IsPlan(r), DOMAIN r # {}, NEW s,
           WithStatus(l, s) = {}, WithStatus(r, s) = {}
    PROVE  IsPlan(merge_plan_steps(l, r)) /\ WithStatus(merge_plan_steps(l, r), s) = {}
<1> DEFINE m == merge_plan_steps(l, r)
<1>1. /\ IsPlan(m)
      /\ DOMAIN m = DOMAIN l \cup DOMAIN r
      /\ \A id \in DOMAIN r : m[id].status = r[id].status /\ m[id].task = r[id].task
      /\ \A id \in DOMAIN l \ DOMAIN r : m[id] = l[id]
  BY MergeIsPlan
<1> HIDE DEF m
<1>2. ASSUME NEW id \in DOMAIN r PROVE m[id].status # s
  <2>1. r[id].status # s
    BY DEF WithStatus
  <2> QED  BY <1>1, <2>1
<1>3. ASSUME NEW id \in DOMAIN l \ DOMAIN r PROVE m[id].status # s
  <2>1. l[id].status # s /\ m[id] = l[id]
    BY <1>1 DEF WithStatus
  <2> QED  BY <2>1
<1>4. \A id \in DOMAIN m : m[id].status # s
  BY <1>1, <1>2, <1>3
<1>5. WithStatus(m, s) = {}
  BY <1>4 DEF WithStatus
<1> QED  BY <1>1, <1>5 DEF m

\* Resetting a plan makes all its steps pending.
LEMMA ResetPlanIsPlan ==
    ASSUME NEW p, IsPlan(p)
    PROVE  /\ IsPlan(ResetPlan(p))
           /\ DOMAIN ResetPlan(p) = DOMAIN p
           /\ \A id \in DOMAIN p : ResetPlan(p)[id].status = "pending"
<1>1. DOMAIN ResetPlan(p) = DOMAIN p
  BY DEF ResetPlan
<1>2. ASSUME NEW id \in DOMAIN p
      PROVE  ResetPlan(p)[id] \in Step /\ ResetPlan(p)[id].status = "pending"
  <2>1. p[id] \in Step /\ "pending" \in Status
    BY DEF IsPlan, Status
  <2>2. ResetPlan(p)[id] = [p[id] EXCEPT !.status = "pending"]
    BY DEF ResetPlan
  <2> QED  BY <2>1, <2>2, StatusChange
<1>3. ResetPlan(p) \in [DOMAIN p -> Step]
  BY <1>1, <1>2 DEF ResetPlan
<1> QED  BY <1>1, <1>2, <1>3 DEF IsPlan

\* Marking a step changes the status of that step and nothing else.
LEMMA MarkIsPlan ==
    ASSUME NEW p, IsPlan(p), NEW id \in DOMAIN p, NEW v \in Status
    PROVE  /\ IsPlan(Mark(p, id, v))
           /\ DOMAIN Mark(p, id, v) = DOMAIN p
           /\ Mark(p, id, v)[id].status = v
           /\ Mark(p, id, v)[id].task = p[id].task
           /\ \A other \in DOMAIN p \ {id} : Mark(p, id, v)[other] = p[other]
<1>1. p[id] \in Step /\ p \in [DOMAIN p -> Step]
  BY DEF IsPlan
<1>2. Mark(p, id, v) = [p EXCEPT ![id] = [p[id] EXCEPT !.status = v]]
  BY DEF Mark
<1>3. /\ [p[id] EXCEPT !.status = v] \in Step
      /\ [p[id] EXCEPT !.status = v].status = v
      /\ [p[id] EXCEPT !.status = v].task = p[id].task
  BY <1>1, StatusChange
<1>4. Mark(p, id, v) \in [DOMAIN p -> Step]
  BY <1>1, <1>2, <1>3
<1> QED  BY <1>1, <1>2, <1>3, <1>4 DEF IsPlan

\* Inserting the steps a repair misses keeps the steps of the plan in their
\* order and adds pending ones.
LEMMA InsertIsPlan ==
    ASSUME NEW p, IsPlan(p), NEW added, IsTaskList(added)
    PROVE  /\ IsPlan(InsertRepairSteps(p, added))
           /\ DOMAIN p \subseteq DOMAIN InsertRepairSteps(p, added)
           /\ \A id \in DOMAIN p :
                /\ InsertRepairSteps(p, added)[id].status = p[id].status
                /\ InsertRepairSteps(p, added)[id].task = p[id].task
           /\ \A a, b \in DOMAIN p :
                InsertRepairSteps(p, added)[a].pos < InsertRepairSteps(p, added)[b].pos =>
                    p[a].pos < p[b].pos
           /\ \A id \in DOMAIN InsertRepairSteps(p, added) \ DOMAIN p :
                InsertRepairSteps(p, added)[id].status = "pending"
<1> DEFINE ahead    == {id \in DOMAIN p :
                          \A other \in DOMAIN p :
                            p[other].task = LEGAL_CONSULTATION => p[id].pos < p[other].pos}
           at       == Cardinality(ahead) + 1
           before(k) == Cardinality({j \in 1 .. k : added[j] # LEGAL_CONSULTATION})
           place(k) == IF added[k] = LEGAL_CONSULTATION THEN Len(added) ELSE before(k)
           new      == {"repair"} \X DOMAIN added
           shift(i) == IF i >= at THEN i + Len(added) ELSE i
           old(id)  == [p[id] EXCEPT !.pos = IF @ >= at THEN @ + Len(added) ELSE @]
           fresh(id) == [task |-> added[id[2]], status |-> "pending",
                         pos |-> at + place(id[2]) - 1]
<1>1. PICK n \in Nat : added \in [1 .. n -> TaskType]
  BY DEF IsTaskList
<1>2. DOMAIN added = 1 .. n /\ Len(added) = n
  BY <1>1
<1>3. at \in Nat /\ at >= 1
  <2>1. IsFiniteSet(ahead)
    BY FS_Subset DEF IsPlan
  <2>2. Cardinality(ahead) \in Nat
    BY <2>1, FS_CardinalityType
  <2> QED  BY <2>2
<1>4. ASSUME NEW k \in 1 .. n PROVE place(k) \in Nat
  <2>1. IsFiniteSet(1 .. k)
    BY FS_Interval
  <2>2. IsFiniteSet({j \in 1 .. k : added[j] # LEGAL_CONSULTATION})
    BY <2>1, FS_Subset
  <2>3. before(k) \in Nat
    BY <2>2, FS_CardinalityType
  <2> HIDE DEF before
  <2> QED  BY <1>2, <2>3
<1> HIDE DEF at, place
<1>5. ASSUME NEW id \in DOMAIN p
      PROVE  /\ old(id) \in Step
             /\ old(id).status = p[id].status /\ old(id).task = p[id].task
             /\ old(id).pos = shift(p[id].pos)
  <2>1. p[id] \in Step /\ p[id].pos \in Nat
    BY DEF IsPlan, Step
  <2> DEFINE m == IF p[id].pos >= at THEN p[id].pos + Len(added) ELSE p[id].pos
  <2>2. m \in Nat /\ m = shift(p[id].pos)
    BY <1>2, <1>3, <2>1
  <2>3. old(id) = [p[id] EXCEPT !.pos = m]
    OBVIOUS
  <2> HIDE DEF m, shift, old
  <2> QED  BY <2>1, <2>2, <2>3, PlaceChange
<1>6. ASSUME NEW id \in new
      PROVE  fresh(id) \in Step /\ fresh(id).status = "pending" /\ id \in StepId
  <2>1. id[2] \in 1 .. n /\ id = <<"repair", id[2]>>
    BY <1>2
  <2>2. added[id[2]] \in TaskType /\ at + place(id[2]) - 1 \in Nat
    BY <1>1, <1>3, <1>4, <2>1
  <2>3. id[2] \in Nat \ {0}
    BY <2>1
  <2> QED  BY <2>1, <2>2, <2>3 DEF Step, Status, StepId
<1> DEFINE q == InsertRepairSteps(p, added)
<1>7. q = [id \in DOMAIN p \cup new |-> IF id \in DOMAIN p THEN old(id) ELSE fresh(id)]
  BY DEF InsertRepairSteps, at, place
<1>8. IsFiniteSet(DOMAIN p \cup new)
  <2>1. IsFiniteSet(DOMAIN added)
    BY <1>2, FS_Interval
  <2>2. IsFiniteSet({"repair"})
    BY FS_Singleton
  <2>3. IsFiniteSet(new)
    BY <2>1, <2>2, FS_Product
  <2> HIDE DEF new
  <2> QED  BY <2>3, FS_Union DEF IsPlan
<1> HIDE DEF new, old, fresh
<1>9. DOMAIN q = DOMAIN p \cup new
  BY <1>7
<1>10. \A id \in DOMAIN q : q[id] \in Step /\ id \in StepId
  BY <1>5, <1>6, <1>7, <1>9 DEF IsPlan
<1>11. IsPlan(q)
  BY <1>7, <1>8, <1>9, <1>10 DEF IsPlan
<1>12. \A a, b \in DOMAIN p : q[a].pos < q[b].pos => p[a].pos < p[b].pos
  <2>1. \A id \in DOMAIN p : q[id].pos = shift(p[id].pos) /\ p[id].pos \in Nat
    BY <1>5, <1>7 DEF IsPlan, Step
  <2>2. \A i, j \in Nat : shift(i) < shift(j) => i < j
    BY <1>2, <1>3
  <2> HIDE DEF shift
  <2> QED  BY <2>1, <2>2
<1> HIDE DEF shift
<1> QED  BY <1>5, <1>6, <1>7, <1>9, <1>11, <1>12

\* Reopening makes steps pending and leaves the others as they are; the steps
\* that are not pending afterwards stand in front of the reopened ones.
LEMMA ReopenIsPlan ==
    ASSUME NEW p, IsPlan(p), NEW redo
    PROVE  /\ IsPlan(Reopen(p, redo))
           /\ DOMAIN Reopen(p, redo) = DOMAIN p
           /\ \A id \in DOMAIN p :
                /\ Reopen(p, redo)[id].status \in {"pending", p[id].status}
                /\ Reopen(p, redo)[id].task = p[id].task
           /\ \A a, b \in DOMAIN p :
                (/\ Reopen(p, redo)[b].status # p[b].status
                 /\ Reopen(p, redo)[a].status # "pending") => p[a].pos < p[b].pos
<1> DEFINE hit == {id \in DOMAIN p : p[id].task \in redo}
<1>1. DOMAIN Reopen(p, redo) = DOMAIN p
  BY DEF Reopen
<1>2. ASSUME NEW id \in DOMAIN p
      PROVE  /\ Reopen(p, redo)[id] \in Step
             /\ Reopen(p, redo)[id].status \in {"pending", p[id].status}
             /\ Reopen(p, redo)[id].task = p[id].task
  <2>1. p[id] \in Step /\ "pending" \in Status
    BY DEF IsPlan, Status
  <2>2. CASE Reopen(p, redo)[id] = [p[id] EXCEPT !.status = "pending"]
    BY <2>1, <2>2, StatusChange
  <2>3. CASE Reopen(p, redo)[id] = p[id]
    BY <2>1, <2>3
  <2> QED  BY <2>2, <2>3 DEF Reopen
<1>3. Reopen(p, redo) \in [DOMAIN p -> Step]
  BY <1>1, <1>2 DEF Reopen
<1>4. ASSUME NEW a \in DOMAIN p, NEW b \in DOMAIN p,
             Reopen(p, redo)[b].status # p[b].status,
             Reopen(p, redo)[a].status # "pending"
      PROVE  p[a].pos < p[b].pos
  <2>1. PICK h \in hit : p[h].pos <= p[b].pos
    BY <1>4 DEF Reopen
  <2>2. p[a] \in Step /\ p[b] \in Step /\ p[h] \in Step /\ "pending" \in Status
    BY DEF IsPlan, Status
  <2>3. ~(p[h].pos <= p[a].pos)
    <3>1. SUFFICES ASSUME p[h].pos <= p[a].pos PROVE FALSE
      OBVIOUS
    <3>2. Reopen(p, redo)[a] = [p[a] EXCEPT !.status = "pending"]
      BY <3>1 DEF Reopen
    <3> QED  BY <1>4, <2>2, <3>2, StatusChange
  <2>4. p[a].pos \in Nat /\ p[b].pos \in Nat /\ p[h].pos \in Nat
    BY <2>2 DEF Step
  <2> QED  BY <2>1, <2>3, <2>4
<1> QED  BY <1>1, <1>2, <1>3, <1>4 DEF IsPlan

\* A repaired plan keeps the steps of the plan with their tasks, a step whose
\* status differs from before is pending, and it stood behind the steps that are
\* not pending.
LEMMA RepairIsPlan ==
    ASSUME NEW p, IsPlan(p), NEW redo, NEW added, IsTaskList(added)
    PROVE  /\ IsPlan(plan_repair(p, redo, added))
           /\ DOMAIN p \subseteq DOMAIN plan_repair(p, redo, added)
           /\ \A id \in DOMAIN p :
                /\ plan_repair(p, redo, added)[id].status \in {"pending", p[id].status}
                /\ plan_repair(p, redo, added)[id].task = p[id].task
           /\ \A a, b \in DOMAIN p :
                (/\ plan_repair(p, redo, added)[b].status # p[b].status
                 /\ plan_repair(p, redo, added)[a].status # "pending") =>
                    p[a].pos < p[b].pos
           /\ \A id \in DOMAIN plan_repair(p, redo, added) \ DOMAIN p :
                plan_repair(p, redo, added)[id].status = "pending"
<1> DEFINE q == InsertRepairSteps(p, added)
<1>1. /\ IsPlan(q) /\ DOMAIN p \subseteq DOMAIN q
      /\ \A id \in DOMAIN p : q[id].status = p[id].status /\ q[id].task = p[id].task
      /\ \A a, b \in DOMAIN p : q[a].pos < q[b].pos => p[a].pos < p[b].pos
      /\ \A id \in DOMAIN q \ DOMAIN p : q[id].status = "pending"
  BY InsertIsPlan
<1> HIDE DEF q
<1>2. /\ IsPlan(Reopen(q, redo)) /\ DOMAIN Reopen(q, redo) = DOMAIN q
      /\ \A id \in DOMAIN q :
            /\ Reopen(q, redo)[id].status \in {"pending", q[id].status}
            /\ Reopen(q, redo)[id].task = q[id].task
      /\ \A a, b \in DOMAIN q :
            (/\ Reopen(q, redo)[b].status # q[b].status
             /\ Reopen(q, redo)[a].status # "pending") => q[a].pos < q[b].pos
  BY <1>1, ReopenIsPlan
<1>3. plan_repair(p, redo, added) = Reopen(q, redo)
  BY DEF plan_repair, q
<1> QED  BY <1>1, <1>2, <1>3

-----------------------------------------------------------------------------
(* Type correctness and the plan's execution.  The type of a specialist's  *)
(* moves depends on the Supervisor having dispatched the current step, so  *)
(* both are proved together.                                               *)

AtWork    == {"specialist", "tools", "tool_limit_exceeded"}
Reviewing == {"result_verifier", "repair_router", "answer_generator"}

\* At most the current step is running, and only between its dispatch and the
\* Supervisor's next turn; a plan under review has been tried to its end.
PlanInv ==
    /\ \A a, b \in WithStatus(plan, "running") : a = b
    /\ pc \in AtWork =>
          /\ current \in WithStatus(plan, "running")
          /\ route = AgentOf(plan, current)
    /\ pc = "supervisor" => WithStatus(plan, "running") \subseteq {current}
    /\ pc \in {"complexity_router", "planner"} => WithStatus(plan, "running") = {}
    /\ pc \in Reviewing =>
          /\ plan # NoPlan
          /\ \A id \in DOMAIN plan : plan[id].status \in {"completed", "failed"}

ExecutionInv == TypeOK /\ PlanInv

USE DEF flow, work, budget, evidence, rework, history

\* The agent of a step of a plan is a specialist.
LEMMA AgentOfType ==
    ASSUME NEW p, IsPlan(p), NEW id \in DOMAIN p
    PROVE  AgentOf(p, id) \in Agents
<1>1. p[id].task \in TaskType
  BY DEF IsPlan, Step
<1>2. \A t \in TaskType : TASK_AGENT_MAP[t] \in Agents
  BY DEF TaskType, TASK_AGENT_MAP, Agents, CASE_ANALYSIS, STATUTE_RETRIEVAL,
         CASE_RETRIEVAL, LEGAL_CONSULTATION
<1> QED  BY <1>1, <1>2 DEF AgentOf

\* The initial state is well typed and has no plan.
LEMMA ExecutionInit == Init => ExecutionInv
<1> SUFFICES ASSUME Init PROVE ExecutionInv
  OBVIOUS
<1>1. IsPlan(plan) /\ DOMAIN plan = {}
  BY NoPlanIsPlan DEF Init
<1>2. IsFiniteSet(DOMAIN calls) /\ DOMAIN calls = {}
  BY FS_EmptySet DEF Init
<1>3. route \in Agents \cup {"final", "end"} /\ finalized \in BOOLEAN
  BY RouteAssumption DEF Init
<1>4. current = NoStep
  BY DEF Init
<1>5. TypeOK
  <2>1. FlowType
    BY <1>3 DEF Init, FlowType
  <2>2. WorkType
    BY <1>1, <1>4 DEF Init, WorkType
  <2>3. BudgetType
    BY <1>2 DEF Init, BudgetType
  <2>4. EvidenceType /\ ReworkType /\ HistoryType
    BY DEF Init, EvidenceType, ReworkType, HistoryType
  <2> QED  BY <2>1, <2>2, <2>3, <2>4 DEF TypeOK
<1>6. PlanInv
  BY <1>1 DEF Init, PlanInv, WithStatus, AtWork, Reviewing
<1> QED  BY <1>5, <1>6 DEF ExecutionInv

\* Settling the running step leaves no step running and touches no other step.
LEMMA SettledIsPlan ==
    ASSUME TypeOK, pc = "supervisor", WithStatus(plan, "running") \subseteq {current}
    PROVE  /\ IsPlan(Settled)
           /\ DOMAIN Settled = DOMAIN plan
           /\ WithStatus(Settled, "running") = {}
           /\ \A id \in DOMAIN plan : Settled[id].task = plan[id].task
<1>1. IsPlan(plan) /\ \A id \in DOMAIN plan : plan[id] \in Step
  BY DEF TypeOK, WorkType, IsPlan
<1>2. DOMAIN Settled = DOMAIN plan
  BY DEF Settled
<1>3. \A id : Outcome(id) \in {"completed", "failed"}
  BY DEF Outcome
<1>4. Running = WithStatus(plan, "running")
  BY DEF Running
<1>5. ASSUME NEW id \in DOMAIN plan
      PROVE  /\ Settled[id] \in Step
             /\ Settled[id].status # "running"
             /\ Settled[id].task = plan[id].task
  <2>1. CASE id \in Running
    <3>1. Settled[id] = [plan[id] EXCEPT !.status = Outcome(id)]
      BY <2>1 DEF Settled
    <3>2. Outcome(id) \in Status /\ Outcome(id) # "running"
      BY <1>3 DEF Status
    <3> QED  BY <1>1, <3>1, <3>2, StatusChange
  <2>2. CASE id \notin Running
    <3>1. Settled[id] = plan[id]
      BY <2>2 DEF Settled
    <3> QED  BY <1>1, <1>4, <2>2, <3>1 DEF WithStatus
  <2> QED  BY <2>1, <2>2
<1>6. Settled \in [DOMAIN plan -> Step]
  BY <1>2, <1>5 DEF Settled
<1>7. WithStatus(Settled, "running") = {}
  BY <1>2, <1>5 DEF WithStatus
<1> QED  BY <1>1, <1>2, <1>5, <1>6, <1>7 DEF IsPlan

\* The calls a response may ask for are those of a non-empty finite list.
LEMMA RequestType ==
    ASSUME NEW agent \in Agents, NEW request \in Requests(agent)
    PROVE  /\ DOMAIN request # {}
           /\ IsFiniteSet(DOMAIN request)
           /\ \A i \in DOMAIN request : i \in Nat /\ request[i] \in Calls
<1>1. PICK n \in Nat \ {0} : request \in [1 .. n -> ToolsOf[agent] \X Queries]
  BY EvidenceAssumption DEF Requests
<1>2. ToolsOf[agent] \subseteq Tools
  BY DEF ToolsOf, Tools, Agents
<1>3. DOMAIN request = 1 .. n
  BY <1>1
<1>4. \A i \in 1 .. n : request[i] \in Calls
  BY <1>1, <1>2 DEF Calls
<1>5. IsFiniteSet(1 .. n)
  BY FS_Interval
<1>6. 1 \in 1 .. n /\ \A i \in 1 .. n : i \in Nat
  OBVIOUS
<1> QED  BY <1>3, <1>4, <1>5, <1>6

\* What a specialist's turn does to the budget keeps the budget's types: calls
\* it is granted are calls of its response.
LEMMA GrantedType ==
    ASSUME NEW agent \in Agents, NEW request \in Requests(agent),
           NEW granted \in SUBSET Admissible(request)
    PROVE  /\ IsFiniteSet(granted)
           /\ Cardinality(granted) \in Nat
           /\ CallsAt(request, granted) \subseteq Calls
           /\ \A i \in granted : request[i] \in Calls
<1>1. granted \subseteq DOMAIN request
  BY DEF Admissible, FreshCalls
<1>2. IsFiniteSet(granted)
  BY <1>1, RequestType, FS_Subset
<1>3. Cardinality(granted) \in Nat
  BY <1>2, FS_CardinalityType
<1> QED  BY <1>1, <1>2, <1>3, RequestType DEF CallsAt

\* The planner's lists are task lists, and none of them is empty.
LEMMA TaskListType ==
    ASSUME NEW allowCase, NEW tasks \in NormalizedTaskLists(allowCase)
    PROVE  IsTaskList(tasks) /\ DOMAIN PlanOf(tasks) # {}
<1> DEFINE S == IF allowCase THEN TaskType ELSE TaskType \ {CASE_RETRIEVAL}
<1>1. tasks \in InjectiveLists(S, MAX_PLAN_STEPS) /\ tasks # <<>>
  BY DEF NormalizedTaskLists
<1>2. PICK n \in 0 .. MAX_PLAN_STEPS : tasks \in [1 .. n -> S]
  BY <1>1 DEF InjectiveLists
<1>3. n \in Nat /\ S \subseteq TaskType
  BY <1>2, BudgetAssumption
<1>4. IsTaskList(tasks)
  BY <1>2, <1>3 DEF IsTaskList
<1>5. DOMAIN tasks = 1 .. n
  BY <1>2
<1>6. n # 0
  <2>1. SUFFICES ASSUME n = 0 PROVE FALSE
    OBVIOUS
  <2>2. tasks = <<>>
    BY <1>2, <2>1
  <2> QED  BY <1>1, <2>2
<1>7. <<"step", 1>> \in {"step"} \X DOMAIN tasks
  BY <1>3, <1>5, <1>6
<1>8. DOMAIN PlanOf(tasks) # {}
  BY <1>4, <1>7, PlanOfIsPlan
<1> QED  BY <1>4, <1>8

\* The lists of steps a repair adds are task lists.
LEMMA AddedType ==
    ASSUME NEW S, S \subseteq TaskType, NEW n \in Nat, NEW added \in InjectiveLists(S, n)
    PROVE  IsTaskList(added)
<1>1. PICK k \in 0 .. n : added \in [1 .. k -> S]
  BY DEF InjectiveLists
<1> QED  BY <1>1 DEF IsTaskList

-----------------------------------------------------------------------------
(* One lemma per node whose turn rewrites the plan.                        *)

\* Routing a request to its workflow.
LEMMA ComplexityRouterStep ==
    ASSUME ExecutionInv, ComplexityRouter PROVE ExecutionInv'
<1> USE DEF ExecutionInv
<1>1. FlowType' /\ BudgetType' /\ EvidenceType' /\ ReworkType' /\ HistoryType'
  BY DEF ComplexityRouter, TypeOK, FlowType, BudgetType, EvidenceType, ReworkType, HistoryType
<1>2. IsPlan(plan) /\ WithStatus(plan, "running") = {}
  BY DEF ComplexityRouter, TypeOK, WorkType, PlanInv
<1>3. CASE plan' = merge_plan_steps(plan, SimplePlan)
  <2> DEFINE tasks == <<STATUTE_RETRIEVAL, LEGAL_CONSULTATION>>
  <2>1. IsTaskList(tasks)
    <3>1. tasks \in [1 .. 2 -> TaskType]
      BY DEF TaskType
    <3> QED  BY <3>1 DEF IsTaskList
  <2>2. IsPlan(SimplePlan) /\ WithStatus(SimplePlan, "running") = {}
    BY <2>1, PlanOfIsPlan DEF SimplePlan, WithStatus
  <2>3. DOMAIN SimplePlan # {}
    <3>1. <<"step", 1>> \in DOMAIN SimplePlan
      BY DEF SimplePlan, PlanOf
    <3> QED  BY <3>1
  <2>4. IsPlan(plan') /\ WithStatus(plan', "running") = {}
    BY <1>2, <1>3, <2>2, <2>3, MergeAvoidsStatus
  <2>5. WorkType'
    BY <2>4 DEF ComplexityRouter, TypeOK, WorkType
  <2>6. PlanInv'
    BY <2>4 DEF ComplexityRouter, PlanInv, AtWork, Reviewing
  <2> QED  BY <1>1, <2>5, <2>6 DEF TypeOK
<1>4. CASE plan' = plan
  <2>1. WorkType'
    BY <1>4 DEF ComplexityRouter, TypeOK, WorkType
  <2>2. WithStatus(plan', "running") = {}
    BY <1>2, <1>4
  <2>3. PlanInv'
    BY <2>2 DEF ComplexityRouter, PlanInv, AtWork, Reviewing
  <2> QED  BY <1>1, <2>1, <2>3 DEF TypeOK
<1> QED  BY <1>3, <1>4 DEF ComplexityRouter

\* Planning leaves no step running.
LEMMA PlannerStep ==
    ASSUME ExecutionInv, Planner PROVE ExecutionInv'
<1> USE DEF ExecutionInv
<1>1. FlowType' /\ BudgetType' /\ EvidenceType' /\ ReworkType' /\ HistoryType'
  BY DEF Planner, TypeOK, FlowType, BudgetType, EvidenceType, ReworkType, HistoryType
<1>2. IsPlan(plan) /\ WithStatus(plan, "running") = {}
  BY DEF Planner, TypeOK, WorkType, PlanInv
<1>3. IsPlan(plan') /\ WithStatus(plan', "running") = {}
  <2>1. CASE PlannerSkips
    <3>1. plan' = NoPlan
      BY <2>1 DEF Planner, merge_plan_steps
    <3> QED  BY <3>1, NoPlanIsPlan DEF WithStatus
  <2>2. CASE ~PlannerSkips
    <3>1. PICK tasks \in NormalizedTaskLists(needsCase) :
            plan' = merge_plan_steps(plan, PlanOf(tasks))
      BY <2>2 DEF Planner
    <3>2. /\ IsPlan(PlanOf(tasks)) /\ DOMAIN PlanOf(tasks) # {}
          /\ \A id \in DOMAIN PlanOf(tasks) : PlanOf(tasks)[id].status = "pending"
      BY TaskListType, PlanOfIsPlan
    <3>3. WithStatus(PlanOf(tasks), "running") = {}
      BY <3>2 DEF WithStatus
    <3> QED  BY <1>2, <3>1, <3>2, <3>3, MergeAvoidsStatus
  <2> QED  BY <2>1, <2>2
<1>4. WorkType'
  BY <1>3 DEF Planner, TypeOK, WorkType
<1>5. PlanInv'
  BY <1>3 DEF Planner, PlanInv, AtWork, Reviewing
<1> QED  BY <1>1, <1>4, <1>5 DEF TypeOK

\* The step that runs again was running and stays the only one.
LEMMA SupervisorRetriesStep ==
    ASSUME ExecutionInv, SupervisorRetries PROVE ExecutionInv'
<1> USE DEF ExecutionInv
<1>1. PICK id \in Running : current' = id /\ route' = AgentOf(plan, id) /\ retry' = retry + 1
  BY DEF SupervisorRetries, NextRetry
<1>2. id \in WithStatus(plan, "running") /\ id \in DOMAIN plan /\ IsPlan(plan)
  BY <1>1 DEF Running, WithStatus, TypeOK, WorkType
<1>3. route' \in Agents /\ current' \in StepId
  BY <1>1, <1>2, AgentOfType DEF IsPlan
<1>4. FlowType'
  BY <1>3 DEF SupervisorRetries, TypeOK, FlowType
<1>5. WorkType'
  BY <1>1, <1>3 DEF SupervisorRetries, TypeOK, WorkType
<1>6. BudgetType' /\ EvidenceType' /\ ReworkType' /\ HistoryType'
  BY DEF SupervisorRetries, TypeOK, BudgetType, EvidenceType, ReworkType, HistoryType
<1>7. PlanInv'
  BY <1>1, <1>2 DEF SupervisorRetries, PlanInv, AtWork, Reviewing
<1> QED  BY <1>4, <1>5, <1>6, <1>7 DEF TypeOK

\* The dispatched step is the only one running.
LEMMA SupervisorDispatchesStep ==
    ASSUME ExecutionInv, SupervisorDispatches PROVE ExecutionInv'
<1> USE DEF ExecutionInv
<1>1. pc = "supervisor" /\ WithStatus(plan, "running") \subseteq {current} /\ IsPlan(plan)
  BY DEF SupervisorDispatches, TypeOK, WorkType, PlanInv
<1>2. PICK id \in DOMAIN plan :
        /\ plan' = merge_plan_steps(plan, Mark(Settled, id, "running"))
        /\ current' = id
        /\ route' = AgentOf(plan, id)
        /\ reported' = reported \ {id}
  BY DEF SupervisorDispatches
<1> DEFINE next == Mark(Settled, id, "running")
<1>3. /\ IsPlan(Settled) /\ DOMAIN Settled = DOMAIN plan
      /\ WithStatus(Settled, "running") = {}
      /\ Settled[id].task = plan[id].task
  BY <1>1, SettledIsPlan
<1>4. "running" \in Status
  BY DEF Status
<1>5. /\ IsPlan(next) /\ DOMAIN next = DOMAIN plan
      /\ next[id].status = "running"
      /\ next[id].task = plan[id].task
      /\ \A other \in DOMAIN plan \ {id} : next[other].status # "running"
  BY <1>3, <1>4, MarkIsPlan DEF WithStatus
<1> HIDE DEF next
<1>6. DOMAIN next # {}
  BY <1>5
<1>7. /\ IsPlan(plan') /\ DOMAIN plan' = DOMAIN plan
      /\ \A other \in DOMAIN plan :
            plan'[other].status = next[other].status /\ plan'[other].task = next[other].task
  <2> DEFINE m == merge_plan_steps(plan, next)
  <2>1. /\ IsPlan(m)
        /\ DOMAIN m = DOMAIN plan \cup DOMAIN next
        /\ \A other \in DOMAIN next :
              m[other].status = next[other].status /\ m[other].task = next[other].task
        /\ \A other \in DOMAIN plan \ DOMAIN next : m[other] = plan[other]
    <3>1. IsPlan(plan) /\ IsPlan(next)
      BY <1>1, <1>5
    <3> QED  BY <1>6, <3>1, MergeIsPlan, ZenonT(30)
  <2>2. plan' = m
    BY <1>2 DEF next
  <2> HIDE DEF m
  <2> QED  BY <1>5, <2>1, <2>2
<1>8. WithStatus(plan', "running") = {id}
  BY <1>5, <1>7 DEF WithStatus
<1>9. route' = AgentOf(plan', id)
  BY <1>2, <1>5, <1>7 DEF AgentOf
<1>10. route' \in Agents /\ current' \in StepId
  BY <1>1, <1>2, AgentOfType DEF IsPlan
<1>11. FlowType'
  BY <1>10 DEF SupervisorDispatches, TypeOK, FlowType
<1>12. WorkType'
  BY <1>7, <1>10 DEF SupervisorDispatches, TypeOK, WorkType
<1>13. BudgetType' /\ EvidenceType' /\ ReworkType' /\ HistoryType'
  BY <1>2 DEF SupervisorDispatches, TypeOK, BudgetType, EvidenceType, ReworkType, HistoryType
<1>14. PlanInv'
  BY <1>2, <1>8, <1>9 DEF SupervisorDispatches, PlanInv, AtWork, Reviewing
<1> QED  BY <1>11, <1>12, <1>13, <1>14 DEF TypeOK

\* A finished plan has no step that is pending or running.
LEMMA SupervisorFinishesStep ==
    ASSUME ExecutionInv, SupervisorFinishesPlan PROVE ExecutionInv'
<1> USE DEF ExecutionInv
<1>1. /\ pc = "supervisor" /\ WithStatus(plan, "running") \subseteq {current}
      /\ IsPlan(plan) /\ plan # NoPlan
      /\ WithStatus(Settled, "pending") = {}
      /\ plan' = merge_plan_steps(plan, Settled)
  BY DEF SupervisorFinishesPlan, NothingPending, TypeOK, WorkType, PlanInv
<1>2. /\ IsPlan(Settled) /\ DOMAIN Settled = DOMAIN plan
      /\ WithStatus(Settled, "running") = {}
  BY <1>1, SettledIsPlan
<1>3. DOMAIN Settled # {}
  BY <1>1, <1>2, NoPlanIsPlan
<1>4. \A id \in DOMAIN plan : Settled[id].status \in {"completed", "failed"}
  BY <1>1, <1>2 DEF WithStatus, IsPlan, Step, Status
<1>5. /\ IsPlan(plan') /\ DOMAIN plan' = DOMAIN plan /\ plan' # NoPlan
      /\ \A id \in DOMAIN plan : plan'[id].status = Settled[id].status
  BY <1>1, <1>2, <1>3, MergeIsPlan, MergeNotEmpty
<1>6. \A id \in DOMAIN plan' : plan'[id].status \in {"completed", "failed"}
  BY <1>4, <1>5
<1>7. WithStatus(plan', "running") = {}
  BY <1>6 DEF WithStatus
<1>8. FlowType' /\ BudgetType' /\ EvidenceType' /\ ReworkType' /\ HistoryType'
  BY DEF SupervisorFinishesPlan, TypeOK, FlowType, BudgetType, EvidenceType, ReworkType,
         HistoryType
<1>9. WorkType'
  BY <1>5 DEF SupervisorFinishesPlan, TypeOK, WorkType
<1>10. PlanInv'
  BY <1>5, <1>6, <1>7 DEF SupervisorFinishesPlan, PlanInv, AtWork, Reviewing
<1> QED  BY <1>8, <1>9, <1>10 DEF TypeOK

\* A re-plan resets every step.
LEMMA VerifierReplansStep ==
    ASSUME ExecutionInv, VerifierReplans PROVE ExecutionInv'
<1> USE DEF ExecutionInv
<1>1. /\ IsPlan(plan) /\ DOMAIN plan # {}
      /\ plan' = merge_plan_steps(plan, ResetPlan(plan))
  BY NoPlanIsPlan DEF VerifierReplans, retry_updates, TypeOK, WorkType, PlanInv, Reviewing
<1>2. /\ IsPlan(ResetPlan(plan)) /\ DOMAIN ResetPlan(plan) = DOMAIN plan
      /\ \A id \in DOMAIN plan : ResetPlan(plan)[id].status = "pending"
  BY <1>1, ResetPlanIsPlan
<1> DEFINE m == merge_plan_steps(plan, ResetPlan(plan))
<1>3. /\ IsPlan(m)
      /\ DOMAIN m = DOMAIN plan \cup DOMAIN ResetPlan(plan)
      /\ \A id \in DOMAIN ResetPlan(plan) :
            m[id].status = ResetPlan(plan)[id].status /\ m[id].task = ResetPlan(plan)[id].task
      /\ \A id \in DOMAIN plan \ DOMAIN ResetPlan(plan) : m[id] = plan[id]
  <2>1. IsPlan(plan) /\ IsPlan(ResetPlan(plan)) /\ DOMAIN ResetPlan(plan) # {}
    BY <1>1, <1>2
  <2> QED  BY <2>1, MergeIsPlan, ZenonT(30)
<1> HIDE DEF m
<1>4. \A id \in DOMAIN m : m[id].status = "pending"
  BY <1>2, <1>3
<1>5. WithStatus(plan', "running") = {} /\ IsPlan(plan')
  BY <1>1, <1>3, <1>4 DEF WithStatus, m
<1>6. FlowType' /\ EvidenceType' /\ ReworkType'
  BY DEF VerifierReplans, retry_updates, TypeOK, FlowType, EvidenceType, ReworkType
<1>7. WorkType'
  BY <1>5 DEF VerifierReplans, retry_updates, WorkType
<1>8. BudgetType' /\ HistoryType'
  BY DEF VerifierReplans, retry_updates, TypeOK, BudgetType, HistoryType
<1>9. PlanInv'
  BY <1>5 DEF VerifierReplans, PlanInv, AtWork, Reviewing
<1> QED  BY <1>6, <1>7, <1>8, <1>9 DEF TypeOK

\* The targets the plan has no step for are finitely many task types.
LEMMA MissingTargetsType ==
    ASSUME TypeOK
    PROVE  MissingTargets \subseteq TaskType /\ Cardinality(MissingTargets) \in Nat
<1>1. targets \subseteq TaskType
  BY DEF TypeOK, ReworkType, RepairTasks, TaskType
<1>2. MissingTargets \subseteq TaskType
  BY <1>1 DEF MissingTargets
<1>3. IsFiniteSet(TaskType)
  <2>1. /\ IsFiniteSet({CASE_ANALYSIS}) /\ IsFiniteSet({STATUTE_RETRIEVAL})
        /\ IsFiniteSet({CASE_RETRIEVAL}) /\ IsFiniteSet({LEGAL_CONSULTATION})
    BY FS_Singleton
  <2>2. /\ IsFiniteSet({CASE_ANALYSIS} \cup {STATUTE_RETRIEVAL})
        /\ IsFiniteSet({CASE_RETRIEVAL} \cup {LEGAL_CONSULTATION})
    BY <2>1, FS_Union
  <2>3. IsFiniteSet(({CASE_ANALYSIS} \cup {STATUTE_RETRIEVAL})
                      \cup ({CASE_RETRIEVAL} \cup {LEGAL_CONSULTATION}))
    BY <2>2, FS_Union
  <2>4. TaskType = ({CASE_ANALYSIS} \cup {STATUTE_RETRIEVAL})
                      \cup ({CASE_RETRIEVAL} \cup {LEGAL_CONSULTATION})
    BY DEF TaskType
  <2> QED  BY <2>3, <2>4
<1>4. Cardinality(MissingTargets) \in Nat
  BY <1>2, <1>3, FS_Subset, FS_CardinalityType
<1> QED  BY <1>2, <1>4

\* A repair reopens steps and adds pending ones.
LEMMA RepairRouterStep ==
    ASSUME ExecutionInv, RepairRouter PROVE ExecutionInv'
<1> USE DEF ExecutionInv
<1>1. /\ IsPlan(plan) /\ DOMAIN plan # {}
      /\ \A id \in DOMAIN plan : plan[id].status \in {"completed", "failed"}
  BY NoPlanIsPlan DEF RepairRouter, TypeOK, WorkType, PlanInv, Reviewing
<1>2. PICK added \in InjectiveLists(MissingTargets, Cardinality(MissingTargets)) :
        repair_updates(plan_repair(plan, targets, added))
  BY DEF RepairRouter
<1>3. IsTaskList(added)
  BY MissingTargetsType, AddedType
<1> DEFINE q == plan_repair(plan, targets, added)
<1>4. /\ IsPlan(q) /\ DOMAIN plan \subseteq DOMAIN q
      /\ \A id \in DOMAIN plan : q[id].status \in {"pending", plan[id].status}
      /\ \A id \in DOMAIN q \ DOMAIN plan : q[id].status = "pending"
  BY <1>1, <1>3, RepairIsPlan
<1>5. plan' = merge_plan_steps(plan, q) /\ current' = NoStep /\ retry' = 0 /\ reports' = reports
  BY <1>2 DEF repair_updates
<1> HIDE DEF q
<1>6. DOMAIN q # {}
  BY <1>1, <1>4
<1>7. WithStatus(q, "running") = {} /\ WithStatus(plan, "running") = {}
  BY <1>1, <1>4 DEF WithStatus
<1>8. IsPlan(plan') /\ WithStatus(plan', "running") = {}
  BY <1>1, <1>4, <1>5, <1>6, <1>7, MergeAvoidsStatus
<1>9. FlowType' /\ ReworkType' /\ HistoryType'
  BY DEF RepairRouter, TypeOK, FlowType, ReworkType, HistoryType
<1>10. WorkType'
  BY <1>5, <1>8 DEF TypeOK, WorkType
<1>11. BudgetType' /\ EvidenceType'
  BY <1>2 DEF repair_updates, TypeOK, BudgetType, EvidenceType
<1>12. PlanInv'
  BY <1>8 DEF RepairRouter, PlanInv, AtWork, Reviewing
<1> QED  BY <1>9, <1>10, <1>11, <1>12 DEF TypeOK

-----------------------------------------------------------------------------
(* The other nodes leave the plan as it is.                                *)

\* PlanInv of a turn that leaves plan, current step and route alone.
LEMMA SamePlan ==
    ASSUME PlanInv, UNCHANGED <<plan, current, route>>,
           \/ pc' = pc
           \/ pc \in AtWork /\ pc' \in AtWork \cup {"supervisor", "aborted"}
           \/ pc' \in {"end", "aborted"}
    PROVE  PlanInv'
BY DEF PlanInv, AtWork, Reviewing

\* Answering with tool calls.
LEMMA SpecialistCallsToolsStep ==
    ASSUME ExecutionInv, SpecialistCallsTools PROVE ExecutionInv'
<1> USE DEF ExecutionInv
<1>1. route \in Agents
  BY AgentOfType DEF SpecialistCallsTools, TypeOK, WorkType, PlanInv, AtWork, WithStatus
<1>2a. PICK request \in Requests(route) :
        \E granted \in Granted(request) :
            /\ toolCount' = toolCount + Cardinality(granted)
            /\ toolTotal' = toolTotal + Cardinality(granted)
            /\ signatures' = signatures \cup CallsAt(request, granted)
            /\ calls' = [i \in granted |-> request[i]]
  BY DEF SpecialistCallsTools
<1>2. PICK granted \in Granted(request) :
        /\ toolCount' = toolCount + Cardinality(granted)
        /\ toolTotal' = toolTotal + Cardinality(granted)
        /\ signatures' = signatures \cup CallsAt(request, granted)
        /\ calls' = [i \in granted |-> request[i]]
  BY <1>2a
<1>3. granted \in SUBSET Admissible(request)
  BY DEF Granted
<1>4. /\ IsFiniteSet(granted) /\ Cardinality(granted) \in Nat
      /\ CallsAt(request, granted) \subseteq Calls
      /\ \A i \in granted : request[i] \in Calls
  BY <1>1, <1>3, GrantedType
<1>5. BudgetType'
  <2>1. DOMAIN calls' = granted /\ \A i \in granted : calls'[i] = request[i]
    BY <1>2
  <2>2. toolCount' \in Nat /\ toolTotal' \in Nat
    BY <1>2, <1>4 DEF TypeOK, BudgetType
  <2>3. failure' \in BOOLEAN /\ refresh' \in BOOLEAN /\ signatures' \subseteq Calls
    BY <1>2, <1>4 DEF SpecialistCallsTools, TypeOK, BudgetType
  <2> QED  BY <1>4, <2>1, <2>2, <2>3 DEF BudgetType
<1>6. FlowType' /\ WorkType' /\ EvidenceType' /\ ReworkType' /\ HistoryType'
  BY DEF SpecialistCallsTools, TypeOK, FlowType, WorkType, EvidenceType, ReworkType, HistoryType
<1>7. PlanInv'
  BY SamePlan DEF SpecialistCallsTools, AtWork
<1> QED  BY <1>5, <1>6, <1>7 DEF TypeOK

\* Asking for tools beyond the step's budget.
LEMMA SpecialistOverLimitStep ==
    ASSUME ExecutionInv, SpecialistOverLimit PROVE ExecutionInv'
<1> USE DEF ExecutionInv
<1>1. route \in Agents
  BY AgentOfType DEF SpecialistOverLimit, TypeOK, WorkType, PlanInv, AtWork, WithStatus
<1>2. PICK request \in Requests(route) :
        signatures' = signatures \cup CallsAt(request, Admissible(request))
  BY DEF SpecialistOverLimit
<1>3. CallsAt(request, Admissible(request)) \subseteq Calls
  BY <1>1, GrantedType
<1>4. BudgetType'
  BY <1>2, <1>3 DEF SpecialistOverLimit, TypeOK, BudgetType
<1>5. FlowType' /\ WorkType' /\ EvidenceType' /\ ReworkType' /\ HistoryType'
  BY DEF SpecialistOverLimit, TypeOK, FlowType, WorkType, EvidenceType, ReworkType, HistoryType
<1>6. PlanInv'
  BY SamePlan DEF SpecialistOverLimit, AtWork
<1> QED  BY <1>4, <1>5, <1>6 DEF TypeOK

\* Running the tools.
LEMMA RunToolsStep ==
    ASSUME ExecutionInv, RunTools PROVE ExecutionInv'
<1> USE DEF ExecutionInv
<1>1. EvidenceType'
  <2>1. PICK newLaws \in 0 .. MaxGain, newCases \in 0 .. MaxGain :
          /\ laws'  = AtMost(laws + newLaws, RETAINED_LAWS)
          /\ cases' = AtMost(cases + newCases, RETAINED_CASES)
          /\ gain'  = newLaws + newCases
    BY DEF RunTools
  <2>2. newLaws \in Nat /\ newCases \in Nat
    BY EvidenceAssumption
  <2> QED  BY <2>1, <2>2, EvidenceAssumption DEF AtMost, TypeOK, EvidenceType
<1>2. BudgetType'
  <2>1. calls' = <<>> /\ UNCHANGED <<toolCount, toolTotal, failure, refresh, signatures>>
    BY DEF RunTools
  <2>2. DOMAIN calls' = {} /\ IsFiniteSet(DOMAIN calls')
    BY <2>1, FS_EmptySet
  <2> QED  BY <2>1, <2>2 DEF TypeOK, BudgetType
<1>3. HistoryType'
  <2>1. Cardinality(DOMAIN calls) \in Nat
    BY FS_CardinalityType DEF TypeOK, BudgetType
  <2>2. CallsAt(calls, DOMAIN calls) \subseteq Calls
    BY DEF CallsAt, TypeOK, BudgetType
  <2> QED  BY <2>1, <2>2 DEF RunTools, TypeOK, HistoryType
<1>4. FlowType' /\ WorkType' /\ ReworkType'
  BY DEF RunTools, TypeOK, FlowType, WorkType, ReworkType
<1>5. PlanInv'
  BY SamePlan DEF RunTools, AtWork
<1> QED  BY <1>1, <1>2, <1>3, <1>4, <1>5 DEF TypeOK

\* Reporting the current step.
LEMMA SpecialistReportsStep ==
    ASSUME ExecutionInv, SpecialistReports PROVE ExecutionInv'
<1> USE DEF ExecutionInv
<1>1. current \in DOMAIN plan /\ route = AgentOf(plan, current) /\ IsPlan(plan)
  BY DEF SpecialistReports, TypeOK, WorkType, PlanInv, AtWork, WithStatus
<1>2. route \in Agents /\ current \in StepId
  BY <1>1, AgentOfType DEF IsPlan
<1>3. FlowType' /\ BudgetType' /\ EvidenceType' /\ ReworkType'
  BY DEF SpecialistReports, TypeOK, FlowType, BudgetType, EvidenceType, ReworkType
<1>4. WorkType'
  BY <1>2 DEF SpecialistReports, TypeOK, WorkType
<1>5. HistoryType'
  BY <1>2 DEF SpecialistReports, TypeOK, HistoryType
<1>6. PlanInv'
  BY SamePlan DEF SpecialistReports, AtWork
<1> QED  BY <1>3, <1>4, <1>5, <1>6 DEF TypeOK

\* Every step of the workflow preserves ExecutionInv.
LEMMA ExecutionStep == ExecutionInv /\ [Next]_vars => ExecutionInv'
<1> SUFFICES ASSUME ExecutionInv, [Next]_vars PROVE ExecutionInv'
  OBVIOUS
<1> USE DEF ExecutionInv
<1>1. CASE ComplexityRouter
  BY <1>1, ComplexityRouterStep
<1>2. CASE Planner
  BY <1>2, PlannerStep
<1>3. CASE SupervisorRetries
  BY <1>3, SupervisorRetriesStep
<1>4. CASE SupervisorDispatches
  BY <1>4, SupervisorDispatchesStep
<1>5. CASE SupervisorFinishesPlan
  BY <1>5, SupervisorFinishesStep
<1>6. CASE SupervisorWithoutPlan
  <2>1. TypeOK'
    BY <1>6 DEF SupervisorWithoutPlan, TypeOK, FlowType, WorkType, BudgetType, EvidenceType,
                ReworkType, HistoryType
  <2>2. PlanInv'
    BY <1>6, SamePlan DEF SupervisorWithoutPlan
  <2> QED  BY <2>1, <2>2
<1>7. CASE SpecialistCallsTools
  BY <1>7, SpecialistCallsToolsStep
<1>8. CASE SpecialistOverLimit
  BY <1>8, SpecialistOverLimitStep
<1>9. CASE ToolLimitExceeded
  <2>1. TypeOK'
    BY <1>9 DEF ToolLimitExceeded, TypeOK, FlowType, WorkType, BudgetType, EvidenceType,
                ReworkType, HistoryType
  <2>2. PlanInv'
    BY <1>9, SamePlan DEF ToolLimitExceeded, AtWork
  <2> QED  BY <2>1, <2>2
<1>10. CASE RunTools
  BY <1>10, RunToolsStep
<1>11. CASE SpecialistReports
  BY <1>11, SpecialistReportsStep
<1>12. CASE SpecialistIsSilent
  <2>1. TypeOK'
    BY <1>12 DEF SpecialistIsSilent, TypeOK, FlowType, WorkType, BudgetType, EvidenceType,
                 ReworkType, HistoryType
  <2>2. PlanInv'
    BY <1>12, SamePlan DEF SpecialistIsSilent, AtWork
  <2> QED  BY <2>1, <2>2
<1>13. CASE SpecialistRaises
  <2>1. TypeOK'
    BY <1>13 DEF SpecialistRaises, TypeOK, FlowType, WorkType, BudgetType, EvidenceType,
                 ReworkType, HistoryType
  <2>2. PlanInv'
    BY <1>13, SamePlan DEF SpecialistRaises, AtWork
  <2> QED  BY <2>1, <2>2
<1>14. CASE VerifierAccepts \/ RepairRouterSkips
  <2>1. TypeOK'
    BY <1>14 DEF VerifierAccepts, RepairRouterSkips, TypeOK, FlowType, WorkType, BudgetType,
                 EvidenceType, ReworkType, HistoryType
  <2>2. PlanInv'
    BY <1>14 DEF VerifierAccepts, RepairRouterSkips, PlanInv, AtWork, Reviewing
  <2> QED  BY <2>1, <2>2
<1>15. CASE VerifierSendsToRepair
  <2>1. TypeOK'
    BY <1>15 DEF VerifierSendsToRepair, TypeOK, FlowType, WorkType, BudgetType, EvidenceType,
                 ReworkType, HistoryType
  <2>2. PlanInv'
    BY <1>15 DEF VerifierSendsToRepair, PlanInv, AtWork, Reviewing
  <2> QED  BY <2>1, <2>2
<1>16. CASE VerifierReplans
  BY <1>16, VerifierReplansStep
<1>17. CASE RepairRouter
  BY <1>17, RepairRouterStep
<1>18. CASE AnswerGenerator
  <2>1. TypeOK'
    BY <1>18 DEF AnswerGenerator, TypeOK, FlowType, WorkType, BudgetType, EvidenceType,
                 ReworkType, HistoryType
  <2>2. PlanInv'
    BY <1>18 DEF AnswerGenerator, PlanInv, AtWork, Reviewing
  <2> QED  BY <2>1, <2>2
<1>19. CASE UNCHANGED vars
  <2>1. TypeOK'
    BY <1>19 DEF vars, TypeOK, FlowType, WorkType, BudgetType, EvidenceType, ReworkType,
                 HistoryType
  <2>2. PlanInv'
    BY <1>19, SamePlan DEF vars
  <2> QED  BY <2>1, <2>2
<1> QED
  BY <1>1, <1>2, <1>3, <1>4, <1>5, <1>6, <1>7, <1>8, <1>9, <1>10, <1>11, <1>12, <1>13,
     <1>14, <1>15, <1>16, <1>17, <1>18, <1>19 DEF Next, Finished

\* The inductive invariant holds throughout.
LEMMA ExecutionInvariant == Spec => []ExecutionInv
<1>1. Init => ExecutionInv
  BY ExecutionInit
<1>2. ExecutionInv /\ [Next]_vars => ExecutionInv'
  BY ExecutionStep
<1> QED  BY <1>1, <1>2, PTL DEF Spec

\* Every variable keeps its type, for all budgets, plans and queries.
THEOREM TypeCorrect == Spec => []TypeOK
<1>1. ExecutionInv => TypeOK
  BY DEF ExecutionInv
<1> QED  BY <1>1, ExecutionInvariant, PTL

\* However plans are repaired and re-planned, the Supervisor has at most one
\* step at work, and it is the one whose specialist the graph runs.
THEOREM OneStepAtATimeHolds == Spec => []OneStepAtATime
<1>1. ExecutionInv => OneStepAtATime
  BY DEF ExecutionInv, PlanInv, OneStepAtATime, AtWork
<1> QED  BY <1>1, ExecutionInvariant, PTL

\* The verifier, the Repair Router and the answer never see a plan with a step
\* that was not tried.
THEOREM SettledBeforeVerificationHolds == Spec => []SettledBeforeVerification
<1>1. ExecutionInv => SettledBeforeVerification
  BY DEF ExecutionInv, PlanInv, SettledBeforeVerification, Reviewing
<1> QED  BY <1>1, ExecutionInvariant, PTL

-----------------------------------------------------------------------------
(* The tool budgets.  RequestToolBudget bounds what the tool nodes have    *)
(* run; calls that are granted but not run yet have to be counted in, and  *)
(* only a tool node may have such calls.                                   *)

BudgetInv ==
    /\ toolTotal = toolRuns + Cardinality(DOMAIN calls)
    /\ toolTotal <= MAX_TOOL_CALLS_PER_REQUEST
    /\ toolCount <= MAX_TOOL_CALLS_PER_AGENT
    /\ pc # "tools" => DOMAIN calls = {}

\* A grant never exceeds what the step's and the request's budgets leave.
LEMMA GrantedWithinBudgets ==
    ASSUME TypeOK, NEW agent \in Agents, NEW request \in Requests(agent),
           NEW granted \in Granted(request)
    PROVE  /\ IsFiniteSet(granted) /\ Cardinality(granted) \in Nat
           /\ toolCount + Cardinality(granted) <= MAX_TOOL_CALLS_PER_AGENT
           /\ toolTotal + Cardinality(granted) <= MAX_TOOL_CALLS_PER_REQUEST
<1>1. granted \in SUBSET Admissible(request)
  BY DEF Granted
<1>2. IsFiniteSet(granted) /\ Cardinality(granted) \in Nat
  BY <1>1, GrantedType
<1>3. toolCount \in Nat /\ toolTotal \in Nat
  BY DEF TypeOK, BudgetType
<1>4. /\ MAX_TOOL_CALLS_PER_AGENT - toolCount \in Int
      /\ MAX_TOOL_CALLS_PER_REQUEST - toolTotal \in Int
  BY <1>3, BudgetAssumption
<1>5. /\ Remaining \in Int
      /\ Remaining <= MAX_TOOL_CALLS_PER_AGENT - toolCount
      /\ Remaining <= MAX_TOOL_CALLS_PER_REQUEST - toolTotal
  BY <1>4 DEF Remaining
<1>6. Cardinality(granted) <= Remaining
  BY <1>2, <1>5 DEF Granted
<1> QED  BY <1>2, <1>3, <1>5, <1>6, BudgetAssumption

\* A turn that leaves the calls and both counters alone, or resets the step's.
LEMMA SameBudget ==
    ASSUME BudgetInv, UNCHANGED <<calls, toolTotal, toolRuns>>,
           toolCount' \in {0, toolCount},
           pc = "tools" => pc' = "tools"
    PROVE  BudgetInv'
BY BudgetAssumption DEF BudgetInv

\* Granting tool calls stays within the budgets, and running them is counted.
LEMMA BudgetStep == ExecutionInv /\ BudgetInv /\ [Next]_vars => BudgetInv'
<1> SUFFICES ASSUME ExecutionInv, BudgetInv, [Next]_vars PROVE BudgetInv'
  OBVIOUS
<1> USE DEF ExecutionInv
<1>1. CASE SpecialistCallsTools
  <2>1. route \in Agents
    BY <1>1, AgentOfType DEF SpecialistCallsTools, TypeOK, WorkType, PlanInv, AtWork, WithStatus
  <2>2. PICK request \in Requests(route) :
          \E granted \in Granted(request) :
              /\ toolCount' = toolCount + Cardinality(granted)
              /\ toolTotal' = toolTotal + Cardinality(granted)
              /\ calls' = [i \in granted |-> request[i]]
    BY <1>1 DEF SpecialistCallsTools
  <2>3. PICK granted \in Granted(request) :
          /\ toolCount' = toolCount + Cardinality(granted)
          /\ toolTotal' = toolTotal + Cardinality(granted)
          /\ calls' = [i \in granted |-> request[i]]
    BY <2>2
  <2>4. /\ toolCount + Cardinality(granted) <= MAX_TOOL_CALLS_PER_AGENT
        /\ toolTotal + Cardinality(granted) <= MAX_TOOL_CALLS_PER_REQUEST
    BY <2>1, GrantedWithinBudgets
  <2>5. toolTotal = toolRuns
    <3>1. DOMAIN calls = {} /\ toolTotal = toolRuns + Cardinality(DOMAIN calls)
      BY <1>1 DEF SpecialistCallsTools, BudgetInv
    <3>2. Cardinality(DOMAIN calls) = 0
      BY <3>1, FS_EmptySet
    <3> QED  BY <3>1, <3>2 DEF TypeOK, HistoryType
  <2>6. DOMAIN calls' = granted /\ toolRuns' = toolRuns /\ pc' = "tools"
    BY <1>1, <2>3 DEF SpecialistCallsTools
  <2> QED  BY <2>3, <2>4, <2>5, <2>6 DEF BudgetInv
<1>2. CASE RunTools
  <2>1. /\ calls' = <<>> /\ toolRuns' = toolRuns + Cardinality(DOMAIN calls)
        /\ UNCHANGED <<toolCount, toolTotal>>
    BY <1>2 DEF RunTools
  <2>2. DOMAIN calls' = {}
    BY <2>1
  <2>3. Cardinality(DOMAIN calls') = 0
    BY <2>2, FS_EmptySet
  <2>4. toolTotal \in Nat /\ toolRuns \in Nat /\ Cardinality(DOMAIN calls) \in Nat
    BY FS_CardinalityType DEF TypeOK, BudgetType, HistoryType
  <2> QED  BY <2>1, <2>2, <2>3, <2>4 DEF BudgetInv
<1>3. CASE \/ ComplexityRouter \/ Planner \/ SupervisorRetries \/ SupervisorDispatches
           \/ SupervisorFinishesPlan \/ SupervisorWithoutPlan
  BY <1>3, SameBudget
     DEF ComplexityRouter, Planner, SupervisorRetries, SupervisorDispatches,
         SupervisorFinishesPlan, SupervisorWithoutPlan
<1>4. CASE \/ SpecialistOverLimit \/ ToolLimitExceeded \/ SpecialistReports
           \/ SpecialistIsSilent \/ SpecialistRaises
  BY <1>4, SameBudget
     DEF SpecialistOverLimit, ToolLimitExceeded, SpecialistReports, SpecialistIsSilent,
         SpecialistRaises
<1>5. CASE VerifierAccepts \/ VerifierSendsToRepair \/ VerifierReplans
  BY <1>5, SameBudget
     DEF VerifierAccepts, VerifierSendsToRepair, VerifierReplans, retry_updates
<1>6. CASE RepairRouterSkips \/ RepairRouter \/ AnswerGenerator
  BY <1>6, SameBudget DEF RepairRouterSkips, RepairRouter, repair_updates, AnswerGenerator
<1>7. CASE UNCHANGED vars
  BY <1>7, SameBudget DEF vars
<1> QED
  BY <1>1, <1>2, <1>3, <1>4, <1>5, <1>6, <1>7 DEF Next, Finished

\* The budgets' inductive invariant holds throughout.
LEMMA BudgetInvariant == Spec => []BudgetInv
<1>1. Init => BudgetInv
  <2> SUFFICES ASSUME Init PROVE BudgetInv
    OBVIOUS
  <2>1. DOMAIN calls = {} /\ toolTotal = 0 /\ toolRuns = 0 /\ toolCount = 0
    BY DEF Init
  <2>2. Cardinality(DOMAIN calls) = 0
    BY <2>1, FS_EmptySet
  <2> QED  BY <2>1, <2>2, BudgetAssumption DEF BudgetInv
<1>2. ExecutionInv /\ BudgetInv /\ [Next]_vars => BudgetInv'
  BY BudgetStep
<1> QED  BY <1>1, <1>2, ExecutionInvariant, PTL DEF Spec

\* No request runs more tools than its budget allows, whatever the number of
\* retries, repairs and re-plans and however many tools a response asks for.
THEOREM RequestToolBudgetHolds == Spec => []RequestToolBudget
<1>1. ExecutionInv /\ BudgetInv => RequestToolBudget
  <2> SUFFICES ASSUME ExecutionInv, BudgetInv PROVE RequestToolBudget
    OBVIOUS
  <2>1. toolRuns \in Nat /\ Cardinality(DOMAIN calls) \in Nat
    BY FS_CardinalityType DEF ExecutionInv, TypeOK, BudgetType, HistoryType
  <2> QED  BY <2>1, BudgetAssumption DEF BudgetInv, RequestToolBudget
<1> QED  BY <1>1, ExecutionInvariant, BudgetInvariant, PTL

-----------------------------------------------------------------------------
(* The answer.  The graph ends without one exactly when the Supervisor is  *)
(* left without a plan, and the planner leaves it so when the route names  *)
(* no specialist.  A route that names none is one nothing was done for yet:*)
(* from then on routes are the Supervisor's or the verifier's.             *)

Unworked == replans = 0 /\ reports = {} /\ toolTotal = 0 /\ mode = "plan"

AnswerInv ==
    /\ pc = "end" => finalized \/ Unworked
    /\ pc = "complexity_router" => Unworked
    /\ pc = "planner" => finalized \/ route \in Agents \cup {"replan"} \/ Unworked
    /\ pc = "supervisor" => finalized \/ DOMAIN plan # {} \/ Unworked

\* A turn at work or under review has a plan.
LEMMA WorkHasPlan ==
    ASSUME ExecutionInv, pc \in AtWork \cup Reviewing PROVE IsPlan(plan) /\ DOMAIN plan # {}
<1>1. IsPlan(plan)
  BY DEF ExecutionInv, TypeOK, WorkType
<1>2. CASE pc \in AtWork
  BY <1>1, <1>2 DEF ExecutionInv, PlanInv, WithStatus
<1>3. CASE pc \in Reviewing
  BY <1>1, <1>3, NoPlanIsPlan DEF ExecutionInv, PlanInv
<1> QED  BY <1>1, <1>2, <1>3

\* Every step keeps a request that is not answered yet on a path to an answer.
LEMMA AnswerStep == ExecutionInv /\ AnswerInv /\ [Next]_vars => AnswerInv'
<1> SUFFICES ASSUME ExecutionInv, AnswerInv, [Next]_vars PROVE AnswerInv'
  OBVIOUS
<1>0. IsPlan(plan)
  BY DEF ExecutionInv, TypeOK, WorkType
<1>1. CASE ComplexityRouter
  <2>1. CASE finalized
    BY <1>1, <2>1 DEF ComplexityRouter, AnswerInv, rework, budget, Unworked
  <2>2. CASE plan' = merge_plan_steps(plan, SimplePlan) /\ pc' = "supervisor"
    <3>1. IsTaskList(<<STATUTE_RETRIEVAL, LEGAL_CONSULTATION>>)
      <4>1. <<STATUTE_RETRIEVAL, LEGAL_CONSULTATION>> \in [1 .. 2 -> TaskType]
        BY DEF TaskType
      <4> QED  BY <4>1 DEF IsTaskList
    <3>2. IsPlan(SimplePlan)
      BY <3>1, PlanOfIsPlan DEF SimplePlan
    <3>3. <<"step", 1>> \in DOMAIN SimplePlan
      BY DEF SimplePlan, PlanOf
    <3>4. DOMAIN plan' = DOMAIN plan \cup DOMAIN SimplePlan
      BY <1>0, <2>2, <3>2, <3>3, MergeIsPlan
    <3> QED  BY <2>2, <3>3, <3>4 DEF AnswerInv
  <2>3. CASE pc' = "planner"
    BY <1>1, <2>3 DEF ComplexityRouter, AnswerInv, rework, budget, Unworked
  <2> QED  BY <1>1, <2>1, <2>2, <2>3 DEF ComplexityRouter
<1>2. CASE Planner
  <2>1. CASE PlannerSkips
    <3>1. finalized \/ Unworked
      BY <1>2, <2>1 DEF Planner, PlannerSkips, AnswerInv, Agents
    <3> QED  BY <1>2, <3>1 DEF Planner, AnswerInv, rework, budget, Unworked
  <2>2. CASE ~PlannerSkips
    <3>1. PICK tasks \in NormalizedTaskLists(needsCase) :
            plan' = merge_plan_steps(plan, PlanOf(tasks))
      BY <1>2, <2>2 DEF Planner
    <3>2. IsPlan(PlanOf(tasks)) /\ DOMAIN PlanOf(tasks) # {}
      BY TaskListType, PlanOfIsPlan
    <3>3. DOMAIN plan' = DOMAIN plan \cup DOMAIN PlanOf(tasks)
      BY <1>0, <3>1, <3>2, MergeIsPlan
    <3> QED  BY <1>2, <3>2, <3>3 DEF Planner, AnswerInv
  <2> QED  BY <2>1, <2>2
<1>3. CASE \/ SupervisorRetries \/ SupervisorDispatches \/ SupervisorFinishesPlan
           \/ SpecialistCallsTools \/ SpecialistOverLimit \/ SpecialistRaises
           \/ RunTools \/ VerifierAccepts \/ VerifierSendsToRepair \/ RepairRouterSkips
  BY <1>3 DEF SupervisorRetries, SupervisorDispatches, SupervisorFinishesPlan,
              SpecialistCallsTools, SpecialistOverLimit, SpecialistRaises, RunTools,
              VerifierAccepts, VerifierSendsToRepair, RepairRouterSkips, AnswerInv
<1>4. CASE SupervisorWithoutPlan
  BY <1>4, NoPlanIsPlan DEF SupervisorWithoutPlan, AnswerInv, work, budget, rework, Unworked
<1>5. CASE ToolLimitExceeded \/ SpecialistReports \/ SpecialistIsSilent
  <2>1. DOMAIN plan # {}
    BY <1>5, WorkHasPlan DEF ToolLimitExceeded, SpecialistReports, SpecialistIsSilent, AtWork
  <2> QED  BY <1>5, <2>1
              DEF ToolLimitExceeded, SpecialistReports, SpecialistIsSilent, AnswerInv
<1>6. CASE VerifierReplans
  BY <1>6 DEF VerifierReplans, AnswerInv
<1>7. CASE RepairRouter
  <2>1. DOMAIN plan # {}
    BY <1>7, WorkHasPlan DEF RepairRouter, Reviewing
  <2>2. PICK added \in InjectiveLists(MissingTargets, Cardinality(MissingTargets)) :
          plan' = merge_plan_steps(plan, plan_repair(plan, targets, added))
    BY <1>7 DEF RepairRouter, repair_updates
  <2>3. IsTaskList(added)
    BY MissingTargetsType, AddedType DEF ExecutionInv
  <2>4. /\ IsPlan(plan_repair(plan, targets, added))
        /\ DOMAIN plan \subseteq DOMAIN plan_repair(plan, targets, added)
    BY <1>0, <2>3, RepairIsPlan
  <2>5. DOMAIN plan' = DOMAIN plan \cup DOMAIN plan_repair(plan, targets, added)
    BY <1>0, <2>1, <2>2, <2>4, MergeIsPlan
  <2> QED  BY <1>7, <2>1, <2>5 DEF RepairRouter, AnswerInv
<1>8. CASE AnswerGenerator
  BY <1>8 DEF AnswerGenerator, AnswerInv
<1>9. CASE UNCHANGED vars
  BY <1>9 DEF vars, flow, work, budget, rework, AnswerInv, Unworked
<1> QED
  BY <1>1, <1>2, <1>3, <1>4, <1>5, <1>6, <1>7, <1>8, <1>9 DEF Next, Finished

\* Whatever the intent router chose: a request the graph has worked on (a report,
\* a tool call, a re-plan, or the simple plan) leaves it with an answer or an
\* error; only one that the planner skipped at once can end without.
THEOREM WorkedRequestsAreAnsweredHolds == Spec => []WorkedRequestsAreAnswered
<1>1. Init => AnswerInv
  BY DEF Init, AnswerInv, Unworked
<1>2. ExecutionInv /\ AnswerInv /\ [Next]_vars => AnswerInv'
  BY AnswerStep
<1>3. AnswerInv => WorkedRequestsAreAnswered
  BY DEF AnswerInv, Unworked, WorkedRequestsAreAnswered
<1> QED  BY <1>1, <1>2, <1>3, ExecutionInvariant, PTL DEF Spec

-----------------------------------------------------------------------------
(* The workflow implements the request's contract.  Beyond the budgets the *)
(* refinement needs that a request without a plan has spent nothing, that  *)
(* an answered one is not worked on, and that a repair has a target.       *)

Untouched == repairs = 0 /\ replans = 0 /\ toolTotal = 0

ContractInv ==
    /\ repairs <= MAX_REPAIR_ROUNDS
    /\ replans <= MAX_AGENT_REPLAN_RETRIES
    /\ pc = "complexity_router" => Untouched
    /\ pc = "planner" => Untouched \/ (~finalized /\ route = "replan")
    /\ pc = "supervisor" /\ DOMAIN plan = {} => Untouched
    /\ finalized /\ pc # "end" =>
          /\ pc \in {"complexity_router", "planner", "supervisor"}
          /\ DOMAIN plan = {}
    /\ pc = "repair_router" => targets # {}

\* Every step preserves ContractInv.
LEMMA ContractStep == ExecutionInv /\ ContractInv /\ [Next]_vars => ContractInv'
<1> SUFFICES ASSUME ExecutionInv, ContractInv, [Next]_vars PROVE ContractInv'
  OBVIOUS
<1>0. IsPlan(plan) /\ finalized \in BOOLEAN /\ repairs \in Nat /\ replans \in Nat
  BY DEF ExecutionInv, TypeOK, FlowType, WorkType, ReworkType
<1>1. CASE ComplexityRouter
  <2>1. Untouched /\ UNCHANGED <<repairs, replans, toolTotal, finalized>>
    BY <1>1 DEF ComplexityRouter, ContractInv
  <2>2. Untouched'
    BY <2>1 DEF Untouched
  <2>3. repairs' <= MAX_REPAIR_ROUNDS /\ replans' <= MAX_AGENT_REPLAN_RETRIES
    BY <2>1 DEF ContractInv
  <2>4. CASE finalized
    <3>1. DOMAIN plan = {} /\ plan' = plan /\ pc' = "planner"
      BY <1>1, <2>4 DEF ComplexityRouter, ContractInv
    <3> QED  BY <2>2, <2>3, <3>1 DEF ContractInv
  <2>5. CASE ~finalized
    <3>1. pc' \in {"planner", "supervisor"}
      BY <1>1 DEF ComplexityRouter
    <3>2. ~finalized'
      BY <2>1, <2>5
    <3> QED  BY <2>2, <2>3, <3>1, <3>2 DEF ContractInv
  <2> QED  BY <2>4, <2>5
<1>2. CASE Planner
  <2>1. CASE PlannerSkips
    <3>1. plan' = NoPlan /\ Untouched
      BY <1>2, <2>1 DEF Planner, PlannerSkips, merge_plan_steps, ContractInv
    <3> QED  BY <1>2, <3>1, NoPlanIsPlan DEF Planner, ContractInv, Untouched
  <2>2. CASE ~PlannerSkips
    <3>1. PICK tasks \in NormalizedTaskLists(needsCase) :
            plan' = merge_plan_steps(plan, PlanOf(tasks))
      BY <1>2, <2>2 DEF Planner
    <3>2. IsPlan(PlanOf(tasks)) /\ DOMAIN PlanOf(tasks) # {}
      BY TaskListType, PlanOfIsPlan
    <3>3. DOMAIN plan' = DOMAIN plan \cup DOMAIN PlanOf(tasks)
      BY <1>0, <3>1, <3>2, MergeIsPlan
    <3>4. ~finalized
      BY <2>2 DEF PlannerSkips
    <3> QED  BY <1>2, <3>2, <3>3, <3>4 DEF Planner, ContractInv, Untouched
  <2> QED  BY <2>1, <2>2
<1>3. CASE SupervisorRetries \/ SupervisorDispatches \/ SupervisorFinishesPlan
  <2>1. DOMAIN plan # {}
    BY <1>0, <1>3, NoPlanIsPlan
       DEF SupervisorRetries, SupervisorDispatches, SupervisorFinishesPlan, Running, WithStatus
  <2>2. ~finalized
    BY <1>3, <2>1 DEF SupervisorRetries, SupervisorDispatches, SupervisorFinishesPlan, ContractInv
  <2> QED  BY <1>3, <2>2
              DEF SupervisorRetries, SupervisorDispatches, SupervisorFinishesPlan, ContractInv
<1>4. CASE SupervisorWithoutPlan
  BY <1>4 DEF SupervisorWithoutPlan, ContractInv
<1>5. CASE \/ SpecialistCallsTools \/ SpecialistOverLimit \/ ToolLimitExceeded \/ RunTools
           \/ SpecialistReports \/ SpecialistIsSilent \/ SpecialistRaises
  <2>1. pc \in AtWork
    BY <1>5 DEF SpecialistCallsTools, SpecialistOverLimit, ToolLimitExceeded, RunTools,
                SpecialistReports, SpecialistIsSilent, SpecialistRaises, AtWork
  <2>2. DOMAIN plan # {}
    BY <2>1, WorkHasPlan
  <2>3. ~finalized
    BY <2>1 DEF ContractInv, AtWork
  <2> QED  BY <1>5, <2>2, <2>3
              DEF SpecialistCallsTools, SpecialistOverLimit, ToolLimitExceeded, RunTools,
                  SpecialistReports, SpecialistIsSilent, SpecialistRaises, ContractInv
<1>6. CASE VerifierAccepts \/ VerifierSendsToRepair \/ VerifierReplans
  <2>1. ~finalized
    BY <1>6 DEF VerifierAccepts, VerifierSendsToRepair, VerifierReplans, ContractInv
  <2>2. repairs' <= MAX_REPAIR_ROUNDS /\ replans' <= MAX_AGENT_REPLAN_RETRIES
    BY <1>0, <1>6, BudgetAssumption
       DEF VerifierAccepts, VerifierSendsToRepair, VerifierReplans, MayReplan, ContractInv
  <2>3. ~finalized'
    BY <1>6, <2>1 DEF VerifierAccepts, VerifierSendsToRepair, VerifierReplans
  <2>4. CASE VerifierAccepts
    BY <2>2, <2>3, <2>4 DEF VerifierAccepts, ContractInv
  <2>5. CASE VerifierSendsToRepair
    <3>1. targets' # {} /\ pc' = "repair_router"
      BY <2>5 DEF VerifierSendsToRepair
    <3> QED  BY <2>2, <2>3, <3>1 DEF ContractInv
  <2>6. CASE VerifierReplans
    <3>1. route' = "replan" /\ pc' = "planner"
      BY <2>6 DEF VerifierReplans
    <3> QED  BY <2>2, <2>3, <3>1 DEF ContractInv
  <2> QED  BY <1>6, <2>4, <2>5, <2>6
<1>7. CASE RepairRouterSkips
  BY <1>7 DEF RepairRouterSkips, ContractInv
<1>8. CASE RepairRouter
  <2>1. DOMAIN plan # {}
    BY <1>8, WorkHasPlan DEF RepairRouter, Reviewing
  <2>2. PICK added \in InjectiveLists(MissingTargets, Cardinality(MissingTargets)) :
          plan' = merge_plan_steps(plan, plan_repair(plan, targets, added))
    BY <1>8 DEF RepairRouter, repair_updates
  <2>3. IsTaskList(added)
    BY MissingTargetsType, AddedType DEF ExecutionInv
  <2>4. /\ IsPlan(plan_repair(plan, targets, added))
        /\ DOMAIN plan \subseteq DOMAIN plan_repair(plan, targets, added)
    BY <1>0, <2>3, RepairIsPlan
  <2>5. DOMAIN plan' = DOMAIN plan \cup DOMAIN plan_repair(plan, targets, added)
    BY <1>0, <2>1, <2>2, <2>4, MergeIsPlan
  <2>6. ~finalized
    BY <1>8 DEF RepairRouter, ContractInv
  <2> QED  BY <1>8, <2>1, <2>5, <2>6 DEF RepairRouter, ContractInv
<1>9. CASE AnswerGenerator
  BY <1>9 DEF AnswerGenerator, ContractInv
<1>10. CASE UNCHANGED vars
  BY <1>10 DEF vars, ContractInv, Untouched
<1> QED
  BY <1>1, <1>2, <1>3, <1>4, <1>5, <1>6, <1>7, <1>8, <1>9, <1>10 DEF Next, Finished

\* A specialist that calls tools is granted one call at least.
LEMMA GrantIsNotEmpty ==
    ASSUME TypeOK, NEW agent \in Agents, NEW request \in Requests(agent),
           ~SoftStopped(request), toolCount < MAX_TOOL_CALLS_PER_AGENT,
           NEW granted \in Granted(request)
    PROVE  Cardinality(granted) >= 1
<1>1. granted \in SUBSET Admissible(request)
  BY DEF Granted
<1>2. IsFiniteSet(granted) /\ Cardinality(granted) \in Nat
  BY <1>1, GrantedType
<1>3. toolCount \in Nat /\ toolTotal \in Nat /\ toolTotal < MAX_TOOL_CALLS_PER_REQUEST
  BY BudgetAssumption DEF TypeOK, BudgetType, SoftStopped
<1>4. Remaining \in Nat /\ Remaining >= 1
  BY <1>3, BudgetAssumption DEF Remaining
<1>5. Admissible(request) # {}
  <2>1. CASE refresh
    BY <2>1, RequestType DEF Admissible
  <2>2. CASE ~refresh
    BY <2>2 DEF Admissible, SoftStopped
  <2> QED  BY <2>1, <2>2
<1>6. CASE granted = Admissible(request)
  <2>1. Cardinality(granted) # 0
    BY <1>2, <1>5, <1>6, FS_EmptySet
  <2> QED  BY <1>2, <2>1
<1>7. CASE Cardinality(granted) = Remaining
  BY <1>4, <1>7
<1> QED  BY <1>6, <1>7 DEF Granted

\* Every step of the workflow is a step of the contract or leaves it unchanged.
LEMMA ContractRefined ==
    ExecutionInv /\ BudgetInv /\ ContractInv /\ BudgetInv' /\ ContractInv' /\ [Next]_vars
        => [Contract!CNext]_(Contract!cvars)
<1> SUFFICES ASSUME ExecutionInv, BudgetInv, ContractInv, BudgetInv', ContractInv', [Next]_vars
             PROVE  [Contract!CNext]_(Contract!cvars)
  OBVIOUS
<1>0. /\ repairs \in Nat /\ replans \in Nat /\ toolTotal \in Nat
      /\ toolTotal <= MAX_TOOL_CALLS_PER_REQUEST
  BY DEF ExecutionInv, TypeOK, BudgetType, ReworkType, BudgetInv
<1> USE DEF Contract!CNext, Contract!cvars
<1>1. CASE \/ ComplexityRouter \/ Planner \/ SupervisorRetries \/ SupervisorDispatches
           \/ SpecialistOverLimit \/ ToolLimitExceeded \/ RunTools
           \/ SpecialistReports \/ SpecialistIsSilent
  <2>1. UNCHANGED <<repairs, replans, toolTotal>>
    BY <1>1 DEF ComplexityRouter, Planner, SupervisorRetries, SupervisorDispatches,
                SpecialistOverLimit, ToolLimitExceeded, RunTools, SpecialistReports,
                SpecialistIsSilent
  <2>2. /\ pc \in {"complexity_router", "planner", "supervisor"} \cup AtWork
        /\ pc' \in {"complexity_router", "planner", "supervisor"} \cup AtWork
    BY <1>1 DEF ComplexityRouter, Planner, SupervisorRetries, SupervisorDispatches,
                SpecialistOverLimit, ToolLimitExceeded, RunTools, SpecialistReports,
                SpecialistIsSilent, AtWork
  <2>3. Phase = "work" /\ Phase' = "work"
    BY <2>2 DEF Phase, AtWork
  <2> QED  BY <2>1, <2>3
<1>2. CASE SupervisorFinishesPlan
  <2>1. Phase = "work" /\ Phase' = "review"
    BY <1>2 DEF SupervisorFinishesPlan, Phase
  <2>2. UNCHANGED <<repairs, replans, toolTotal>>
    BY <1>2 DEF SupervisorFinishesPlan
  <2> QED  BY <2>1, <2>2 DEF Contract!Submit
<1>3. CASE SupervisorWithoutPlan
  <2>1. Phase = "work" /\ Phase' = "answered"
    BY <1>3 DEF SupervisorWithoutPlan, Phase
  <2>2. UNCHANGED <<repairs, replans, toolTotal>> /\ Untouched
    BY <1>3, NoPlanIsPlan DEF SupervisorWithoutPlan, ContractInv
  <2> QED  BY <2>1, <2>2 DEF Contract!AnswerWithoutWork, Untouched
<1>4. CASE SpecialistCallsTools
  <2>1. Phase = "work" /\ Phase' = "work"
    BY <1>4 DEF SpecialistCallsTools, Phase
  <2>2. UNCHANGED <<repairs, replans>>
    BY <1>4 DEF SpecialistCallsTools
  <2>3. toolTotal' \in toolTotal + 1 .. MAX_TOOL_CALLS_PER_REQUEST
    <3>1. route \in Agents
      BY <1>4, AgentOfType
         DEF ExecutionInv, SpecialistCallsTools, TypeOK, WorkType, PlanInv, AtWork, WithStatus
    <3>2. PICK request \in Requests(route) :
            /\ ~SoftStopped(request)
            /\ \E granted \in Granted(request) : toolTotal' = toolTotal + Cardinality(granted)
      BY <1>4 DEF SpecialistCallsTools
    <3>3. PICK granted \in Granted(request) : toolTotal' = toolTotal + Cardinality(granted)
      BY <3>2
    <3>4. Cardinality(granted) \in Nat
      BY <3>1, GrantedWithinBudgets DEF ExecutionInv
    <3>5. Cardinality(granted) >= 1
      BY <1>4, <3>1, <3>2, GrantIsNotEmpty DEF ExecutionInv, SpecialistCallsTools
    <3>6. toolTotal' <= MAX_TOOL_CALLS_PER_REQUEST
      BY DEF BudgetInv
    <3> QED  BY <1>0, <3>3, <3>4, <3>5, <3>6, BudgetAssumption
  <2> QED  BY <2>1, <2>2, <2>3 DEF Contract!Spend
<1>5. CASE SpecialistRaises
  <2>1. Phase = "work" /\ Phase' = "aborted"
    BY <1>5 DEF SpecialistRaises, Phase
  <2>2. UNCHANGED <<repairs, replans, toolTotal>>
    BY <1>5 DEF SpecialistRaises
  <2> QED  BY <2>1, <2>2 DEF Contract!Abort
<1>6. CASE VerifierAccepts
  <2>1. Phase = "review" /\ Phase' = "review"
    BY <1>6 DEF VerifierAccepts, Phase
  <2>2. UNCHANGED <<repairs, replans, toolTotal>>
    BY <1>6 DEF VerifierAccepts
  <2> QED  BY <2>1, <2>2
<1>7. CASE VerifierSendsToRepair
  <2>1. Phase = "review" /\ Phase' = "rework"
    BY <1>7 DEF VerifierSendsToRepair, Phase
  <2>2. repairs' = repairs + 1 /\ UNCHANGED <<replans, toolTotal>>
    BY <1>7 DEF VerifierSendsToRepair
  <2>3. repairs + replans < MAX_REPAIR_ROUNDS + MAX_AGENT_REPLAN_RETRIES
    BY <1>0, <1>7, BudgetAssumption DEF VerifierSendsToRepair, ContractInv
  <2>4. repairs' + replans' = repairs + replans + 1
    BY <1>0, <2>2
  <2> QED  BY <2>1, <2>2, <2>3, <2>4 DEF Contract!GrantRework
<1>8. CASE VerifierReplans
  <2>1. Phase = "review" /\ Phase' = "work"
    BY <1>8 DEF VerifierReplans, Phase
  <2>2. replans' = replans + 1 /\ UNCHANGED <<repairs, toolTotal>>
    BY <1>8 DEF VerifierReplans, retry_updates
  <2>3. repairs + replans < MAX_REPAIR_ROUNDS + MAX_AGENT_REPLAN_RETRIES
    BY <1>0, <1>8, BudgetAssumption DEF VerifierReplans, MayReplan, ContractInv
  <2>4. repairs' + replans' = repairs + replans + 1
    BY <1>0, <2>2
  <2> QED  BY <2>1, <2>2, <2>3, <2>4 DEF Contract!GrantRework
<1>9. CASE RepairRouterSkips
  <2>1. Phase = "rework" /\ Phase' = "review"
    BY <1>9 DEF RepairRouterSkips, Phase
  <2>2. UNCHANGED <<repairs, replans, toolTotal>>
    BY <1>9 DEF RepairRouterSkips
  <2>3. toolTotal >= MAX_TOOL_CALLS_PER_REQUEST
    BY <1>0, <1>9, BudgetAssumption DEF RepairRouterSkips, RepairBlocked, ContractInv
  <2>4. toolTotal = MAX_TOOL_CALLS_PER_REQUEST
    BY <1>0, <2>3, BudgetAssumption
  <2> QED  BY <2>1, <2>2, <2>4 DEF Contract!GiveUpRepair
<1>10. CASE RepairRouter
  <2>1. Phase = "rework" /\ Phase' = "work"
    BY <1>10 DEF RepairRouter, Phase
  <2>2. UNCHANGED <<repairs, replans, toolTotal>>
    BY <1>10 DEF RepairRouter, repair_updates
  <2>3. toolTotal < MAX_TOOL_CALLS_PER_REQUEST
    BY <1>0, <1>10, BudgetAssumption DEF RepairRouter, RepairBlocked
  <2> QED  BY <2>1, <2>2, <2>3 DEF Contract!StartRepair
<1>11. CASE AnswerGenerator
  <2>1. Phase = "review" /\ Phase' = "answered"
    BY <1>11 DEF AnswerGenerator, Phase
  <2>2. UNCHANGED <<repairs, replans, toolTotal>>
    BY <1>11 DEF AnswerGenerator
  <2> QED  BY <2>1, <2>2 DEF Contract!Answer
<1>12. CASE UNCHANGED vars
  <2>1. UNCHANGED <<pc, repairs, replans, toolTotal>>
    BY <1>12 DEF vars
  <2>2. Phase' = Phase
    BY <2>1 DEF Phase
  <2> QED  BY <2>1, <2>2
<1> QED
  BY <1>1, <1>2, <1>3, <1>4, <1>5, <1>6, <1>7, <1>8, <1>9, <1>10, <1>11, <1>12
     DEF Next, Finished

\* The workflow implements the request's contract: work under one budget, at
\* most MAX_REPAIR_ROUNDS + MAX_AGENT_REPLAN_RETRIES further rounds, a repair
\* only on unspent budget, and an answer only after a review or without work.
THEOREM ContractHolds == Spec => ImplementsContract
<1>1. Init => Contract!CInit
  BY DEF Init, Contract!CInit, Phase
<1>2. Init => ContractInv
  <2> SUFFICES ASSUME Init PROVE ContractInv
    OBVIOUS
  <2>1. DOMAIN plan = {}
    BY NoPlanIsPlan DEF Init
  <2> QED  BY <2>1, BudgetAssumption DEF Init, ContractInv, Untouched
<1>3. ExecutionInv /\ ContractInv /\ [Next]_vars => ContractInv'
  BY ContractStep
<1>4. ExecutionInv /\ BudgetInv /\ ContractInv /\ BudgetInv' /\ ContractInv' /\ [Next]_vars
        => [Contract!CNext]_(Contract!cvars)
  BY ContractRefined
<1> QED
  BY <1>1, <1>2, <1>3, <1>4, ExecutionInvariant, BudgetInvariant, PTL
     DEF Spec, ImplementsContract, Contract!CSpec

-----------------------------------------------------------------------------
(* No query twice.  NoQueryRepeated compares the calls about to run with    *)
(* the queries that ran; what the specialists look at when they choose the  *)
(* calls are the recorded signatures, which include both.                   *)

QueryInv ==
    /\ NoQueryRepeated
    /\ executed \subseteq signatures
    /\ CallsAt(calls, DOMAIN calls) \subseteq signatures

\* The fresh calls of a response are distinct, and none has a recorded signature.
LEMMA FreshCallsAreNew ==
    ASSUME NEW agent \in Agents, NEW request \in Requests(agent)
    PROVE  /\ \A i \in FreshCalls(request) : request[i] \notin signatures
           /\ \A i, j \in FreshCalls(request) : i # j => request[i] # request[j]
<1>1. \A i \in DOMAIN request : i \in Nat /\ i >= 1
  <2>1. PICK n \in Nat \ {0} : request \in [1 .. n -> ToolsOf[agent] \X Queries]
    BY EvidenceAssumption DEF Requests
  <2> QED  BY <2>1
<1>2. ASSUME NEW i \in FreshCalls(request), NEW j \in FreshCalls(request), i < j
      PROVE  request[i] # request[j]
  <2>1. i \in 1 .. j - 1
    BY <1>1, <1>2 DEF FreshCalls
  <2> QED  BY <2>1 DEF FreshCalls
<1>3. \A i, j \in FreshCalls(request) : i # j => i < j \/ j < i
  BY <1>1 DEF FreshCalls
<1> QED  BY <1>2, <1>3 DEF FreshCalls

\* What a specialist is granted is recorded, and new unless a repair lets it
\* ask again.
LEMMA QueryStep == ExecutionInv /\ QueryInv /\ [Next]_vars => QueryInv'
<1> SUFFICES ASSUME ExecutionInv, QueryInv, [Next]_vars PROVE QueryInv'
  OBVIOUS
<1>1. CASE SpecialistCallsTools
  <2>1. route \in Agents
    BY <1>1, AgentOfType
       DEF SpecialistCallsTools, ExecutionInv, TypeOK, WorkType, PlanInv, AtWork, WithStatus
  <2>2. PICK request \in Requests(route) :
          \E granted \in Granted(request) :
              /\ signatures' = signatures \cup CallsAt(request, granted)
              /\ calls' = [i \in granted |-> request[i]]
    BY <1>1 DEF SpecialistCallsTools
  <2>3. PICK granted \in Granted(request) :
          /\ signatures' = signatures \cup CallsAt(request, granted)
          /\ calls' = [i \in granted |-> request[i]]
    BY <2>2
  <2>4. refresh' = refresh /\ executed' = executed
    BY <1>1 DEF SpecialistCallsTools
  <2>5. CallsAt(calls', DOMAIN calls') = CallsAt(request, granted)
    BY <2>3 DEF CallsAt
  <2>6. ASSUME ~refresh
        PROVE  /\ CallsAt(request, granted) \cap signatures = {}
               /\ \A i, j \in granted : i # j => request[i] # request[j]
    <3>1. granted \subseteq FreshCalls(request)
      BY <2>6 DEF Granted, Admissible
    <3> QED  BY <2>1, <3>1, FreshCallsAreNew DEF CallsAt
  <2>7. NoQueryRepeated'
    BY <2>3, <2>4, <2>5, <2>6 DEF NoQueryRepeated, QueryInv
  <2> QED  BY <2>3, <2>4, <2>5, <2>7 DEF QueryInv
<1>2. CASE RunTools
  <2>1. calls' = <<>> /\ DOMAIN calls' = {} /\ pc' # "tools"
    BY <1>2 DEF RunTools
  <2>2. executed' = executed \cup CallsAt(calls, DOMAIN calls) /\ signatures' = signatures
    BY <1>2 DEF RunTools
  <2> QED  BY <2>1, <2>2 DEF QueryInv, NoQueryRepeated, CallsAt
<1>3. CASE SpecialistOverLimit
  BY <1>3 DEF SpecialistOverLimit, QueryInv, NoQueryRepeated, CallsAt
<1>4. CASE \/ ComplexityRouter \/ Planner \/ SupervisorRetries \/ SupervisorDispatches
           \/ SupervisorFinishesPlan \/ SupervisorWithoutPlan \/ ToolLimitExceeded
           \/ SpecialistReports \/ SpecialistIsSilent \/ SpecialistRaises
           \/ VerifierAccepts \/ VerifierSendsToRepair \/ VerifierReplans
           \/ RepairRouterSkips \/ RepairRouter \/ AnswerGenerator
  <2>1. UNCHANGED <<executed, signatures, calls>> /\ pc' # "tools"
    BY <1>4 DEF ComplexityRouter, Planner, SupervisorRetries, SupervisorDispatches,
                SupervisorFinishesPlan, SupervisorWithoutPlan, ToolLimitExceeded,
                SpecialistReports, SpecialistIsSilent, SpecialistRaises, VerifierAccepts,
                VerifierSendsToRepair, VerifierReplans, retry_updates, RepairRouterSkips,
                RepairRouter, repair_updates, AnswerGenerator
  <2> QED  BY <2>1 DEF QueryInv, NoQueryRepeated, CallsAt
<1>5. CASE UNCHANGED vars
  BY <1>5 DEF vars, QueryInv, NoQueryRepeated, CallsAt
<1> QED  BY <1>1, <1>2, <1>3, <1>4, <1>5 DEF Next, Finished

\* No search is run twice in a request, but for the repeats a repair asks for
\* (agent/tool_loop.py), whatever the models ask and whatever is re-planned.
THEOREM NoQueryRepeatedHolds == Spec => []NoQueryRepeated
<1>1. Init => QueryInv
  BY DEF Init, QueryInv, NoQueryRepeated, CallsAt
<1>2. QueryInv => NoQueryRepeated
  BY DEF QueryInv
<1> QED  BY <1>1, <1>2, ExecutionInvariant, QueryStep, PTL DEF Spec

-----------------------------------------------------------------------------
(* What the nodes that rewrite the plan do to its steps, one lemma each.    *)

\* Settling touches the status of the running steps only.
LEMMA SettledSteps ==
    ASSUME TypeOK, NEW id \in DOMAIN plan
    PROVE  /\ Settled[id].task = plan[id].task
           /\ Settled[id].pos = plan[id].pos
           /\ Settled[id].status = IF id \in Running THEN Outcome(id) ELSE plan[id].status
<1>1. plan[id] \in Step
  BY DEF TypeOK, WorkType, IsPlan
<1>2. Outcome(id) \in Status
  BY DEF Outcome, Status
<1>3. CASE id \in Running
  <2>1. Settled[id] = [plan[id] EXCEPT !.status = Outcome(id)]
    BY <1>3 DEF Settled
  <2> QED  BY <1>1, <1>2, <1>3, <2>1, StatusChange
<1>4. CASE id \notin Running
  BY <1>4 DEF Settled
<1> QED  BY <1>3, <1>4

\* Dispatch settles the running step and runs the first pending one.
LEMMA DispatchedPlan ==
    ASSUME ExecutionInv, SupervisorDispatches
    PROVE  \E id \in DOMAIN plan :
             /\ IsFirstPending(Settled, id)
             /\ reported' = reported \ {id}
             /\ DOMAIN plan' = DOMAIN plan
             /\ \A step \in DOMAIN plan :
                  /\ plan'[step].task = plan[step].task
                  /\ plan'[step].pos = plan[step].pos
                  /\ plan'[step].status = IF step = id THEN "running" ELSE Settled[step].status
<1>1. TypeOK /\ IsPlan(plan) /\ pc = "supervisor" /\ WithStatus(plan, "running") \subseteq {current}
  BY DEF SupervisorDispatches, ExecutionInv, TypeOK, WorkType, PlanInv
<1>2. PICK id \in DOMAIN plan :
        /\ IsFirstPending(Settled, id)
        /\ plan' = merge_plan_steps(plan, Mark(Settled, id, "running"))
        /\ reported' = reported \ {id}
  BY DEF SupervisorDispatches
<1> DEFINE next == Mark(Settled, id, "running")
<1>3. IsPlan(Settled) /\ DOMAIN Settled = DOMAIN plan
  BY <1>1, SettledIsPlan
<1>4. /\ IsPlan(next) /\ DOMAIN next = DOMAIN plan
      /\ next[id].status = "running" /\ next[id].task = Settled[id].task
      /\ \A step \in DOMAIN plan \ {id} : next[step] = Settled[step]
  BY <1>3, MarkIsPlan DEF Status
<1> HIDE DEF next
<1>5. plan' = merge_plan_steps(plan, next) /\ DOMAIN next # {}
  BY <1>2, <1>4 DEF next
<1>6. /\ DOMAIN plan' = DOMAIN plan
      /\ \A step \in DOMAIN plan : /\ plan'[step].status = next[step].status
                                   /\ plan'[step].task = next[step].task
  BY <1>1, <1>4, <1>5, MergeIsPlan
<1>7. \A step \in DOMAIN plan : plan'[step].pos = plan[step].pos
  BY <1>1, <1>4, <1>5, MergePlaces
<1>8. \A step \in DOMAIN plan : Settled[step].task = plan[step].task
  BY <1>1, SettledSteps
<1> QED  BY <1>2, <1>4, <1>6, <1>7, <1>8

\* The end of the plan settles the running step.
LEMMA FinishedPlan ==
    ASSUME ExecutionInv, SupervisorFinishesPlan
    PROVE  /\ DOMAIN plan' = DOMAIN plan
           /\ \A step \in DOMAIN plan :
                /\ plan'[step].task = plan[step].task
                /\ plan'[step].pos = plan[step].pos
                /\ plan'[step].status = Settled[step].status
<1>1. /\ TypeOK /\ IsPlan(plan) /\ pc = "supervisor" /\ plan # NoPlan
      /\ WithStatus(plan, "running") \subseteq {current}
      /\ plan' = merge_plan_steps(plan, Settled)
  BY DEF SupervisorFinishesPlan, ExecutionInv, TypeOK, WorkType, PlanInv
<1>2. IsPlan(Settled) /\ DOMAIN Settled = DOMAIN plan /\ DOMAIN Settled # {}
  BY <1>1, SettledIsPlan, NoPlanIsPlan
<1>3. /\ DOMAIN plan' = DOMAIN plan
      /\ \A step \in DOMAIN plan : /\ plan'[step].status = Settled[step].status
                                   /\ plan'[step].task = Settled[step].task
  BY <1>1, <1>2, MergeIsPlan
<1>4. \A step \in DOMAIN plan : plan'[step].pos = plan[step].pos
  BY <1>1, <1>2, MergePlaces
<1> QED  BY <1>1, <1>3, <1>4, SettledSteps

\* A re-plan makes every step pending where it stands.
LEMMA ReplannedPlan ==
    ASSUME ExecutionInv, VerifierReplans
    PROVE  /\ DOMAIN plan' = DOMAIN plan
           /\ \A step \in DOMAIN plan :
                plan'[step].status = "pending" /\ plan'[step].pos = plan[step].pos
<1>1. /\ IsPlan(plan) /\ DOMAIN plan # {}
      /\ plan' = merge_plan_steps(plan, ResetPlan(plan))
  BY NoPlanIsPlan
     DEF VerifierReplans, retry_updates, ExecutionInv, TypeOK, WorkType, PlanInv, Reviewing
<1>2. /\ IsPlan(ResetPlan(plan)) /\ DOMAIN ResetPlan(plan) = DOMAIN plan
      /\ \A id \in DOMAIN plan : ResetPlan(plan)[id].status = "pending"
  BY <1>1, ResetPlanIsPlan
<1> DEFINE r == ResetPlan(plan)
           m == merge_plan_steps(plan, r)
<1>3. /\ IsPlan(m)
      /\ DOMAIN m = DOMAIN plan \cup DOMAIN r
      /\ \A id \in DOMAIN r : m[id].status = r[id].status /\ m[id].task = r[id].task
      /\ \A id \in DOMAIN plan \ DOMAIN r : m[id] = plan[id]
  <2>1. IsPlan(plan) /\ IsPlan(r) /\ DOMAIN r # {}
    BY <1>1, <1>2
  <2> HIDE DEF r
  <2> QED  BY <2>1, MergeIsPlan, ZenonT(30)
<1>4. \A step \in DOMAIN plan : m[step].pos = plan[step].pos
  BY <1>1, <1>2, MergePlaces
<1> HIDE DEF m
<1>5. plan' = m
  BY <1>1 DEF m
<1> QED  BY <1>2, <1>3, <1>4, <1>5

\* Merging a plan without a tried step into one without leaves one without.
LEMMA PendingPlan ==
    ASSUME NEW l, IsPlan(l), NEW r, IsPlan(r),
           \A id \in DOMAIN l : l[id].status = "pending",
           \A id \in DOMAIN r : r[id].status = "pending",
           \A id \in DOMAIN l : l[id].pos <= Cardinality(DOMAIN l)
    PROVE  /\ \A id \in DOMAIN merge_plan_steps(l, r) :
                merge_plan_steps(l, r)[id].status = "pending"
           /\ \A id \in DOMAIN merge_plan_steps(l, r) :
                merge_plan_steps(l, r)[id].pos <= Cardinality(DOMAIN merge_plan_steps(l, r))
<1> DEFINE m == merge_plan_steps(l, r)
<1>1. CASE r = NoPlan
  BY <1>1, MergeEmpty, NoPlanIsPlan
<1>2. CASE r # NoPlan
  <2>1. DOMAIN r # {}
    BY <1>2, NoPlanIsPlan
  <2>2. /\ IsPlan(m)
        /\ DOMAIN m = DOMAIN l \cup DOMAIN r
        /\ \A id \in DOMAIN r : m[id].status = r[id].status /\ m[id].task = r[id].task
        /\ \A id \in DOMAIN l \ DOMAIN r : m[id] = l[id]
    BY <2>1, MergeIsPlan, ZenonT(30)
  <2>3. /\ \A id \in DOMAIN l : m[id].pos = l[id].pos
        /\ \A id \in DOMAIN r \ DOMAIN l : m[id].pos <= Cardinality(DOMAIN l \cup DOMAIN r)
    BY <2>1, MergePlaces, ZenonT(30)
  <2>4. /\ Cardinality(DOMAIN l) \in Nat /\ Cardinality(DOMAIN l \cup DOMAIN r) \in Nat
        /\ Cardinality(DOMAIN l) <= Cardinality(DOMAIN l \cup DOMAIN r)
    <3>1. IsFiniteSet(DOMAIN l \cup DOMAIN r) /\ IsFiniteSet(DOMAIN l)
      BY FS_Union DEF IsPlan
    <3> QED  BY <3>1, FS_Subset, FS_CardinalityType
  <2>5. \A id \in DOMAIN l : l[id].pos \in Nat
    BY DEF IsPlan, Step
  <2> HIDE DEF m
  <2>6. ASSUME NEW id \in DOMAIN m
        PROVE  m[id].status = "pending" /\ m[id].pos <= Cardinality(DOMAIN m)
    <3>1. CASE id \in DOMAIN l
      BY <2>2, <2>3, <2>4, <2>5, <3>1
    <3>2. CASE id \in DOMAIN r \ DOMAIN l
      BY <2>2, <2>3, <3>2
    <3> QED  BY <2>2, <3>1, <3>2
  <2> QED  BY <2>6 DEF m
<1> QED  BY <1>1, <1>2

\* Routing and planning only ever put pending steps in a plan.
LEMMA PlannedPlan ==
    ASSUME ExecutionInv, ComplexityRouter \/ Planner,
           \A id \in DOMAIN plan : plan[id].status = "pending",
           \A id \in DOMAIN plan : plan[id].pos <= Cardinality(DOMAIN plan)
    PROVE  /\ \A id \in DOMAIN plan' : plan'[id].status = "pending"
           /\ \A id \in DOMAIN plan' : plan'[id].pos <= Cardinality(DOMAIN plan')
<1>1. IsPlan(plan) /\ IsPlan(NoPlan) /\ DOMAIN NoPlan = {}
  BY NoPlanIsPlan DEF ExecutionInv, TypeOK, WorkType
<1>2. \/ plan' = plan
      \/ \E r : /\ IsPlan(r) /\ \A id \in DOMAIN r : r[id].status = "pending"
               /\ plan' = merge_plan_steps(plan, r)
  <2>1. CASE ComplexityRouter /\ plan' # plan
    <3>1. plan' = merge_plan_steps(plan, SimplePlan)
      BY <2>1 DEF ComplexityRouter
    <3>2. IsTaskList(<<STATUTE_RETRIEVAL, LEGAL_CONSULTATION>>)
      <4>1. <<STATUTE_RETRIEVAL, LEGAL_CONSULTATION>> \in [1 .. 2 -> TaskType]
        BY DEF TaskType
      <4> QED  BY <4>1 DEF IsTaskList
    <3>3. IsPlan(SimplePlan) /\ \A id \in DOMAIN SimplePlan : SimplePlan[id].status = "pending"
      BY <3>2, PlanOfIsPlan DEF SimplePlan
    <3> QED  BY <3>1, <3>3
  <2>2. CASE Planner /\ PlannerSkips
    BY <1>1, <2>2 DEF Planner
  <2>3. CASE Planner /\ ~PlannerSkips
    <3>1. PICK tasks \in NormalizedTaskLists(needsCase) :
            plan' = merge_plan_steps(plan, PlanOf(tasks))
      BY <2>3 DEF Planner
    <3>2. IsPlan(PlanOf(tasks)) /\ \A id \in DOMAIN PlanOf(tasks) : PlanOf(tasks)[id].status = "pending"
      BY TaskListType, PlanOfIsPlan
    <3> QED  BY <3>1, <3>2
  <2> QED  BY <2>1, <2>2, <2>3
<1> QED  BY <1>1, <1>2, PendingPlan

\* A repair keeps the steps of the plan in their places; what it reopens stood
\* behind what it leaves settled, and what it adds goes to the end.
LEMMA RepairedPlan ==
    ASSUME ExecutionInv, RepairRouter
    PROVE  /\ DOMAIN plan \subseteq DOMAIN plan'
           /\ \A step \in DOMAIN plan :
                /\ plan[step].status \in {"completed", "failed"}
                /\ plan'[step].status \in {"pending", plan[step].status}
                /\ plan'[step].task = plan[step].task
                /\ plan'[step].pos = plan[step].pos
           /\ \A step \in DOMAIN plan' \ DOMAIN plan :
                /\ plan'[step].status = "pending"
                /\ Cardinality(DOMAIN plan) <= plan'[step].pos
                /\ plan'[step].pos <= Cardinality(DOMAIN plan')
           /\ \A a, b \in DOMAIN plan :
                plan'[b].status # plan[b].status /\ plan'[a].status # "pending" =>
                    plan[a].pos < plan[b].pos
           /\ Cardinality(DOMAIN plan) <= Cardinality(DOMAIN plan')
<1> USE DEF ExecutionInv
<1>1. /\ IsPlan(plan) /\ DOMAIN plan # {} /\ IsPlan(plan')
      /\ \A id \in DOMAIN plan : plan[id].status \in {"completed", "failed"}
  <2>1. IsPlan(plan')
    BY RepairRouterStep DEF TypeOK, WorkType
  <2> QED  BY <2>1, NoPlanIsPlan DEF RepairRouter, TypeOK, WorkType, PlanInv, Reviewing
<1>2. PICK added \in InjectiveLists(MissingTargets, Cardinality(MissingTargets)) :
        repair_updates(plan_repair(plan, targets, added))
  BY DEF RepairRouter
<1>3. IsTaskList(added)
  BY MissingTargetsType, AddedType
<1> DEFINE q == plan_repair(plan, targets, added)
<1>4. /\ IsPlan(q) /\ DOMAIN plan \subseteq DOMAIN q
      /\ \A id \in DOMAIN plan : /\ q[id].status \in {"pending", plan[id].status}
                                /\ q[id].task = plan[id].task
      /\ \A a, b \in DOMAIN plan : 
            q[b].status # plan[b].status /\ q[a].status # "pending" => plan[a].pos < plan[b].pos
      /\ \A id \in DOMAIN q \ DOMAIN plan : q[id].status = "pending"
  BY <1>1, <1>3, RepairIsPlan
<1> HIDE DEF q
<1>5. plan' = merge_plan_steps(plan, q) /\ DOMAIN q # {}
  BY <1>1, <1>2, <1>4 DEF repair_updates, q
<1> DEFINE m == merge_plan_steps(plan, q)
<1>6. /\ IsPlan(m)
      /\ DOMAIN m = DOMAIN plan \cup DOMAIN q
      /\ \A id \in DOMAIN q : m[id].status = q[id].status /\ m[id].task = q[id].task
      /\ \A id \in DOMAIN plan \ DOMAIN q : m[id] = plan[id]
  <2>1. IsPlan(plan) /\ IsPlan(q) /\ DOMAIN q # {}
    BY <1>1, <1>4, <1>5
  <2> QED  BY <2>1, MergeIsPlan, ZenonT(30)
<1>7. /\ \A id \in DOMAIN plan : m[id].pos = plan[id].pos
      /\ \A id \in DOMAIN q \ DOMAIN plan :
            Cardinality(DOMAIN plan) <= m[id].pos /\ m[id].pos <= Cardinality(DOMAIN plan \cup DOMAIN q)
  BY <1>1, <1>4, <1>5, MergePlaces, ZenonT(30)
<1> HIDE DEF m
<1>8. plan' = m
  BY <1>5 DEF m
<1>9. Cardinality(DOMAIN plan) <= Cardinality(DOMAIN plan')
  BY <1>1, <1>4, <1>6, <1>8, FS_Subset DEF IsPlan
<1> QED  BY <1>1, <1>4, <1>6, <1>7, <1>8, <1>9

-----------------------------------------------------------------------------
(* Reports.  A completed step's report is of its newest dispatch because    *)
(* the Supervisor finds a report of the running step only when the          *)
(* specialist has just written it: an older one is masked by the failure,   *)
(* never asked for again, or of an agent that writes none.                  *)

ReportInv ==
    /\ CompletedByOwnRun
    /\ \A report \in reports : report[2] \notin SilentAgents
    /\ pc = "supervisor" =>
          \A id \in Running : ~failure /\ HasReport(id) => id \in reported
    /\ pc \in {"complexity_router", "planner"} =>
          \A id \in DOMAIN plan : plan[id].status = "pending"

-----------------------------------------------------------------------------
(* The order of conclusions.  Steps are settled in the order of their       *)
(* places, and a repair reopens everything behind its first target: what is *)
(* settled stands in front of what is running, and that in front of what is *)
(* pending.  A reducer that appends keeps this because places never exceed  *)
(* the number of steps.                                                     *)

Stage ==
    [status \in Status |->
        IF status = "pending" THEN 2 ELSE IF status = "running" THEN 1 ELSE 0]

PlaceInv ==
    /\ \A id \in DOMAIN plan : plan[id].pos <= Cardinality(DOMAIN plan)
    /\ \A a, b \in DOMAIN plan :
          Stage[plan[a].status] < Stage[plan[b].status] => plan[a].pos <= plan[b].pos

OrderInv ==
    /\ \A a, b \in WithStatus(plan, "completed") :
          plan[a].pos < plan[b].pos => <<a, b>> \in ranBefore
    /\ \A a \in WithStatus(plan, "completed"), b \in WithStatus(plan, "running") :
          b \in reported => <<a, b>> \in ranBefore

\* A step's report is looked up by its task, which no node rewrites.
LEMMA KeptReport ==
    ASSUME NEW id, id \in DOMAIN plan, id \in DOMAIN plan',
           plan'[id].task = plan[id].task, reports \subseteq reports', HasReport(id)
    PROVE  HasReport(id)'
BY DEF HasReport, AgentOf

\* What the Supervisor settles as completed has a report of its own run.
LEMMA SettledHasReport ==
    ASSUME ExecutionInv, ReportInv, pc = "supervisor",
           NEW id \in DOMAIN plan, Settled[id].status = "completed"
    PROVE  id \in reported /\ HasReport(id)
<1>1. TypeOK
  BY DEF ExecutionInv
<1>2. CASE id \in Running
  <2>1. Outcome(id) = "completed"
    BY <1>1, <1>2, SettledSteps
  <2>2. ~failure /\ HasReport(id)
    BY <2>1 DEF Outcome
  <2> QED  BY <1>2, <2>2 DEF ReportInv
<1>3. CASE id \notin Running
  <2>1. id \in WithStatus(plan, "completed")
    BY <1>1, <1>3, SettledSteps DEF WithStatus
  <2> QED  BY <2>1 DEF ReportInv, CompletedByOwnRun
<1> QED  BY <1>2, <1>3

\* A completed step has a report of its newest dispatch, whatever node runs.
LEMMA ReportStep == ExecutionInv /\ ReportInv /\ PlaceInv /\ [Next]_vars => ReportInv'
<1> SUFFICES ASSUME ExecutionInv, ReportInv, PlaceInv, [Next]_vars PROVE ReportInv'
  OBVIOUS
<1>1. CASE ComplexityRouter \/ Planner
  <2>1. \A id \in DOMAIN plan' : plan'[id].status = "pending"
    BY <1>1, PlannedPlan DEF ComplexityRouter, Planner, ReportInv, PlaceInv
  <2>2. WithStatus(plan', "completed") = {} /\ WithStatus(plan', "running") = {}
    BY <2>1 DEF WithStatus
  <2>3. Running' = {}
    BY <2>2 DEF Running
  <2>4. reports' = reports
    BY <1>1 DEF ComplexityRouter, Planner
  <2> QED  BY <2>1, <2>2, <2>3, <2>4 DEF ReportInv, CompletedByOwnRun
<1>2. CASE SupervisorDispatches
  <2>1. PICK id \in DOMAIN plan :
          /\ IsFirstPending(Settled, id)
          /\ reported' = reported \ {id}
          /\ DOMAIN plan' = DOMAIN plan
          /\ \A step \in DOMAIN plan :
               /\ plan'[step].task = plan[step].task
               /\ plan'[step].status = IF step = id THEN "running" ELSE Settled[step].status
    BY <1>2, DispatchedPlan
  <2>2. pc = "supervisor" /\ pc' = "specialist" /\ reports' = reports
    BY <1>2 DEF SupervisorDispatches
  <2>3. ASSUME NEW step \in WithStatus(plan', "completed")
        PROVE  step \in reported' /\ HasReport(step)'
    <3>1. step \in DOMAIN plan /\ step # id /\ Settled[step].status = "completed"
      BY <2>1, <2>3 DEF WithStatus
    <3>2. step \in reported /\ HasReport(step)
      BY <2>2, <3>1, SettledHasReport
    <3> QED  BY <2>1, <2>2, <3>1, <3>2, KeptReport
  <2> QED  BY <2>2, <2>3 DEF ReportInv, CompletedByOwnRun
<1>3. CASE SupervisorFinishesPlan
  <2>1. /\ DOMAIN plan' = DOMAIN plan
        /\ \A step \in DOMAIN plan : /\ plan'[step].task = plan[step].task
                                     /\ plan'[step].status = Settled[step].status
    BY <1>3, FinishedPlan
  <2>2. /\ pc = "supervisor" /\ pc' = "result_verifier"
        /\ reports' = reports /\ reported' = reported
    BY <1>3 DEF SupervisorFinishesPlan
  <2>3. ASSUME NEW step \in WithStatus(plan', "completed")
        PROVE  step \in reported' /\ HasReport(step)'
    <3>1. step \in DOMAIN plan /\ Settled[step].status = "completed"
      BY <2>1, <2>3 DEF WithStatus
    <3>2. step \in reported /\ HasReport(step)
      BY <2>2, <3>1, SettledHasReport
    <3> QED  BY <2>1, <2>2, <3>1, <3>2, KeptReport
  <2> QED  BY <2>2, <2>3 DEF ReportInv, CompletedByOwnRun
<1>4. CASE \/ SupervisorRetries \/ SupervisorWithoutPlan \/ SpecialistCallsTools
           \/ SpecialistOverLimit \/ RunTools \/ SpecialistRaises \/ VerifierAccepts
           \/ VerifierSendsToRepair \/ RepairRouterSkips \/ AnswerGenerator
  <2>1. UNCHANGED <<plan, reports, reported>>
    BY <1>4 DEF SupervisorRetries, SupervisorWithoutPlan, SpecialistCallsTools,
                SpecialistOverLimit, RunTools, SpecialistRaises, VerifierAccepts,
                VerifierSendsToRepair, RepairRouterSkips, AnswerGenerator
  <2>2. pc' \notin {"supervisor", "complexity_router", "planner"}
    BY <1>4 DEF SupervisorRetries, SupervisorWithoutPlan, SpecialistCallsTools,
                SpecialistOverLimit, RunTools, SpecialistRaises, VerifierAccepts,
                VerifierSendsToRepair, RepairRouterSkips, AnswerGenerator
  <2> QED  BY <2>1, <2>2 DEF ReportInv, CompletedByOwnRun, HasReport
<1>5. CASE ToolLimitExceeded
  <2>1. UNCHANGED <<plan, reports, reported>> /\ failure' /\ pc' = "supervisor"
    BY <1>5 DEF ToolLimitExceeded
  <2> QED  BY <2>1 DEF ReportInv, CompletedByOwnRun, HasReport
<1>6. CASE SpecialistReports
  <2>1. /\ plan' = plan /\ pc' = "supervisor" /\ current' = current
        /\ reports' = reports \cup {<<current, route>>}
        /\ reported' = reported \cup {current}
        /\ route \notin SilentAgents
    BY <1>6 DEF SpecialistReports
  <2>2. \A id \in WithStatus(plan, "running") : id = current
    BY <1>6 DEF SpecialistReports, ExecutionInv, PlanInv, AtWork
  <2>3. CompletedByOwnRun'
    BY <2>1 DEF ReportInv, CompletedByOwnRun, HasReport
  <2>4. \A id \in Running' : id \in reported'
    BY <2>1, <2>2 DEF Running
  <2>5. \A report \in reports' : report[2] \notin SilentAgents
    BY <2>1 DEF ReportInv
  <2> QED  BY <2>1, <2>3, <2>4, <2>5 DEF ReportInv
<1>7. CASE SpecialistIsSilent
  <2>1. UNCHANGED <<plan, reports, reported, current, failure>> /\ pc' = "supervisor"
    BY <1>7 DEF SpecialistIsSilent
  <2>2. /\ \A id \in WithStatus(plan, "running") : id = current
        /\ AgentOf(plan, current) \in SilentAgents
    BY <1>7 DEF SpecialistIsSilent, ExecutionInv, PlanInv, AtWork
  <2>3. \A id \in Running' : ~HasReport(id)'
    BY <2>1, <2>2 DEF Running, HasReport, ReportInv
  <2> QED  BY <2>1, <2>3 DEF ReportInv, CompletedByOwnRun, HasReport
<1>8. CASE VerifierReplans
  <2>1. \A id \in DOMAIN plan' : plan'[id].status = "pending"
    BY <1>8, ReplannedPlan
  <2>2. reports' = {} /\ pc' = "planner"
    BY <1>8 DEF VerifierReplans, retry_updates
  <2> QED  BY <2>1, <2>2 DEF ReportInv, CompletedByOwnRun, WithStatus
<1>9. CASE RepairRouter
  <2>1. /\ \A step \in DOMAIN plan :
              /\ plan[step].status \in {"completed", "failed"}
              /\ plan'[step].status \in {"pending", plan[step].status}
              /\ plan'[step].task = plan[step].task
        /\ \A step \in DOMAIN plan' \ DOMAIN plan : plan'[step].status = "pending"
    BY <1>9, RepairedPlan
  <2>2. reports' = reports /\ reported' = reported /\ pc' = "supervisor"
    BY <1>9 DEF RepairRouter, repair_updates
  <2>3. WithStatus(plan', "running") = {}
    BY <2>1 DEF WithStatus
  <2>4. ASSUME NEW step \in WithStatus(plan', "completed")
        PROVE  step \in reported' /\ HasReport(step)'
    <3>1. step \in DOMAIN plan /\ step \in DOMAIN plan' /\ plan[step].status = "completed"
      BY <2>1, <2>4 DEF WithStatus
    <3>2. step \in reported /\ HasReport(step)
      BY <3>1 DEF ReportInv, CompletedByOwnRun, WithStatus
    <3> QED  BY <2>1, <2>2, <3>1, <3>2, KeptReport
  <2>5. Running' = {}
    BY <2>3 DEF Running
  <2> QED  BY <2>2, <2>4, <2>5 DEF ReportInv, CompletedByOwnRun
<1>10. CASE UNCHANGED vars
  BY <1>10 DEF vars, ReportInv, CompletedByOwnRun, HasReport, Running
<1> QED
  BY <1>1, <1>2, <1>3, <1>4, <1>5, <1>6, <1>7, <1>8, <1>9, <1>10 DEF Next, Finished

\* The nodes that leave the plan, its reports and their order alone.
LEMMA QuietNodes ==
    ASSUME \/ SupervisorRetries \/ SupervisorWithoutPlan \/ SpecialistCallsTools
           \/ SpecialistOverLimit \/ ToolLimitExceeded \/ RunTools \/ SpecialistIsSilent
           \/ SpecialistRaises \/ VerifierAccepts \/ VerifierSendsToRepair
           \/ RepairRouterSkips \/ AnswerGenerator \/ UNCHANGED vars
    PROVE  UNCHANGED <<plan, reported, ranBefore>>
BY DEF SupervisorRetries, SupervisorWithoutPlan, SpecialistCallsTools, SpecialistOverLimit,
       ToolLimitExceeded, RunTools, SpecialistIsSilent, SpecialistRaises, VerifierAccepts,
       VerifierSendsToRepair, RepairRouterSkips, AnswerGenerator, vars

\* The steps of a plan have a place and a stage.
LEMMA PlaceType ==
    ASSUME NEW p, IsPlan(p)
    PROVE  /\ Cardinality(DOMAIN p) \in Nat
           /\ \A id \in DOMAIN p : p[id].pos \in Nat /\ p[id].status \in Status
<1>1. Cardinality(DOMAIN p) \in Nat
  BY FS_CardinalityType DEF IsPlan
<1> QED  BY <1>1 DEF IsPlan, Step

\* What is settled stands in front of what runs, and that in front of the rest.
LEMMA PlaceStep == ExecutionInv /\ ReportInv /\ PlaceInv /\ [Next]_vars => PlaceInv'
<1> SUFFICES ASSUME ExecutionInv, ReportInv, PlaceInv, [Next]_vars PROVE PlaceInv'
  OBVIOUS
<1>0. /\ Cardinality(DOMAIN plan) \in Nat
      /\ \A id \in DOMAIN plan : plan[id].pos \in Nat /\ plan[id].status \in Status
  BY PlaceType DEF ExecutionInv, TypeOK, WorkType
<1>1. CASE ComplexityRouter \/ Planner
  <2>1. /\ \A id \in DOMAIN plan' : plan'[id].status = "pending"
        /\ \A id \in DOMAIN plan' : plan'[id].pos <= Cardinality(DOMAIN plan')
    BY <1>1, PlannedPlan DEF ComplexityRouter, Planner, ReportInv, PlaceInv
  <2> QED  BY <2>1 DEF PlaceInv, Stage, Status
<1>2. CASE SupervisorDispatches
  <2>1. PICK id \in DOMAIN plan :
          /\ IsFirstPending(Settled, id)
          /\ DOMAIN plan' = DOMAIN plan
          /\ \A step \in DOMAIN plan :
               /\ plan'[step].pos = plan[step].pos
               /\ plan'[step].status = IF step = id THEN "running" ELSE Settled[step].status
    BY <1>2, DispatchedPlan
  <2>2. /\ DOMAIN Settled = DOMAIN plan
        /\ WithStatus(Settled, "running") = {}
        /\ IsPlan(Settled)
    BY <1>2, SettledIsPlan DEF SupervisorDispatches, ExecutionInv, PlanInv
  <2>3. \A step \in DOMAIN plan :
          /\ Settled[step].pos = plan[step].pos
          /\ Settled[step].status \in {"pending", "completed", "failed"}
          /\ Settled[step].status = "pending" <=> plan[step].status = "pending"
    <3>1. \A step \in DOMAIN plan : Settled[step].status \in {"pending", "completed", "failed"}
      BY <2>2, PlaceType DEF WithStatus, Status
    <3>2. \A step \in Running : plan[step].status = "running" /\ Outcome(step) # "pending"
      BY DEF Running, WithStatus, Outcome
    <3> QED  BY <3>1, <3>2, SettledSteps DEF ExecutionInv
  <2>4. /\ Settled[id].status = "pending"
        /\ \A step \in DOMAIN plan : Settled[step].status = "pending" => plan[id].pos <= plan[step].pos
    BY <2>1, <2>2, <2>3 DEF IsFirstPending, WithStatus
  <2>5. ASSUME NEW a \in DOMAIN plan, NEW b \in DOMAIN plan,
               Stage[plan'[a].status] < Stage[plan'[b].status]
        PROVE  plan[a].pos <= plan[b].pos
    <3>1. CASE a = id
      <4>1. plan'[b].status = "pending" /\ b # id
        BY <2>1, <2>3, <2>5, <3>1 DEF Stage, Status
      <4> QED  BY <2>1, <2>4, <3>1, <4>1
    <3>2. CASE a # id
      <4>1. Settled[a].status \in {"completed", "failed"} /\ Settled[b].status = "pending"
        BY <2>1, <2>3, <2>4, <2>5, <3>2 DEF Stage, Status
      <4>2. plan[a].status # "pending" /\ plan[b].status = "pending"
        BY <2>3, <4>1
      <4>3. Stage[plan[a].status] < Stage[plan[b].status]
        BY <1>0, <4>2 DEF Stage, Status
      <4> QED  BY <4>3 DEF PlaceInv
    <3> QED  BY <3>1, <3>2
  <2> QED  BY <2>1, <2>5 DEF PlaceInv
<1>3. CASE SupervisorFinishesPlan
  <2>1. /\ DOMAIN plan' = DOMAIN plan
        /\ \A step \in DOMAIN plan : /\ plan'[step].pos = plan[step].pos
                                     /\ plan'[step].status = Settled[step].status
    BY <1>3, FinishedPlan
  <2>2. /\ DOMAIN Settled = DOMAIN plan
        /\ WithStatus(Settled, "running") = {}
        /\ IsPlan(Settled)
    BY <1>3, SettledIsPlan DEF SupervisorFinishesPlan, ExecutionInv, PlanInv
  <2>3. \A step \in DOMAIN plan : plan'[step].status \in {"completed", "failed"}
    BY <1>3, <2>1, <2>2, PlaceType DEF SupervisorFinishesPlan, NothingPending, WithStatus, Status
  <2> QED  BY <2>1, <2>3 DEF PlaceInv, Stage, Status
<1>4. CASE VerifierReplans
  <2>1. /\ DOMAIN plan' = DOMAIN plan
        /\ \A step \in DOMAIN plan :
             plan'[step].status = "pending" /\ plan'[step].pos = plan[step].pos
    BY <1>4, ReplannedPlan
  <2> QED  BY <2>1 DEF PlaceInv, Stage, Status
<1>5. CASE RepairRouter
  <2>1. /\ DOMAIN plan \subseteq DOMAIN plan'
        /\ \A step \in DOMAIN plan :
             /\ plan[step].status \in {"completed", "failed"}
             /\ plan'[step].status \in {"pending", plan[step].status}
             /\ plan'[step].pos = plan[step].pos
        /\ \A step \in DOMAIN plan' \ DOMAIN plan :
             /\ plan'[step].status = "pending"
             /\ Cardinality(DOMAIN plan) <= plan'[step].pos
             /\ plan'[step].pos <= Cardinality(DOMAIN plan')
        /\ \A a, b \in DOMAIN plan :
             plan'[b].status # plan[b].status /\ plan'[a].status # "pending" =>
                 plan[a].pos < plan[b].pos
        /\ Cardinality(DOMAIN plan) <= Cardinality(DOMAIN plan')
    BY <1>5, RepairedPlan
  <2>2. IsPlan(plan')
    BY <1>5, RepairRouterStep DEF ExecutionInv, TypeOK, WorkType
  <2>3. /\ Cardinality(DOMAIN plan') \in Nat
        /\ \A step \in DOMAIN plan' : plan'[step].pos \in Nat
    BY <2>2, PlaceType
  <2>4. \A step \in DOMAIN plan' : plan'[step].pos <= Cardinality(DOMAIN plan')
    BY <1>0, <2>1, <2>3 DEF PlaceInv
  <2>5. ASSUME NEW a \in DOMAIN plan', NEW b \in DOMAIN plan',
               Stage[plan'[a].status] < Stage[plan'[b].status]
        PROVE  plan'[a].pos <= plan'[b].pos
    <3>1. \A step \in DOMAIN plan' : plan'[step].status \in {"pending", "completed", "failed"}
      BY <2>1
    <3>2. plan'[a].status # "pending" /\ plan'[b].status = "pending"
      BY <2>5, <3>1 DEF Stage, Status
    <3>3. a \in DOMAIN plan /\ plan'[a].pos = plan[a].pos
      BY <2>1, <3>2
    <3>4. CASE b \in DOMAIN plan
      <4>1. plan[a].pos < plan[b].pos /\ plan'[b].pos = plan[b].pos
        BY <2>1, <3>2, <3>3, <3>4
      <4> QED  BY <1>0, <3>3, <3>4, <4>1
    <3>5. CASE b \notin DOMAIN plan
      <4>1. Cardinality(DOMAIN plan) <= plan'[b].pos /\ plan[a].pos <= Cardinality(DOMAIN plan)
        BY <2>1, <3>3, <3>5 DEF PlaceInv
      <4> QED  BY <1>0, <2>3, <3>3, <4>1
    <3> QED  BY <3>4, <3>5
  <2> QED  BY <2>4, <2>5 DEF PlaceInv
<1>6. CASE SpecialistReports
  BY <1>6 DEF SpecialistReports, PlaceInv
<1>7. CASE UNCHANGED <<plan, reported, ranBefore>>
  BY <1>7 DEF PlaceInv
<1> QED
  BY <1>1, <1>2, <1>3, <1>4, <1>5, <1>6, <1>7, QuietNodes DEF Next, Finished

\* Settling the running step keeps the order: what was settled before it ran
\* before it, and stands in front of it.
LEMMA SettledOrder ==
    ASSUME ExecutionInv, ReportInv, PlaceInv, OrderInv, pc = "supervisor",
           NEW a \in DOMAIN plan, Settled[a].status = "completed",
           NEW b \in DOMAIN plan, Settled[b].status = "completed",
           plan[a].pos < plan[b].pos
    PROVE  <<a, b>> \in ranBefore
<1>1. \A id \in {a, b} : id \in WithStatus(plan, "running") \/ id \in WithStatus(plan, "completed")
  BY SettledSteps DEF ExecutionInv, Running, WithStatus
<1>2. a \in reported /\ b \in reported
  BY SettledHasReport
<1>3. plan[a].pos \in Nat /\ plan[b].pos \in Nat
  BY PlaceType DEF ExecutionInv, TypeOK, WorkType
<1>4. CASE a \in WithStatus(plan, "running")
  <2>1. b \notin WithStatus(plan, "running")
    BY <1>3, <1>4 DEF ExecutionInv, PlanInv
  <2>2. Stage[plan[b].status] < Stage[plan[a].status]
    BY <1>1, <1>4, <2>1 DEF WithStatus, Stage, Status
  <2> QED  BY <1>3, <2>2 DEF PlaceInv
<1>5. CASE a \in WithStatus(plan, "completed")
  BY <1>1, <1>2, <1>5 DEF OrderInv
<1> QED  BY <1>1, <1>4, <1>5

\* Every completed step ran after the completed steps in front of it.
LEMMA OrderStep ==
    ExecutionInv /\ ReportInv /\ PlaceInv /\ OrderInv /\ [Next]_vars => OrderInv'
<1> SUFFICES ASSUME ExecutionInv, ReportInv, PlaceInv, OrderInv, [Next]_vars PROVE OrderInv'
  OBVIOUS
<1>1. CASE ComplexityRouter \/ Planner
  <2>1. \A id \in DOMAIN plan' : plan'[id].status = "pending"
    BY <1>1, PlannedPlan DEF ComplexityRouter, Planner, ReportInv, PlaceInv
  <2> QED  BY <2>1 DEF OrderInv, WithStatus
<1>2. CASE SupervisorDispatches
  <2>1. PICK id \in DOMAIN plan :
          /\ reported' = reported \ {id}
          /\ DOMAIN plan' = DOMAIN plan
          /\ \A step \in DOMAIN plan :
               /\ plan'[step].pos = plan[step].pos
               /\ plan'[step].status = IF step = id THEN "running" ELSE Settled[step].status
    BY <1>2, DispatchedPlan
  <2>2. pc = "supervisor" /\ ranBefore' = ranBefore
    BY <1>2 DEF SupervisorDispatches
  <2>3. \A step \in WithStatus(plan', "completed") :
          step \in DOMAIN plan /\ Settled[step].status = "completed"
    BY <2>1 DEF WithStatus
  <2>4. \A a, b \in WithStatus(plan', "completed") :
          plan'[a].pos < plan'[b].pos => <<a, b>> \in ranBefore'
    BY <2>1, <2>2, <2>3, SettledOrder
  <2>5. WithStatus(plan', "running") \subseteq {id}
    <3>1. WithStatus(Settled, "running") = {} /\ DOMAIN Settled = DOMAIN plan
      BY <2>2, SettledIsPlan DEF ExecutionInv, PlanInv
    <3> QED  BY <2>1, <3>1 DEF WithStatus
  <2> QED  BY <2>1, <2>4, <2>5 DEF OrderInv
<1>3. CASE SupervisorFinishesPlan
  <2>1. /\ DOMAIN plan' = DOMAIN plan
        /\ \A step \in DOMAIN plan : /\ plan'[step].pos = plan[step].pos
                                     /\ plan'[step].status = Settled[step].status
    BY <1>3, FinishedPlan
  <2>2. pc = "supervisor" /\ ranBefore' = ranBefore
    BY <1>3 DEF SupervisorFinishesPlan
  <2>3. WithStatus(plan', "running") = {}
    <3>1. WithStatus(Settled, "running") = {} /\ DOMAIN Settled = DOMAIN plan
      BY <2>2, SettledIsPlan DEF ExecutionInv, PlanInv
    <3> QED  BY <2>1, <3>1 DEF WithStatus
  <2>4. \A step \in WithStatus(plan', "completed") :
          step \in DOMAIN plan /\ Settled[step].status = "completed"
    BY <2>1 DEF WithStatus
  <2>5. \A a, b \in WithStatus(plan', "completed") :
          plan'[a].pos < plan'[b].pos => <<a, b>> \in ranBefore'
    BY <2>1, <2>2, <2>4, SettledOrder
  <2> QED  BY <2>3, <2>5 DEF OrderInv
<1>4. CASE SpecialistReports
  <2>1. /\ plan' = plan
        /\ reported' = reported \cup {current}
        /\ ranBefore' = {pair \in ranBefore : current \notin {pair[1], pair[2]}}
                            \cup {<<a, current>> : a \in reported \ {current}}
    BY <1>4 DEF SpecialistReports
  <2>2. WithStatus(plan, "running") = {current}
    BY <1>4 DEF SpecialistReports, ExecutionInv, PlanInv, AtWork
  <2>3. current \notin WithStatus(plan, "completed")
    BY <2>2 DEF WithStatus
  <2>4. \A a \in WithStatus(plan, "completed") : a \in reported
    BY DEF ReportInv, CompletedByOwnRun
  <2> QED  BY <2>1, <2>2, <2>3, <2>4 DEF OrderInv
<1>5. CASE VerifierReplans
  <2>1. \A id \in DOMAIN plan' : plan'[id].status = "pending"
    BY <1>5, ReplannedPlan
  <2> QED  BY <2>1 DEF OrderInv, WithStatus
<1>6. CASE RepairRouter
  <2>1. /\ \A step \in DOMAIN plan :
             /\ plan[step].status \in {"completed", "failed"}
             /\ plan'[step].status \in {"pending", plan[step].status}
             /\ plan'[step].pos = plan[step].pos
        /\ \A step \in DOMAIN plan' \ DOMAIN plan : plan'[step].status = "pending"
    BY <1>6, RepairedPlan
  <2>2. ranBefore' = ranBefore
    BY <1>6 DEF RepairRouter
  <2>3. WithStatus(plan', "running") = {}
    BY <2>1 DEF WithStatus
  <2>4. \A step \in WithStatus(plan', "completed") : step \in WithStatus(plan, "completed")
    BY <2>1 DEF WithStatus
  <2>5. \A step \in WithStatus(plan', "completed") : plan'[step].pos = plan[step].pos
    BY <2>1, <2>4 DEF WithStatus
  <2> QED  BY <2>2, <2>3, <2>4, <2>5 DEF OrderInv
<1>7. CASE UNCHANGED <<plan, reported, ranBefore>>
  BY <1>7 DEF OrderInv
<1> QED
  BY <1>1, <1>2, <1>3, <1>4, <1>5, <1>6, <1>7, QuietNodes DEF Next, Finished

\* The three invariants hold together from the start.
LEMMA OrderInvariant == Spec => [](ReportInv /\ PlaceInv /\ OrderInv)
<1>1. Init => ReportInv /\ PlaceInv /\ OrderInv
  <2> SUFFICES ASSUME Init PROVE ReportInv /\ PlaceInv /\ OrderInv
    OBVIOUS
  <2>1. DOMAIN plan = {}
    BY NoPlanIsPlan DEF Init
  <2> QED
    BY <2>1 DEF Init, ReportInv, PlaceInv, OrderInv, CompletedByOwnRun, WithStatus
<1> QED  BY <1>1, ExecutionInvariant, ReportStep, PlaceStep, OrderStep, PTL DEF Spec

\* A step counts as completed only by a report of its newest dispatch
\* (_executor_update of agent/nodes/supervisor.py): no report left over from
\* before a repair or a re-plan stands in for it.
THEOREM CompletedByOwnRunHolds == Spec => []CompletedByOwnRun
<1>1. ReportInv => CompletedByOwnRun
  BY DEF ReportInv
<1> QED  BY <1>1, OrderInvariant, PTL

\* In the plan an answer is written from, every completed step ran after the
\* completed steps in front of it: a repair (agent/repair.py) that redoes a step
\* redoes everything behind it in the plan the reducer keeps.
THEOREM RunsFollowPlanOrderHolds == Spec => []RunsFollowPlanOrder
<1>1. OrderInv => RunsFollowPlanOrder
  BY DEF OrderInv, RunsFollowPlanOrder
<1> QED  BY <1>1, OrderInvariant, PTL
=============================================================================
