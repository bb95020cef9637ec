------------------------- MODULE ExecutionEngineProofs ------------------------
(***************************************************************************)
(* Proofs about the execution engine, for any plans, capabilities and      *)
(* answers, cancellation at any moment: it implements the run of a plan,   *)
(* its connector calls are justified, it runs the steps in the first       *)
(* topological order, its events and result tell what happened, and a      *)
(* goal's plan is validated and consented to before any of it.             *)
(***************************************************************************)
EXTENDS GoalOrchestrator, CycleSearchProofs, FiniteSetTheorems, TLAPS

------------------------------------------------------------------------------
(* Greatest numbers, and the steps of a plan.                              *)

LEMMA GreatestNumber ==
  ASSUME NEW n \in Nat, NEW T \in SUBSET (1..n), T # {}
  PROVE  \E x \in T : \A y \in T : y <= x
<1> DEFINE D == {n - x : x \in T}
<1>1. D \in SUBSET Nat /\ D # {}
  <2>1. \A x \in T : n - x \in Nat
    OBVIOUS
  <2> QED BY <2>1
<1>2. PICK d \in D : \A e \in D : d <= e
  BY <1>1, LeastNumber
<1>3. PICK x \in T : d = n - x
  BY <1>2
<1>4. \A y \in T : n - x <= n - y
  BY <1>2, <1>3
<1> QED BY <1>4

StepRecord == [id : Steps, deps : SUBSET Steps, confirm : BOOLEAN, capability : Capabilities]

PlanTyped(p) == p \in Seq(StepRecord)

\* Of the steps with an id of the plan there is a last one.
LEMMA StepOfPlan ==
  ASSUME NEW p, PlanTyped(p), NEW s \in Ids(p)
  PROVE  /\ LastIndex(p, s) \in 1..Len(p)
         /\ StepOf(p, s).id = s /\ StepOf(p, s).deps \in SUBSET Steps
         /\ s \in Steps
<1> DEFINE T == {i \in 1..Len(p) : p[i].id = s}
<1>1. T \in SUBSET (1..Len(p)) /\ T # {} /\ Len(p) \in Nat
  BY DEF Ids, PlanTyped
<1>2. \E i \in T : \A j \in T : j <= i
  BY <1>1, GreatestNumber
<1>3. LastIndex(p, s) \in 1..Len(p) /\ p[LastIndex(p, s)].id = s
  BY <1>2 DEF LastIndex
<1>4. p[LastIndex(p, s)] \in StepRecord
  BY <1>3 DEF PlanTyped
<1> QED BY <1>3, <1>4 DEF StepOf, StepRecord

\* Of ready steps one is first.
LEMMA FirstReady ==
  ASSUME NEW p, PlanTyped(p), NEW ready \in SUBSET Ids(p), ready # {}
  PROVE  \E id \in ready : \A other \in ready : LastIndex(p, id) <= LastIndex(p, other)
<1> DEFINE T == {LastIndex(p, id) : id \in ready}
<1>1. T \in SUBSET Nat /\ T # {}
  <2>1. Len(p) \in Nat
    BY DEF PlanTyped
  <2>2. \A id \in ready : LastIndex(p, id) \in 1..Len(p)
    BY StepOfPlan
  <2> QED BY <2>1, <2>2
<1>2. PICK x \in T : \A y \in T : x <= y
  BY <1>1, LeastNumber
<1>3. PICK id \in ready : x = LastIndex(p, id)
  BY <1>2
<1> QED BY <1>2, <1>3

\* A sequence without repetitions, as long as the plan, of steps of the plan,
\* has them all.
LEMMA OrderHasAllSteps ==
  ASSUME NEW p, PlanTyped(p), NEW order \in Seq(Ids(p)), Len(order) = Len(p),
         \A i, j \in 1..Len(order) : order[i] = order[j] => i = j
  PROVE  Ids(p) = {order[i] : i \in 1..Len(order)}
<1> DEFINE I == 1..Len(p)
           placed == [i \in I |-> order[i]]
           named == [i \in I |-> p[i].id]
<1>1. IsFiniteSet(I) /\ Len(p) \in Nat
  BY FS_Interval DEF PlanTyped
<1>2. named \in Surjection(I, Ids(p))
  BY DEF Surjection, Ids
<1>3. IsFiniteSet(Ids(p)) /\ Cardinality(Ids(p)) <= Cardinality(I)
  <2> HIDE DEF named, I
  <2> QED BY <1>1, <1>2, FS_Surjection
<1>4. placed \in Injection(I, Ids(p))
  BY DEF Injection, IsInjective
<1>5. /\ Cardinality(I) <= Cardinality(Ids(p))
      /\ Cardinality(I) = Cardinality(Ids(p)) => placed \in Surjection(I, Ids(p))
  <2> HIDE DEF placed, I
  <2> QED BY <1>3, <1>4, FS_Injection
<1>6. Cardinality(I) \in Nat /\ Cardinality(Ids(p)) \in Nat
  <2> HIDE DEF I
  <2> QED BY <1>1, <1>3, FS_CardinalityType
<1>7. placed \in Surjection(I, Ids(p))
  BY <1>3, <1>5, <1>6
<1> QED BY <1>7 DEF Surjection
------------------------------------------------------------------------------
(* The scheduler: what it has ordered is never ready again.                *)

SchedOK ==
  /\ Ordered \in Seq(PlanSteps)
  /\ sched.ready \in SUBSET PlanSteps
  /\ sched.inDegree \in [PlanSteps -> Int]
  /\ \A i, j \in 1..Len(Ordered) : Ordered[i] = Ordered[j] => i = j
  /\ \A s \in sched.ready : sched.inDegree[s] <= 0 /\ \A i \in 1..Len(Ordered) : Ordered[i] # s
  /\ \A i \in 1..Len(Ordered) : sched.inDegree[Ordered[i]] <= 0

LEMMA DependentsAreCounted ==
  ASSUME NEW p, PlanTyped(p), NEW d, NEW s
  PROVE  Dependents(p, d, s) \in Nat
<1> DEFINE I == 1..Len(p)
           T == {i \in 1..Len(p) : p[i].id = s /\ d \in p[i].deps}
<1>1. IsFiniteSet(I) /\ T \in SUBSET I
  BY FS_Interval DEF PlanTyped
<1>2. IsFiniteSet(T)
  <2> HIDE DEF I, T
  <2> QED BY <1>1, FS_Subset
<1>3. Cardinality(T) \in Nat
  <2> HIDE DEF T
  <2> QED BY <1>2, FS_CardinalityType
<1> QED BY <1>3 DEF Dependents

LEMMA UnorderedOK ==
  ASSUME plan \in Plans, sched = Unordered(plan)
  PROVE  SchedOK
<1>1. PlanTyped(plan)
  BY PlansAssumption DEF PlanTyped, StepRecord
<1>2. \A s \in PlanSteps : Cardinality(StepOf(plan, s).deps) \in Nat
  <2> SUFFICES ASSUME NEW s \in PlanSteps PROVE Cardinality(StepOf(plan, s).deps) \in Nat
    OBVIOUS
  <2>1. IsFiniteSet(StepOf(plan, s).deps)
    BY <1>1, StepOfPlan, DependenciesAssumption DEF StepOf, PlanSteps
  <2> QED BY <2>1, FS_CardinalityType
<1>3. /\ Ordered = <<>>
      /\ sched.inDegree = [id \in PlanSteps |-> Cardinality(StepOf(plan, id).deps)]
      /\ sched.ready = {id \in PlanSteps : sched.inDegree[id] = 0}
  BY DEF Unordered, Ordered, PlanSteps
<1>4. Ordered \in Seq(PlanSteps) /\ Len(Ordered) = 0
  BY <1>3
<1>5. sched.inDegree \in [PlanSteps -> Int]
  BY <1>2, <1>3
<1> QED BY <1>3, <1>4, <1>5 DEF SchedOK

LEMMA PopReadyOK ==
  ASSUME plan \in Plans, SchedOK, sched.ready # {}, sched' = PopReady(plan, sched), plan' = plan
  PROVE  SchedOK'
<1> DEFINE next == CHOOSE id \in sched.ready :
                     \A other \in sched.ready : LastIndex(plan, id) <= LastIndex(plan, other)
           degree == [id \in Ids(plan) |-> sched.inDegree[id] - Dependents(plan, next, id)]
<1>1. PlanTyped(plan) /\ PlanSteps' = PlanSteps /\ PlanSteps = Ids(plan)
  BY PlansAssumption DEF PlanTyped, StepRecord, PlanSteps
<1>2. next \in sched.ready
  BY <1>1, FirstReady DEF SchedOK
<1> HIDE DEF next
<1>3. degree \in [PlanSteps -> Int] /\ \A s \in PlanSteps : degree[s] <= sched.inDegree[s]
  BY <1>1, DependentsAreCounted DEF SchedOK
<1> HIDE DEF degree
<1>4. /\ sched'.inDegree = degree
      /\ sched'.ready = (sched.ready \ {next}) \cup {id \in PlanSteps : sched.inDegree[id] > 0 /\ degree[id] <= 0}
      /\ sched'.ordered = Append(Ordered, next)
  BY <1>1 DEF PopReady, Ordered, next, degree
<1>5. /\ Ordered' \in Seq(PlanSteps) /\ Len(Ordered') = Len(Ordered) + 1
      /\ \A i \in 1..Len(Ordered) : Ordered'[i] = Ordered[i]
      /\ Ordered'[Len(Ordered) + 1] = next
      /\ Len(Ordered) \in Nat
  <2>1. Ordered' = Append(Ordered, next)
    BY <1>4 DEF Ordered
  <2>2. Ordered \in Seq(PlanSteps) /\ next \in PlanSteps
    BY <1>2 DEF SchedOK
  <2> HIDE DEF Ordered
  <2> QED BY <2>1, <2>2
<1>6. \A i \in 1..Len(Ordered') : Ordered'[i] = next \/ \E k \in 1..Len(Ordered) : i = k /\ Ordered'[i] = Ordered[k]
  BY <1>5
<1>7. \A i, j \in 1..Len(Ordered') : Ordered'[i] = Ordered'[j] => i = j
  <2> SUFFICES ASSUME NEW i \in 1..Len(Ordered'), NEW j \in 1..Len(Ordered'), Ordered'[i] = Ordered'[j]
               PROVE  i = j
    OBVIOUS
  <2>1. \A k \in 1..Len(Ordered) : Ordered[k] # next
    BY <1>2 DEF SchedOK
  <2>2. \A k, l \in 1..Len(Ordered) : Ordered[k] = Ordered[l] => k = l
    BY DEF SchedOK
  <2>3. \A k \in 1..Len(Ordered') : k = Len(Ordered) + 1 \/ k \in 1..Len(Ordered)
    BY <1>5
  <2> HIDE DEF Ordered
  <2> QED BY <1>5, <2>1, <2>2, <2>3
<1>8. \A i \in 1..Len(Ordered') : degree[Ordered'[i]] <= 0
  <2>1. degree[next] <= 0
    BY <1>2, <1>3 DEF SchedOK
  <2>2. \A k \in 1..Len(Ordered) : degree[Ordered[k]] <= 0
    BY <1>3 DEF SchedOK
  <2> QED BY <1>6, <2>1, <2>2
<1>9. \A s \in sched'.ready : degree[s] <= 0 /\ \A i \in 1..Len(Ordered') : Ordered'[i] # s
  <2> SUFFICES ASSUME NEW s \in sched'.ready, NEW i \in 1..Len(Ordered')
               PROVE  degree[s] <= 0 /\ Ordered'[i] # s
    BY <1>5
  <2>1. CASE s \in sched.ready /\ s # next
    BY <1>3, <1>6, <2>1, SMTT(30) DEF SchedOK
  <2>2. CASE s \in PlanSteps /\ sched.inDegree[s] > 0 /\ degree[s] <= 0
    BY <1>2, <1>6, <2>2 DEF SchedOK
  <2> QED BY <1>4, <2>1, <2>2
<1>10. sched'.ready \in SUBSET PlanSteps
  BY <1>4 DEF SchedOK
<1> QED BY <1>1, <1>3, <1>4, <1>5, <1>7, <1>8, <1>9, <1>10 DEF SchedOK
------------------------------------------------------------------------------
(* The inductive invariant.                                                *)

RecordType ==
  [step : PlanSteps, state : StepStates, attempts : Nat,
   granted : {"none", "granted", "denied"}, rollback : {"none", "done", "unsupported"}]

SettledStates == {"succeeded", "failed", "skipped"}

TypesOK ==
  /\ plan \in Plans
  /\ stepState \in [PlanSteps -> StepStates]
  /\ attempt \in Nat
  /\ index \in Nat \ {0}
  /\ records \in Seq(RecordType)
  /\ updated \in Seq(RecordType)
  /\ runState \in RunStates

\* Before the loop nothing has happened to any step.
StartOK ==
  pc \in {"start", "ordering"} =>
    /\ index = 1
    /\ records = <<>>
    /\ runState \in {"pending", "running"}
    /\ pc = "ordering" => runState = "running"
    /\ \A s \in PlanSteps : stepState[s] = "pending"

RecordsAgree(from) ==
  \A i \in 1..Len(records) : i >= from =>
    /\ records[i].step = Ordered[i]
    /\ records[i].state = stepState[Ordered[i]]

InRun == pc \in {"loop", "confirming", "invoking"}

\* In the loop the steps before index are settled and on record, those from
\* index on are pending, but for the current one while it is invoked.
LoopOK ==
  InRun =>
    /\ Len(Ordered) = Len(plan)
    /\ runState = "running"
    /\ index <= Len(Ordered) + 1
    /\ Len(records) = index - 1
    /\ RecordsAgree(1)
    /\ \A i \in 1..Len(Ordered) :
         /\ i < index => stepState[Ordered[i]] \in SettledStates
         /\ i > index => stepState[Ordered[i]] = "pending"
         /\ i = index => stepState[Ordered[i]] = IF pc = "invoking" THEN "running" ELSE "pending"
    /\ pc # "loop" => index <= Len(Ordered) /\ Current.deps \subseteq Succeeded

\* The rollback pass has not touched the steps of the records it has not reached.
RollbackOK ==
  pc = "rollback" =>
    /\ runState = "failed"
    /\ Len(records) = Len(Ordered)
    /\ RecordsAgree(index)

Inv == TypesOK /\ SchedOK /\ StartOK /\ LoopOK /\ RollbackOK

LEMMA InitOK == Init => Inv
<1> SUFFICES ASSUME Init PROVE Inv
  OBVIOUS
<1>1. TypesOK
  BY DEF Init, TypesOK, StepStates, RunStates
<1>2. SchedOK
  BY UnorderedOK DEF Init
<1>3. StartOK
  BY DEF Init, StartOK
<1>4. LoopOK /\ RollbackOK
  BY DEF Init, LoopOK, RollbackOK, InRun
<1> QED BY <1>1, <1>2, <1>3, <1>4 DEF Inv

\* While the plan and the schedule stay, so does all that is read off them.
LEMMA ScheduleStays ==
  ASSUME SchedOK, UNCHANGED <<plan, sched>>
  PROVE  SchedOK' /\ Ordered' = Ordered /\ PlanSteps' = PlanSteps /\ RecordType' = RecordType
<1>1. Ordered' = Ordered /\ PlanSteps' = PlanSteps
  BY DEF Ordered, PlanSteps
<1>2. RecordType' = RecordType
  BY <1>1 DEF RecordType
<1> QED BY <1>1, <1>2 DEF SchedOK

\* The current step is the one the order has at index.
LEMMA CurrentStep ==
  ASSUME TypesOK, SchedOK, index <= Len(Ordered)
  PROVE  /\ index \in 1..Len(Ordered) /\ Len(Ordered) \in Nat
         /\ Ordered[index] \in PlanSteps /\ Current.id = Ordered[index]
<1>1. Len(Ordered) \in Nat
  BY DEF SchedOK
<1>2. index \in 1..Len(Ordered)
  BY <1>1 DEF TypesOK
<1>3. Ordered[index] \in PlanSteps
  BY <1>2 DEF SchedOK
<1>4. PlanTyped(plan)
  BY PlansAssumption DEF TypesOK, PlanTyped, StepRecord
<1> QED BY <1>1, <1>2, <1>3, <1>4, StepOfPlan DEF Current, PlanSteps

------------------------------------------------------------------------------
(* The steps keep the invariant.                                           *)

\* The step of the order at index is the only one of its kind.
LEMMA OthersDiffer ==
  ASSUME TypesOK, SchedOK, index <= Len(Ordered)
  PROVE  \A i \in 1..Len(Ordered) : i # index => Ordered[i] # Ordered[index]
BY CurrentStep DEF SchedOK

\* What a change of the current step's state to x does to the states.
LEMMA OnlyCurrentChanges ==
  ASSUME TypesOK, SchedOK, index <= Len(Ordered), NEW x \in StepStates,
         stepState' = [stepState EXCEPT ![Current.id] = x], UNCHANGED <<plan, sched>>
  PROVE  /\ stepState' \in [PlanSteps -> StepStates]
         /\ stepState'[Ordered[index]] = x
         /\ \A i \in 1..Len(Ordered) : i # index => stepState'[Ordered[i]] = stepState[Ordered[i]]
<1>1. Ordered[index] \in PlanSteps /\ Current.id = Ordered[index]
  BY CurrentStep
<1>2. \A i \in 1..Len(Ordered) : i # index => Ordered[i] # Ordered[index] /\ Ordered[i] \in PlanSteps
  BY OthersDiffer DEF SchedOK
<1>3. stepState \in [PlanSteps -> StepStates]
  BY DEF TypesOK
<1> QED BY <1>1, <1>2, <1>3

\* To settle the current step, whatever it comes to.
LEMMA SettleKeeps ==
  ASSUME Inv, InRun, index <= Len(Ordered),
         NEW state \in SettledStates, NEW attempts \in Nat,
         NEW granted \in {"none", "granted", "denied"}, NEW events,
         Settle(state, attempts, granted, events), UNCHANGED <<plan, sched, runState, updated>>
  PROVE  Inv'
<1>1. TypesOK /\ SchedOK /\ LoopOK
  BY DEF Inv
<1>2. SchedOK' /\ Ordered' = Ordered /\ PlanSteps' = PlanSteps /\ RecordType' = RecordType
  BY <1>1, ScheduleStays
<1>3. /\ index \in 1..Len(Ordered) /\ Len(Ordered) \in Nat
      /\ Ordered[index] \in PlanSteps /\ Current.id = Ordered[index]
  BY <1>1, CurrentStep
<1>4. /\ stepState' \in [PlanSteps -> StepStates]
      /\ stepState'[Ordered[index]] = state
      /\ \A i \in 1..Len(Ordered) : i # index => stepState'[Ordered[i]] = stepState[Ordered[i]]
  BY <1>1, OnlyCurrentChanges DEF Settle, SettledStates, StepStates
<1> DEFINE new == Record(Current.id, state, attempts, granted)
<1>5. new \in RecordType /\ new.step = Ordered[index] /\ new.state = state
  BY <1>3 DEF Record, RecordType, SettledStates, StepStates
<1>6. records' = Append(records, new) /\ index' = index + 1 /\ pc' = "loop" /\ attempt' = 0
  BY DEF Settle
<1> HIDE DEF new
<1>7. /\ records' \in Seq(RecordType) /\ Len(records') = Len(records) + 1
      /\ records'[Len(records) + 1] = new
      /\ \A i \in 1..Len(records) : records'[i] = records[i]
      /\ Len(records) \in Nat
  BY <1>1, <1>5, <1>6 DEF TypesOK
<1>8. TypesOK'
  BY <1>1, <1>2, <1>4, <1>6, <1>7 DEF TypesOK
<1>9. Len(records) = index - 1 /\ RecordsAgree(1) /\ Len(Ordered) = Len(plan) /\ runState = "running"
  BY <1>1 DEF LoopOK
<1>10. RecordsAgree(1)'
  <2> SUFFICES ASSUME NEW i \in 1..Len(records')
               PROVE  records'[i].step = Ordered[i] /\ records'[i].state = stepState'[Ordered[i]]
    BY <1>2 DEF RecordsAgree
  <2>1. CASE i \in 1..Len(records)
    BY <1>3, <1>4, <1>7, <1>9, <2>1 DEF RecordsAgree
  <2>2. CASE i = index
    BY <1>4, <1>5, <1>7, <1>9, <2>2
  <2> QED BY <1>3, <1>7, <1>9, <2>1, <2>2
<1>11. \A i \in 1..Len(Ordered) :
         /\ i < index' => stepState'[Ordered[i]] \in SettledStates
         /\ i >= index' => stepState'[Ordered[i]] = "pending"
  <2> SUFFICES ASSUME NEW i \in 1..Len(Ordered)
               PROVE  /\ i < index' => stepState'[Ordered[i]] \in SettledStates
                      /\ i >= index' => stepState'[Ordered[i]] = "pending"
    OBVIOUS
  <2>1. CASE i = index
    BY <1>3, <1>4, <1>6, <2>1
  <2>2. CASE i # index
    BY <1>1, <1>3, <1>4, <1>6, <2>2 DEF LoopOK
  <2> QED BY <2>1, <2>2
<1>12. LoopOK'
  <2>1. Len(Ordered') = Len(plan') /\ runState' = "running" /\ pc' = "loop"
    BY <1>2, <1>6, <1>9
  <2>2. index' <= Len(Ordered') + 1 /\ Len(records') = index' - 1
    BY <1>2, <1>3, <1>6, <1>7, <1>9
  <2>3. \A i \in 1..Len(Ordered') :
          /\ i < index' => stepState'[Ordered'[i]] \in SettledStates
          /\ i > index' => stepState'[Ordered'[i]] = "pending"
          /\ i = index' => stepState'[Ordered'[i]] = "pending"
    BY <1>2, <1>3, <1>6, <1>11
  <2> QED BY <1>10, <2>1, <2>2, <2>3 DEF LoopOK
<1>13. StartOK' /\ RollbackOK'
  BY <1>6 DEF StartOK, RollbackOK
<1> QED BY <1>2, <1>8, <1>12, <1>13 DEF Inv

\* The places in which the current step is about to be settled.
LEMMA InRunAt ==
  ASSUME Inv, pc \in {"confirming", "invoking"}
  PROVE  InRun /\ index <= Len(Ordered) /\ Current.deps \subseteq Succeeded
BY DEF Inv, LoopOK, InRun

LEMMA SchedulingKeeps == Inv /\ (StartRun \/ OrderNext \/ OrderDone) => Inv'
<1> SUFFICES ASSUME Inv, StartRun \/ OrderNext \/ OrderDone PROVE Inv'
  OBVIOUS
<1>1. TypesOK /\ SchedOK /\ StartOK
  BY DEF Inv
<1>2. PlanSteps' = PlanSteps /\ RecordType' = RecordType
  BY DEF StartRun, OrderNext, OrderDone, PlanSteps, RecordType, inputs
<1>3. TypesOK'
  BY <1>1, <1>2 DEF TypesOK, StartRun, OrderNext, OrderDone, inputs, RunStates
<1>4. RollbackOK'
  BY DEF RollbackOK, StartRun, OrderNext, OrderDone
<1>5. CASE StartRun
  <2>1. SchedOK'
    BY <1>1, <1>5, ScheduleStays DEF StartRun, inputs
  <2>2. StartOK' /\ LoopOK'
    BY <1>1, <1>2, <1>5 DEF StartRun, StartOK, LoopOK, InRun
  <2> QED BY <1>3, <1>4, <2>1, <2>2 DEF Inv
<1>6. CASE OrderNext
  <2>1. SchedOK'
    BY <1>1, <1>6, PopReadyOK DEF OrderNext, TypesOK, inputs
  <2>2. StartOK' /\ LoopOK'
    BY <1>1, <1>2, <1>6 DEF OrderNext, StartOK, LoopOK, InRun
  <2> QED BY <1>3, <1>4, <2>1, <2>2 DEF Inv
<1>7. CASE OrderDone
  <2>1. SchedOK' /\ Ordered' = Ordered
    BY <1>1, <1>7, ScheduleStays DEF OrderDone, inputs
  <2>2. /\ index = 1 /\ index' = 1 /\ records' = <<>> /\ runState' = "running"
        /\ pc' = "loop" /\ UNCHANGED stepState /\ Len(Ordered) = Len(plan) /\ plan' = plan
        /\ \A s \in PlanSteps : stepState[s] = "pending"
    BY <1>1, <1>7 DEF OrderDone, StartOK, inputs
  <2>3. \A i \in 1..Len(Ordered) : stepState[Ordered[i]] = "pending"
    BY <1>1, <2>2 DEF SchedOK
  <2>4. Len(Ordered) \in Nat
    BY <1>1 DEF SchedOK
  <2>5. RecordsAgree(1)' /\ Len(records') = 0
    BY <2>2 DEF RecordsAgree
  <2>6. StartOK' /\ LoopOK'
    BY <2>1, <2>2, <2>3, <2>4, <2>5 DEF StartOK, LoopOK, InRun
  <2> QED BY <1>3, <1>4, <2>1, <2>6 DEF Inv
<1> QED BY <1>5, <1>6, <1>7

LEMMA Concatenation ==
  ASSUME NEW S, NEW s \in Seq(S), NEW t \in Seq(S)
  PROVE  /\ s \o t \in Seq(S) /\ Len(s \o t) = Len(s) + Len(t)
         /\ \A i \in 1..Len(s) : (s \o t)[i] = s[i]
         /\ \A i \in 1..Len(t) : (s \o t)[Len(s) + i] = t[i]
         /\ Len(s) \in Nat /\ Len(t) \in Nat
OBVIOUS

LEMMA RemainingSteps ==
  ASSUME TypesOK, SchedOK, index <= Len(Ordered)
  PROVE  /\ Remaining \in Seq(PlanSteps) /\ Len(Remaining) = Len(Ordered) - index + 1
         /\ \A i \in 1..Len(Remaining) : Remaining[i] = Ordered[index + i - 1]
         /\ ToSet(Remaining) = {Ordered[i] : i \in index..Len(Ordered)}
<1>1. index \in 1..Len(Ordered) /\ Len(Ordered) \in Nat /\ Ordered \in Seq(PlanSteps)
  BY CurrentStep DEF SchedOK
<1>2. /\ Remaining \in Seq(PlanSteps) /\ Len(Remaining) = Len(Ordered) - index + 1
      /\ \A i \in 1..Len(Remaining) : Remaining[i] = Ordered[index + i - 1]
  <2> HIDE DEF Ordered
  <2> QED BY <1>1 DEF Remaining
<1>3. ToSet(Remaining) = {Remaining[i] : i \in 1..Len(Remaining)}
  BY <1>2 DEF ToSet
<1>4. \A i \in index..Len(Ordered) : i - index + 1 \in 1..Len(Remaining) /\ index + (i - index + 1) - 1 = i
  BY <1>1, <1>2
<1>5. \A i \in 1..Len(Remaining) : index + i - 1 \in index..Len(Ordered)
  BY <1>1, <1>2
<1>6. ToSet(Remaining) \subseteq {Ordered[i] : i \in index..Len(Ordered)}
  BY <1>2, <1>3, <1>5
<1>7. \A i \in index..Len(Ordered) : Remaining[i - index + 1] = Ordered[i]
  BY <1>2, <1>4
<1>8. {Ordered[i] : i \in index..Len(Ordered)} \subseteq ToSet(Remaining)
  BY <1>3, <1>4, <1>7
<1> QED BY <1>2, <1>6, <1>8

LEMMA CancellationKeeps == Inv /\ ObserveCancellation => Inv'
<1> SUFFICES ASSUME Inv, ObserveCancellation PROVE Inv'
  OBVIOUS
<1>1. TypesOK /\ SchedOK /\ LoopOK /\ InRun /\ index <= Len(Ordered) /\ pc = "loop"
  BY DEF Inv, ObserveCancellation, InLoop, InRun
<1>2. /\ SchedOK' /\ Ordered' = Ordered /\ PlanSteps' = PlanSteps /\ RecordType' = RecordType
      /\ plan' = plan /\ runState' = runState /\ pc' = pc /\ index' = Len(Ordered) + 1
  BY <1>1, ScheduleStays DEF ObserveCancellation, inputs
<1>3. index \in 1..Len(Ordered) /\ Len(Ordered) \in Nat
  BY <1>1, CurrentStep
<1>4. /\ Remaining \in Seq(PlanSteps) /\ Len(Remaining) = Len(Ordered) - index + 1
      /\ \A i \in 1..Len(Remaining) : Remaining[i] = Ordered[index + i - 1]
      /\ ToSet(Remaining) = {Ordered[i] : i \in index..Len(Ordered)}
  BY <1>1, RemainingSteps
<1>5. /\ stepState \in [PlanSteps -> StepStates]
      /\ stepState' = [s \in PlanSteps |-> IF s \in ToSet(Remaining) THEN "skipped" ELSE stepState[s]]
      /\ stepState' \in [PlanSteps -> StepStates]
  BY <1>1 DEF ObserveCancellation, TypesOK, StepStates
<1>6. \A i \in 1..Len(Ordered) :
        stepState'[Ordered[i]] = IF i < index THEN stepState[Ordered[i]] ELSE "skipped"
  <2> SUFFICES ASSUME NEW i \in 1..Len(Ordered)
               PROVE  stepState'[Ordered[i]] = IF i < index THEN stepState[Ordered[i]] ELSE "skipped"
    OBVIOUS
  <2>1. Ordered[i] \in PlanSteps
    BY <1>1 DEF SchedOK
  <2>2. CASE i < index
    <3>1. Ordered[i] \notin ToSet(Remaining)
      BY <1>1, <1>3, <1>4, <2>2, SMTT(30) DEF SchedOK
    <3> QED BY <1>5, <2>1, <2>2, <3>1
  <2>3. CASE i >= index
    <3>1. Ordered[i] \in ToSet(Remaining)
      BY <1>3, <1>4, <2>3
    <3> QED BY <1>3, <1>5, <2>1, <2>3, <3>1
  <2> QED BY <1>3, <2>2, <2>3
<1> DEFINE rest == [i \in 1..Len(Remaining) |-> Record(Remaining[i], "skipped", 0, "none")]
<1>7. /\ rest \in Seq(RecordType) /\ Len(rest) = Len(Remaining)
      /\ \A i \in 1..Len(rest) : rest[i].step = Remaining[i] /\ rest[i].state = "skipped"
  <2>1. Len(Remaining) \in Nat /\ \A i \in 1..Len(Remaining) : Remaining[i] \in PlanSteps
    BY <1>4
  <2>2. \A i \in 1..Len(Remaining) :
          /\ Record(Remaining[i], "skipped", 0, "none") \in RecordType
          /\ Record(Remaining[i], "skipped", 0, "none").step = Remaining[i]
          /\ Record(Remaining[i], "skipped", 0, "none").state = "skipped"
    BY <2>1 DEF Record, RecordType, StepStates
  <2> QED BY <2>1, <2>2
<1>8. records' = records \o rest /\ records \in Seq(RecordType)
  BY <1>1 DEF ObserveCancellation, TypesOK
<1> HIDE DEF rest
<1>9. /\ records' \in Seq(RecordType) /\ Len(records') = Len(records) + Len(rest)
      /\ \A i \in 1..Len(records) : records'[i] = records[i]
      /\ \A i \in 1..Len(rest) : records'[Len(records) + i] = rest[i]
      /\ Len(records) \in Nat /\ Len(rest) \in Nat
  <2>1. /\ records \o rest \in Seq(RecordType) /\ Len(records \o rest) = Len(records) + Len(rest)
        /\ \A i \in 1..Len(records) : (records \o rest)[i] = records[i]
        /\ \A i \in 1..Len(rest) : (records \o rest)[Len(records) + i] = rest[i]
        /\ Len(records) \in Nat /\ Len(rest) \in Nat
    <3>1. rest \in Seq(RecordType) /\ records \in Seq(RecordType)
      BY <1>7, <1>8
    <3> QED BY <3>1, Concatenation
  <2> QED BY <1>8, <2>1, Zenon
<1>10. TypesOK'
  BY <1>1, <1>2, <1>3, <1>5, <1>9 DEF TypesOK, ObserveCancellation
<1>11. Len(records) = index - 1 /\ RecordsAgree(1) /\ Len(Ordered) = Len(plan) /\ runState = "running"
  BY <1>1 DEF LoopOK
<1>12. Len(records') = Len(Ordered)
  BY <1>3, <1>4, <1>7, <1>9, <1>11
<1>13. RecordsAgree(1)'
  <2> SUFFICES ASSUME NEW i \in 1..Len(Ordered)
               PROVE  records'[i].step = Ordered[i] /\ records'[i].state = stepState'[Ordered[i]]
    BY <1>2, <1>12 DEF RecordsAgree
  <2>1. CASE i < index
    <3>1. i \in 1..Len(records) /\ i >= 1
      BY <1>3, <1>11, <2>1
    <3>2. records'[i] = records[i] /\ stepState'[Ordered[i]] = stepState[Ordered[i]]
      BY <1>6, <1>9, <2>1, <3>1
    <3> QED BY <1>11, <3>1, <3>2 DEF RecordsAgree
  <2>2. CASE i >= index
    <3> DEFINE j == i - index + 1
    <3>1. j \in 1..Len(rest) /\ i = Len(records) + j /\ index + j - 1 = i
      BY <1>3, <1>4, <1>7, <1>11, <2>2
    <3> HIDE DEF j
    <3>2. records'[i] = rest[j] /\ rest[j].step = Ordered[i] /\ rest[j].state = "skipped"
      BY <1>4, <1>7, <1>9, <3>1
    <3> QED BY <1>3, <1>6, <2>2, <3>2
  <2> QED BY <1>3, <2>1, <2>2
<1>14. \A i \in 1..Len(Ordered) : stepState'[Ordered[i]] \in SettledStates /\ i < index'
  BY <1>1, <1>2, <1>3, <1>6 DEF LoopOK, SettledStates
<1>15. LoopOK'
  <2>1. Len(Ordered') = Len(plan') /\ runState' = "running" /\ pc' = "loop"
    BY <1>1, <1>2, <1>11
  <2>2. index' <= Len(Ordered') + 1 /\ Len(records') = index' - 1
    BY <1>2, <1>3, <1>12
  <2>3. \A i \in 1..Len(Ordered') :
          /\ i < index' => stepState'[Ordered'[i]] \in SettledStates
          /\ i > index' => stepState'[Ordered'[i]] = "pending"
          /\ i = index' => stepState'[Ordered'[i]] = "pending"
    BY <1>2, <1>3, <1>14
  <2> QED BY <1>13, <2>1, <2>2, <2>3 DEF LoopOK
<1>16. StartOK' /\ RollbackOK'
  BY <1>1, <1>2 DEF StartOK, RollbackOK
<1> QED BY <1>2, <1>10, <1>15, <1>16 DEF Inv

\* The step at index goes on to confirmation or to its connector.
LEMMA ProceedKeeps ==
  ASSUME Inv, InRun, index <= Len(Ordered), Current.deps \subseteq Succeeded,
         pc' \in {"confirming", "invoking"}, stepState[Ordered[index]] = "pending",
         stepState' = IF pc' = "invoking" THEN [stepState EXCEPT ![Current.id] = "running"]
                                          ELSE stepState,
         UNCHANGED <<plan, sched, index, attempt, runState, records, updated>>
  PROVE  Inv'
<1>1. TypesOK /\ SchedOK /\ LoopOK
  BY DEF Inv
<1>2. SchedOK' /\ Ordered' = Ordered /\ PlanSteps' = PlanSteps /\ RecordType' = RecordType
  BY <1>1, ScheduleStays
<1>3. /\ index \in 1..Len(Ordered) /\ Len(Ordered) \in Nat
      /\ Ordered[index] \in PlanSteps /\ Current.id = Ordered[index]
  BY <1>1, CurrentStep
<1>4. /\ stepState' \in [PlanSteps -> StepStates]
      /\ stepState'[Ordered[index]] = IF pc' = "invoking" THEN "running" ELSE "pending"
      /\ \A i \in 1..Len(Ordered) : i # index => stepState'[Ordered[i]] = stepState[Ordered[i]]
  <2>1. CASE pc' = "invoking"
    BY <1>1, <2>1, OnlyCurrentChanges DEF StepStates
  <2>2. CASE pc' = "confirming"
    BY <1>1, <2>2 DEF TypesOK
  <2> QED BY <2>1, <2>2
<1>5. TypesOK'
  BY <1>1, <1>2, <1>4 DEF TypesOK
<1>6. Len(records) = index - 1 /\ RecordsAgree(1) /\ Len(Ordered) = Len(plan) /\ runState = "running"
  BY <1>1 DEF LoopOK
<1>7. RecordsAgree(1)'
  BY <1>2, <1>3, <1>4, <1>6 DEF RecordsAgree
<1>8. Current'.deps \subseteq Succeeded'
  <2>1. Current' = Current
    BY <1>2 DEF Current
  <2>2. \A s \in PlanSteps : stepState[s] = "succeeded" => stepState'[s] = "succeeded"
    <3>1. stepState \in [PlanSteps -> StepStates]
      BY <1>1 DEF TypesOK
    <3> QED BY <1>3, <3>1
  <2> QED BY <1>2, <2>1, <2>2 DEF Succeeded
<1>9. LoopOK'
  <2>1. Len(Ordered') = Len(plan') /\ runState' = "running" /\ index' <= Len(Ordered')
    BY <1>2, <1>6
  <2>2. index' <= Len(Ordered') + 1 /\ Len(records') = index' - 1
    BY <1>2, <1>3, <1>6
  <2>3. \A i \in 1..Len(Ordered') :
          /\ i < index' => stepState'[Ordered'[i]] \in SettledStates
          /\ i > index' => stepState'[Ordered'[i]] = "pending"
          /\ i = index' => stepState'[Ordered'[i]] = IF pc' = "invoking" THEN "running" ELSE "pending"
    BY <1>1, <1>2, <1>3, <1>4 DEF LoopOK
  <2> QED BY <1>7, <1>8, <2>1, <2>2, <2>3 DEF LoopOK
<1>10. StartOK' /\ RollbackOK'
  BY DEF StartOK, RollbackOK
<1> QED BY <1>2, <1>5, <1>9, <1>10 DEF Inv

LEMMA LoopKeeps ==
  Inv /\ (SkipUnmet \/ BeginStep \/ ConfirmationGranted \/ ConfirmationDenied \/ Unavailable) => Inv'
<1> SUFFICES ASSUME Inv, SkipUnmet \/ BeginStep \/ ConfirmationGranted \/ ConfirmationDenied \/ Unavailable
             PROVE  Inv'
  OBVIOUS
<1>1. /\ InRun /\ index <= Len(Ordered)
      /\ pc # "loop" => Current.deps \subseteq Succeeded
  <2>1. CASE SkipUnmet \/ BeginStep
    BY <2>1 DEF SkipUnmet, BeginStep, InLoop, InRun
  <2>2. CASE ConfirmationGranted \/ ConfirmationDenied \/ Unavailable
    BY <2>2, InRunAt DEF ConfirmationGranted, ConfirmationDenied, Unavailable
  <2> QED BY <2>1, <2>2
<1>2. stepState[Ordered[index]] = IF pc = "invoking" THEN "running" ELSE "pending"
  BY <1>1, CurrentStep DEF Inv, LoopOK
<1>3. CASE SkipUnmet \/ ConfirmationDenied
  <2>1. PICK granted \in {"none", "denied"} : \E events : Settle("skipped", 0, granted, events)
    BY <1>3 DEF SkipUnmet, ConfirmationDenied
  <2>2. PICK events : Settle("skipped", 0, granted, events)
    BY <2>1
  <2>3. UNCHANGED <<plan, sched, runState, updated>>
    BY <1>3 DEF SkipUnmet, ConfirmationDenied, inputs
  <2> QED BY <1>1, <2>2, <2>3, SettleKeeps DEF SettledStates
<1>4. CASE Unavailable
  <2>1. PICK events : Settle("failed", 0, Granted, events) /\ UNCHANGED <<plan, sched, runState, updated>>
    BY <1>4 DEF Unavailable, StepFails, inputs
  <2> QED BY <1>1, <2>1, SettleKeeps DEF SettledStates, Granted
<1>5. CASE BeginStep \/ ConfirmationGranted
  <2>1. /\ Current.deps \subseteq Succeeded
        /\ UNCHANGED <<plan, sched, index, attempt, runState, records, updated>>
        /\ stepState[Ordered[index]] = "pending"
    BY <1>1, <1>2, <1>5 DEF BeginStep, ConfirmationGranted, InLoop, MayBegin, DependenciesMet, inputs
  <2>2. /\ pc' \in {"confirming", "invoking"}
        /\ stepState' = IF pc' = "invoking" THEN [stepState EXCEPT ![Current.id] = "running"] ELSE stepState
    BY <1>5 DEF BeginStep, ConfirmationGranted
  <2> QED BY <1>1, <2>1, <2>2, ProceedKeeps
<1> QED BY <1>3, <1>4, <1>5

LEMMA CallKeeps ==
  ASSUME Inv, NEW response \in {"success", "partial", "failure"}, Call(response)
  PROVE  Inv'
<1>1. InRun /\ index <= Len(Ordered) /\ pc = "invoking"
  BY InRunAt DEF Call
<1>2. TypesOK /\ SchedOK /\ LoopOK
  BY DEF Inv
<1>3. UNCHANGED <<plan, sched, runState, updated>> /\ attempt + 1 \in Nat
  BY <1>2 DEF Call, inputs, TypesOK
<1>4. CASE response = "failure" /\ Retries(attempt + 1)
  <2>1. UNCHANGED <<pc, index, stepState, records>> /\ attempt' = attempt + 1
    BY <1>4 DEF Call
  <2>2. SchedOK' /\ Ordered' = Ordered /\ PlanSteps' = PlanSteps /\ RecordType' = RecordType
    BY <1>2, <1>3, ScheduleStays
  <2>3. TypesOK'
    BY <1>2, <1>3, <2>1, <2>2 DEF TypesOK
  <2>4. RecordsAgree(1) => RecordsAgree(1)'
    BY <2>1, <2>2 DEF RecordsAgree
  <2>5. Current' = Current /\ Succeeded' = Succeeded
    BY <1>3, <2>1, <2>2 DEF Current, Succeeded
  <2>6. LoopOK'
    BY <1>1, <1>2, <1>3, <2>1, <2>2, <2>4, <2>5 DEF LoopOK, InRun
  <2>7. StartOK' /\ RollbackOK'
    BY <1>1, <2>1 DEF StartOK, RollbackOK
  <2> QED BY <2>2, <2>3, <2>6, <2>7 DEF Inv
<1>5. CASE ~(response = "failure" /\ Retries(attempt + 1))
  <2>1. PICK state \in SettledStates : \E events : Settle(state, attempt + 1, Granted, events)
    BY <1>5 DEF Call, StepFails, StepSucceeds, SettledStates
  <2>2. PICK events : Settle(state, attempt + 1, Granted, events)
    BY <2>1
  <2> QED BY <1>1, <1>3, <2>2, SettleKeeps DEF Granted
<1> QED BY <1>4, <1>5

\* After an exception nothing is claimed of the state but its types.
LEMMA RaiseKeeps ==
  Inv /\ (OrderFails \/ ConfirmationRaises \/ CallRaises \/ RollBackRaises) => Inv'
<1> SUFFICES ASSUME Inv, Raise PROVE Inv'
  BY DEF OrderFails, ConfirmationRaises, CallRaises, RollBackRaises
<1>1. TypesOK /\ SchedOK
  BY DEF Inv
<1>2. SchedOK' /\ PlanSteps' = PlanSteps /\ RecordType' = RecordType
  BY <1>1, ScheduleStays DEF Raise, inputs
<1>3. TypesOK'
  BY <1>1, <1>2 DEF TypesOK, Raise, inputs
<1>4. StartOK' /\ LoopOK' /\ RollbackOK'
  BY DEF StartOK, LoopOK, RollbackOK, InRun, Raise
<1> QED BY <1>2, <1>3, <1>4 DEF Inv

\* A request for cancellation, or no step at all.
LEMMA OthersKeep == Inv /\ (RequestCancellation \/ UNCHANGED vars) => Inv'
<1> SUFFICES ASSUME Inv, RequestCancellation \/ UNCHANGED vars PROVE Inv'
  OBVIOUS
<1>1. UNCHANGED <<plan, pc, sched, index, attempt, runState, stepState, records, updated>>
  BY DEF RequestCancellation, vars, inputs, engine
<1>2. SchedOK' /\ Ordered' = Ordered /\ PlanSteps' = PlanSteps /\ RecordType' = RecordType
  BY <1>1, ScheduleStays DEF Inv
<1>3. Current' = Current /\ Succeeded' = Succeeded /\ InRun' = InRun
  BY <1>1, <1>2 DEF Current, Succeeded, InRun
<1>4. RecordsAgree(1)' = RecordsAgree(1) /\ RecordsAgree(index)' = RecordsAgree(index)
  BY <1>1, <1>2 DEF RecordsAgree
<1>5. TypesOK' /\ StartOK' /\ RollbackOK'
  BY <1>1, <1>2, <1>4 DEF Inv, TypesOK, StartOK, RollbackOK
<1>6. LoopOK'
  BY <1>1, <1>2, <1>3, <1>4 DEF Inv, LoopOK
<1> QED BY <1>2, <1>5, <1>6 DEF Inv

LEMMA FinalizeKeeps == Inv /\ FinalizeRun => Inv'
<1> SUFFICES ASSUME Inv, FinalizeRun PROVE Inv'
  OBVIOUS
<1>1. TypesOK /\ SchedOK /\ LoopOK
  BY DEF Inv
<1>2. /\ pc = "loop" /\ index > Len(Ordered) /\ runState' = FinalState
      /\ UNCHANGED <<plan, sched, attempt, stepState, records, updated>>
      /\ pc' \in {"rollback", "returned"} /\ index' \in Nat \ {0}
      /\ pc' = "rollback" => FinalState = "failed" /\ index' = 1
  BY <1>1 DEF FinalizeRun, inputs, TypesOK
<1>3. SchedOK' /\ Ordered' = Ordered /\ PlanSteps' = PlanSteps /\ RecordType' = RecordType
  BY <1>1, <1>2, ScheduleStays
<1>4. TypesOK'
  BY <1>1, <1>2, <1>3 DEF TypesOK, FinalState, RunStates
<1>5. Len(Ordered) \in Nat
  BY <1>1 DEF SchedOK
<1>6. Len(records) = Len(Ordered) /\ RecordsAgree(1)
  BY <1>1, <1>2, <1>5 DEF LoopOK, InRun, TypesOK
<1>7. RecordsAgree(1)'
  BY <1>2, <1>3, <1>6 DEF RecordsAgree
<1>8. RollbackOK'
  <2> SUFFICES ASSUME pc' = "rollback" PROVE RollbackOK'
    BY DEF RollbackOK
  <2>1. RecordsAgree(index)'
    BY <1>2, <1>7 DEF RecordsAgree
  <2> QED BY <1>2, <1>3, <1>6, <2>1 DEF RollbackOK
<1>9. StartOK' /\ LoopOK'
  BY <1>2 DEF StartOK, LoopOK, InRun
<1> QED BY <1>3, <1>4, <1>8, <1>9 DEF Inv

\* What the rollback pass meets at index.
LEMMA RecordAtIndex ==
  ASSUME Inv, pc = "rollback", index <= Len(records)
  PROVE  /\ index \in 1..Len(records) /\ Len(records) \in Nat /\ Len(records) = Len(Ordered)
         /\ records[index] \in RecordType
         /\ records[index].step = Ordered[index] /\ Ordered[index] \in PlanSteps
         /\ records[index].state = stepState[Ordered[index]]
<1>1. index \in 1..Len(records) /\ records[index] \in RecordType /\ Len(records) \in Nat
  BY DEF Inv, TypesOK
<1>2. Len(records) = Len(Ordered) /\ RecordsAgree(index)
  BY DEF Inv, RollbackOK
<1>3. Ordered[index] \in PlanSteps
  BY <1>1, <1>2 DEF Inv, SchedOK
<1> QED BY <1>1, <1>2, <1>3 DEF RecordsAgree

LEMMA RollbackKeeps ==
  Inv /\ (KeepRecord \/ \E supported \in BOOLEAN : RollBackRecord(supported)) => Inv'
<1> SUFFICES ASSUME Inv, KeepRecord \/ \E supported \in BOOLEAN : RollBackRecord(supported)
             PROVE  Inv'
  OBVIOUS
<1> DEFINE old == records[index]
<1>1. /\ pc = "rollback" /\ index <= Len(records) /\ index' = index + 1
      /\ UNCHANGED <<plan, pc, sched, attempt, runState, records>>
      /\ stepState' \in {stepState, [stepState EXCEPT ![old.step] = "rolled_back"]}
  BY DEF KeepRecord, RollBackRecord, inputs
<1>2. TypesOK /\ SchedOK /\ RollbackOK
  BY DEF Inv
<1>3. SchedOK' /\ Ordered' = Ordered /\ PlanSteps' = PlanSteps /\ RecordType' = RecordType
  BY <1>1, <1>2, ScheduleStays
<1>4. /\ index \in 1..Len(records) /\ Len(records) \in Nat /\ Len(records) = Len(Ordered)
      /\ old \in RecordType /\ old.step = Ordered[index] /\ Ordered[index] \in PlanSteps
  BY <1>1, RecordAtIndex
<1>5. updated' \in Seq(RecordType)
  <2>1. PICK new \in {old, [old EXCEPT !.state = "rolled_back", !.rollback = "done"],
                           [old EXCEPT !.rollback = "unsupported"]} : updated' = Append(updated, new)
    BY DEF KeepRecord, RollBackRecord
  <2>2. new \in RecordType
    BY <1>4, <2>1 DEF RecordType, StepStates
  <2>3. updated \in Seq(RecordType)
    BY <1>2 DEF TypesOK
  <2> QED BY <2>1, <2>2, <2>3
<1>6. stepState' \in [PlanSteps -> StepStates]
  BY <1>1, <1>2, <1>4 DEF TypesOK, StepStates
<1>7. TypesOK'
  BY <1>1, <1>2, <1>3, <1>4, <1>5, <1>6 DEF TypesOK
<1>8. RecordsAgree(index)'
  <2> SUFFICES ASSUME NEW i \in 1..Len(records), i > index
               PROVE  records[i].step = Ordered[i] /\ records[i].state = stepState'[Ordered[i]]
    BY <1>1, <1>3, <1>4 DEF RecordsAgree
  <2>1. records[i].step = Ordered[i] /\ records[i].state = stepState[Ordered[i]]
    BY <1>1, <1>2, <1>4 DEF RollbackOK, RecordsAgree
  <2>2. Ordered[i] # Ordered[index] /\ Ordered[i] \in PlanSteps
    BY <1>2, <1>4 DEF SchedOK
  <2>3. stepState'[Ordered[i]] = stepState[Ordered[i]]
    BY <1>1, <1>2, <1>4, <2>2 DEF TypesOK
  <2> QED BY <2>1, <2>3
<1>9. StartOK' /\ LoopOK' /\ RollbackOK'
  BY <1>1, <1>2, <1>3, <1>8 DEF StartOK, LoopOK, InRun, RollbackOK
<1> QED BY <1>3, <1>7, <1>9 DEF Inv

LEMMA CompleteRollbackKeeps == Inv /\ CompleteRollback => Inv'
<1> SUFFICES ASSUME Inv, CompleteRollback PROVE Inv'
  OBVIOUS
<1>1. TypesOK /\ SchedOK
  BY DEF Inv
<1>2. SchedOK' /\ PlanSteps' = PlanSteps /\ RecordType' = RecordType
  BY <1>1, ScheduleStays DEF CompleteRollback, inputs
<1>3. TypesOK'
  BY <1>1, <1>2 DEF TypesOK, CompleteRollback, inputs, RunStates
<1>4. StartOK' /\ LoopOK' /\ RollbackOK'
  BY DEF StartOK, LoopOK, RollbackOK, InRun, CompleteRollback
<1> QED BY <1>2, <1>3, <1>4 DEF Inv

LEMMA NextKeeps == Inv /\ [Next]_vars => Inv'
BY SchedulingKeeps, CancellationKeeps, LoopKeeps, CallKeeps, RaiseKeeps, OthersKeep, FinalizeKeeps,
   RollbackKeeps, CompleteRollbackKeeps DEF Next, Execute

LEMMA InvHolds == Spec => []Inv
BY InitOK, NextKeeps, PTL DEF Spec

------------------------------------------------------------------------------
(* Every step of the engine is a step of the plan's run, or none of it.    *)

LEMMA EveryStepIsOrdered ==
  ASSUME Inv, InRun
  PROVE  \A s \in PlanSteps : \E i \in 1..Len(Ordered) : s = Ordered[i]
<1>1. PlanTyped(plan) /\ PlanSteps = Ids(plan)
  BY PlansAssumption DEF Inv, TypesOK, PlanTyped, StepRecord, PlanSteps
<1>2. /\ Ordered \in Seq(Ids(plan)) /\ Len(Ordered) = Len(plan)
      /\ \A i, j \in 1..Len(Ordered) : Ordered[i] = Ordered[j] => i = j
  BY <1>1 DEF Inv, SchedOK, LoopOK
<1> HIDE DEF Ordered
<1>3. Ids(plan) = {Ordered[i] : i \in 1..Len(Ordered)}
  BY <1>1, <1>2, OrderHasAllSteps
<1> QED BY <1>1, <1>3

LEMMA InitImplements == Init => Protocol!Init
<1> SUFFICES ASSUME Init PROVE Protocol!Init
  OBVIOUS
<1>1. PlanTyped(plan) /\ PlanSteps = Ids(plan)
  BY PlansAssumption DEF Init, PlanTyped, StepRecord, PlanSteps
<1>2. \A s \in PlanSteps : s \in Steps /\ StepOf(plan, s).deps \in SUBSET Steps
  BY <1>1, StepOfPlan
<1>3. /\ PlanSteps \in SUBSET Steps
      /\ [s \in PlanSteps |-> StepOf(plan, s).deps] \in [PlanSteps -> SUBSET Steps]
  BY <1>2
<1> QED BY <1>3 DEF Init, Protocol!Init

\* What the plan asks of each step does not change while the plan stays.
LEMMA AskedStays ==
  ASSUME plan' = plan
  PROVE  UNCHANGED [s \in PlanSteps |-> StepOf(plan, s).deps]
BY DEF PlanSteps, StepOf, Ids, LastIndex

LEMMA ProceedImplements ==
  ASSUME Inv, InRun, pc # "invoking", index <= Len(Ordered), Current.deps \subseteq Succeeded,
         stepState' = [stepState EXCEPT ![Current.id] = "running"], UNCHANGED <<plan, runState>>
  PROVE  Protocol!Next
<1>1. Ordered[index] \in PlanSteps /\ Current.id = Ordered[index] /\ index \in 1..Len(Ordered)
  BY CurrentStep DEF Inv
<1>2. DOMAIN stepState = PlanSteps /\ runState = "running"
  BY DEF Inv, TypesOK, LoopOK
<1>3. \A s \in PlanSteps : stepState[s] # "running"
  <2> SUFFICES ASSUME NEW s \in PlanSteps PROVE stepState[s] # "running"
    OBVIOUS
  <2>1. PICK i \in 1..Len(Ordered) : s = Ordered[i]
    BY EveryStepIsOrdered
  <2>2. index \in Nat /\ i \in Nat
    BY <1>1
  <2> QED BY <2>1, <2>2 DEF Inv, LoopOK, SettledStates
<1>4. stepState[Current.id] = "pending"
  BY <1>1 DEF Inv, LoopOK
<1>5. StepOf(plan, Current.id).deps \subseteq Succeeded
  BY <1>1 DEF Current
<1>6. Protocol!Begin(Current.id)
  BY <1>1, <1>2, <1>3, <1>4, <1>5, AskedStays DEF Protocol!Begin, Protocol!Having, Succeeded
<1> QED BY <1>1, <1>2, <1>6 DEF Protocol!Next

LEMMA SettleImplements ==
  ASSUME Inv, pc = "invoking", NEW x \in {"succeeded", "failed"},
         stepState' = [stepState EXCEPT ![Current.id] = x], UNCHANGED <<plan, runState>>
  PROVE  Protocol!Next
<1>1. InRun /\ index <= Len(Ordered)
  BY InRunAt
<1>2. Ordered[index] \in PlanSteps /\ Current.id = Ordered[index] /\ index \in 1..Len(Ordered)
  BY <1>1, CurrentStep DEF Inv
<1>3. DOMAIN stepState = PlanSteps /\ stepState[Current.id] = "running"
  BY <1>1, <1>2 DEF Inv, TypesOK, LoopOK
<1>4. Protocol!Settle(Current.id)
  BY <1>3, AskedStays DEF Protocol!Settle
<1> QED BY <1>2, <1>3, <1>4 DEF Protocol!Next

\* Steps of the order from index on may be skipped when the current one is pending.
LEMMA SkipImplements ==
  ASSUME Inv, InRun, pc # "invoking", index <= Len(Ordered),
         NEW S \in SUBSET PlanSteps, Ordered[index] \in S,
         S \subseteq {Ordered[i] : i \in index..Len(Ordered)},
         stepState' = [s \in PlanSteps |-> IF s \in S THEN "skipped" ELSE stepState[s]],
         UNCHANGED <<plan, runState>>
  PROVE  Protocol!Next
<1>1. DOMAIN stepState = PlanSteps /\ runState = "running"
  BY DEF Inv, TypesOK, LoopOK
<1>2. index \in 1..Len(Ordered) /\ Len(Ordered) \in Nat
  BY CurrentStep DEF Inv
<1>3. \A s \in S : stepState[s] = "pending"
  <2> SUFFICES ASSUME NEW s \in S PROVE stepState[s] = "pending"
    OBVIOUS
  <2>1. PICK i \in index..Len(Ordered) : s = Ordered[i]
    OBVIOUS
  <2>2. i \in 1..Len(Ordered) /\ (i > index \/ i = index)
    BY <1>2
  <2> QED BY <2>1, <2>2 DEF Inv, LoopOK
<1>4. Protocol!Skip(S)
  BY <1>1, <1>3, AskedStays DEF Protocol!Skip, Protocol!Having
<1> QED BY <1>1, <1>4 DEF Protocol!Next

LEMMA LoopImplements ==
  Inv /\ (SkipUnmet \/ ConfirmationDenied \/ ObserveCancellation) => Protocol!Next
<1> SUFFICES ASSUME Inv, SkipUnmet \/ ConfirmationDenied \/ ObserveCancellation PROVE Protocol!Next
  OBVIOUS
<1>1. InRun /\ index <= Len(Ordered) /\ pc # "invoking" /\ UNCHANGED <<plan, runState>>
  BY InRunAt DEF SkipUnmet, ConfirmationDenied, ObserveCancellation, InLoop, InRun, inputs
<1>2. /\ Ordered[index] \in PlanSteps /\ Current.id = Ordered[index]
      /\ index \in 1..Len(Ordered) /\ Len(Ordered) \in Nat
  BY <1>1, CurrentStep DEF Inv
<1>3. index \in index..Len(Ordered)
  BY <1>2
<1>4. stepState \in [PlanSteps -> StepStates]
  BY DEF Inv, TypesOK
<1>5. CASE SkipUnmet \/ ConfirmationDenied
  <2>1. stepState' = [stepState EXCEPT ![Ordered[index]] = "skipped"]
    BY <1>2, <1>5 DEF SkipUnmet, ConfirmationDenied, Settle
  <2>2. stepState' = [s \in PlanSteps |-> IF s \in {Ordered[index]} THEN "skipped" ELSE stepState[s]]
    BY <1>4, <2>1
  <2> QED BY <1>1, <1>2, <1>3, <2>2, SkipImplements
<1>6. CASE ObserveCancellation
  <2>1. ToSet(Remaining) = {Ordered[i] : i \in index..Len(Ordered)}
    BY <1>1, RemainingSteps DEF Inv
  <2>2. ToSet(Remaining) \in SUBSET PlanSteps
    <3>1. \A i \in index..Len(Ordered) : i \in 1..Len(Ordered)
      BY <1>2
    <3> QED BY <2>1, <3>1 DEF Inv, SchedOK
  <2>3. Ordered[index] \in ToSet(Remaining)
    BY <1>3, <2>1
  <2>4. stepState' = [s \in PlanSteps |-> IF s \in ToSet(Remaining) THEN "skipped" ELSE stepState[s]]
    BY <1>6 DEF ObserveCancellation
  <2> QED BY <1>1, <2>1, <2>2, <2>3, <2>4, SkipImplements
<1> QED BY <1>5, <1>6

LEMMA FinalizeImplements == Inv /\ FinalizeRun => Protocol!Next
<1> SUFFICES ASSUME Inv, FinalizeRun PROVE Protocol!Next
  OBVIOUS
<1>1. /\ pc = "loop" /\ InRun /\ index > Len(Ordered) /\ runState' = FinalState
      /\ UNCHANGED <<plan, stepState>>
  BY DEF FinalizeRun, InRun, inputs
<1>2. /\ runState = "running" /\ DOMAIN stepState = PlanSteps /\ Len(Ordered) \in Nat
      /\ Len(records) = Len(Ordered)
      /\ \A i \in 1..Len(Ordered) : /\ records[i].state = stepState[Ordered[i]]
                                    /\ stepState[Ordered[i]] \in SettledStates
                                    /\ Ordered[i] \in PlanSteps
  <2>1. Len(Ordered) \in Nat /\ index \in Nat
    BY DEF Inv, SchedOK, TypesOK
  <2>2. Len(records) = Len(Ordered) /\ RecordsAgree(1) /\ runState = "running"
    BY <1>1, <2>1 DEF Inv, LoopOK
  <2>3. \A i \in 1..Len(Ordered) : stepState[Ordered[i]] \in SettledStates
    BY <1>1, <2>1 DEF Inv, LoopOK
  <2>4. \A i \in 1..Len(Ordered) : records[i].state = stepState[Ordered[i]]
    BY <2>2 DEF RecordsAgree
  <2> QED BY <2>1, <2>2, <2>3, <2>4 DEF Inv, TypesOK, SchedOK
<1>3. \A s \in PlanSteps : stepState[s] \in SettledStates
  BY <1>1, <1>2, EveryStepIsOrdered
<1>4. (\E i \in 1..Len(records) : records[i].state = "failed") <=> \E s \in PlanSteps : stepState[s] = "failed"
  BY <1>1, <1>2, EveryStepIsOrdered
<1>5. runState' \in {"cancelled", IF \E s \in PlanSteps : stepState[s] = "failed" THEN "failed" ELSE "completed"}
  BY <1>1, <1>4 DEF FinalState
<1>6. Protocol!End
  BY <1>1, <1>2, <1>3, <1>5, AskedStays DEF Protocol!End, Protocol!Having, SettledStates
<1> QED BY <1>6 DEF Protocol!Next

LEMMA RollbackImplements ==
  ASSUME Inv, NEW supported \in BOOLEAN, RollBackRecord(supported)
  PROVE  Protocol!Next \/ UNCHANGED Protocol!vars
<1>1. /\ pc = "rollback" /\ index <= Len(records) /\ records[index].state = "failed"
      /\ UNCHANGED <<plan, runState>>
      /\ stepState' = IF supported THEN [stepState EXCEPT ![records[index].step] = "rolled_back"]
                                   ELSE stepState
  BY DEF RollBackRecord, NeedsRollback, inputs
<1>2. CASE supported
  <2>1. /\ records[index].step = Ordered[index] /\ Ordered[index] \in PlanSteps
        /\ stepState[Ordered[index]] = "failed"
    BY <1>1, RecordAtIndex
  <2>2. DOMAIN stepState = PlanSteps /\ runState = "failed"
    BY <1>1 DEF Inv, TypesOK, RollbackOK
  <2>3. Protocol!RollBack(Ordered[index])
    BY <1>1, <1>2, <2>1, <2>2, AskedStays DEF Protocol!RollBack
  <2> QED BY <2>1, <2>2, <2>3 DEF Protocol!Next
<1>3. CASE ~supported
  BY <1>1, <1>3, AskedStays DEF Protocol!vars
<1> QED BY <1>2, <1>3

LEMMA CallImplements ==
  ASSUME Inv, NEW response \in {"success", "partial", "failure"}, Call(response)
  PROVE  Protocol!Next \/ UNCHANGED Protocol!vars
<1>1. pc = "invoking" /\ UNCHANGED <<plan, runState>>
  BY DEF Call, inputs
<1>2. CASE response = "failure" /\ Retries(attempt + 1)
  <2>1. UNCHANGED stepState
    BY <1>2 DEF Call
  <2> QED BY <1>1, <2>1, AskedStays DEF Protocol!vars
<1>3. CASE ~(response = "failure" /\ Retries(attempt + 1))
  <2>1. PICK x \in {"succeeded", "failed"} : stepState' = [stepState EXCEPT ![Current.id] = x]
    BY <1>3 DEF Call, StepFails, StepSucceeds, Settle
  <2> QED BY <1>1, <2>1, SettleImplements
<1> QED BY <1>2, <1>3

LEMMA ProceedingImplements ==
  Inv /\ (BeginStep \/ ConfirmationGranted) => Protocol!Next \/ UNCHANGED Protocol!vars
<1> SUFFICES ASSUME Inv, BeginStep \/ ConfirmationGranted
             PROVE  Protocol!Next \/ UNCHANGED Protocol!vars
  OBVIOUS
<1>1. InRun /\ index <= Len(Ordered) /\ pc # "invoking" /\ UNCHANGED <<plan, runState>>
  BY InRunAt DEF BeginStep, ConfirmationGranted, InLoop, InRun, inputs
<1>2. Current.deps \subseteq Succeeded
  BY InRunAt DEF BeginStep, ConfirmationGranted, MayBegin, DependenciesMet
<1>3. stepState' \in {stepState, [stepState EXCEPT ![Current.id] = "running"]}
  BY DEF BeginStep, ConfirmationGranted
<1>4. CASE stepState' = stepState
  BY <1>1, <1>4, AskedStays DEF Protocol!vars
<1>5. CASE stepState' = [stepState EXCEPT ![Current.id] = "running"]
  BY <1>1, <1>2, <1>5, ProceedImplements
<1> QED BY <1>3, <1>4, <1>5

LEMMA UnavailableImplements == Inv /\ Unavailable => Protocol!Next
<1> SUFFICES ASSUME Inv, Unavailable PROVE Protocol!Next
  OBVIOUS
<1>1. /\ pc = "invoking" /\ UNCHANGED <<plan, runState>>
      /\ stepState' = [stepState EXCEPT ![Current.id] = "failed"]
  BY DEF Unavailable, StepFails, Settle, inputs
<1> QED BY <1>1, SettleImplements

LEMMA CompleteRollbackImplements == Inv /\ CompleteRollback => Protocol!Next
<1> SUFFICES ASSUME Inv, CompleteRollback PROVE Protocol!Next
  OBVIOUS
<1>1. runState = "failed" /\ runState' = "rolled_back" /\ UNCHANGED <<plan, stepState>>
  BY DEF Inv, RollbackOK, CompleteRollback, inputs
<1>2. Protocol!EndRollBack
  BY <1>1, AskedStays DEF Protocol!EndRollBack
<1> QED BY <1>2 DEF Protocol!Next

\* Ordering, bookkeeping, exceptions and requests are no steps of the plan's run.
LEMMA OthersStutter ==
  Inv /\ (\/ StartRun \/ OrderNext \/ OrderDone \/ OrderFails \/ ConfirmationRaises \/ CallRaises
          \/ RollBackRaises \/ KeepRecord \/ RequestCancellation \/ UNCHANGED vars)
    => UNCHANGED Protocol!vars
<1> SUFFICES ASSUME Inv,
                    \/ StartRun \/ OrderNext \/ OrderDone \/ Raise \/ KeepRecord
                    \/ RequestCancellation \/ UNCHANGED vars
             PROVE  UNCHANGED Protocol!vars
  BY DEF OrderFails, ConfirmationRaises, CallRaises, RollBackRaises
<1>1. UNCHANGED <<plan, stepState>>
  BY DEF StartRun, OrderNext, OrderDone, Raise, KeepRecord, RequestCancellation, vars, inputs, engine
<1>2. UNCHANGED (IF runState \in {"pending", "running"} THEN "open" ELSE runState)
  <2>1. CASE StartRun
    BY <2>1 DEF StartRun, Inv, StartOK
  <2>2. CASE UNCHANGED runState
    BY <2>2
  <2> QED BY <2>1, <2>2
       DEF OrderNext, OrderDone, Raise, KeepRecord, RequestCancellation, vars, engine
<1> QED BY <1>1, <1>2, AskedStays DEF Protocol!vars

LEMMA NextImplements == Inv /\ [Next]_vars => [Protocol!Next]_Protocol!vars
BY LoopImplements, FinalizeImplements, RollbackImplements, CallImplements, ProceedingImplements,
   UnavailableImplements, CompleteRollbackImplements, OthersStutter DEF Next, Execute

\* Whatever the plan and the answers, and whenever cancellation is requested:
\* execute() begins a step only when no other runs and all it depends on has
\* succeeded, settles every step before the run ends, ends it as the steps'
\* outcomes say unless it was cancelled, and rolls back failed steps of a
\* failed run only.
THEOREM ImplementsThePlanRun == Spec => ImplementsPlanRun
<1>1. Spec => []Inv
  BY InvHolds
<1> QED BY <1>1, InitImplements, NextImplements, PTL DEF Spec, ImplementsPlanRun, Protocol!Spec

------------------------------------------------------------------------------
(* Every connector call is justified, whatever the plans, capabilities and *)
(* answers, cancellation at any moment.                                    *)

------------------------------------------------------------------------------
(* How often a step occurs in the history of calls.                        *)

Count(s, q) == Cardinality({i \in 1..Len(q) : q[i] = s})

LEMMA CountIsNatural ==
  ASSUME NEW S, NEW q \in Seq(S), NEW s
  PROVE  Count(s, q) \in Nat /\ IsFiniteSet({i \in 1..Len(q) : q[i] = s})
<1> DEFINE I == 1..Len(q)
           T == {i \in 1..Len(q) : q[i] = s}
<1>1. IsFiniteSet(I) /\ T \in SUBSET I
  BY FS_Interval
<1>2. IsFiniteSet(T)
  <2> HIDE DEF I, T
  <2> QED BY <1>1, FS_Subset
<1>3. Cardinality(T) \in Nat
  <2> HIDE DEF T
  <2> QED BY <1>2, FS_CardinalityType
<1> QED BY <1>2, <1>3 DEF Count

LEMMA CountAfterAppend ==
  ASSUME NEW S, NEW q \in Seq(S), NEW x \in S, NEW s
  PROVE  Count(s, Append(q, x)) = IF x = s THEN Count(s, q) + 1 ELSE Count(s, q)
<1> DEFINE T == {i \in 1..Len(q) : q[i] = s}
           U == {i \in 1..Len(Append(q, x)) : Append(q, x)[i] = s}
<1>1. /\ Len(Append(q, x)) = Len(q) + 1 /\ Append(q, x)[Len(q) + 1] = x
      /\ \A i \in 1..Len(q) : Append(q, x)[i] = q[i]
      /\ Len(q) \in Nat
  OBVIOUS
<1>2. CASE x = s
  <2>1. U = T \cup {Len(q) + 1} /\ Len(q) + 1 \notin T
    BY <1>1, <1>2
  <2>2. IsFiniteSet(T)
    BY CountIsNatural
  <2>3. Cardinality(U) = Cardinality(T) + 1
    <3> HIDE DEF T, U
    <3> QED BY <2>1, <2>2, FS_AddElement
  <2> QED BY <1>2, <2>3 DEF Count
<1>3. CASE x # s
  <2>1. U = T
    BY <1>1, <1>3
  <2> QED BY <1>3, <2>1 DEF Count
<1> QED BY <1>2, <1>3

LEMMA CountOfAbsent ==
  ASSUME NEW S, NEW q \in Seq(S), NEW s, s \notin ToSet(q)
  PROVE  Count(s, q) = 0
<1>1. {i \in 1..Len(q) : q[i] = s} = {}
  BY DEF ToSet
<1> QED BY <1>1, FS_EmptySet DEF Count

LEMMA ElementsAfterAppend ==
  ASSUME NEW S, NEW q \in Seq(S), NEW x \in S
  PROVE  ToSet(Append(q, x)) = ToSet(q) \cup {x}
<1>1. /\ Len(Append(q, x)) = Len(q) + 1 /\ Append(q, x)[Len(q) + 1] = x
      /\ \A i \in 1..Len(q) : Append(q, x)[i] = q[i]
      /\ Len(q) \in Nat
  OBVIOUS
<1>2. ToSet(Append(q, x)) = {Append(q, x)[i] : i \in 1..(Len(q) + 1)} /\ ToSet(q) = {q[i] : i \in 1..Len(q)}
  BY <1>1 DEF ToSet
<1>3. \A i \in 1..(Len(q) + 1) : i \in 1..Len(q) \/ i = Len(q) + 1
  BY <1>1
<1>4. Len(q) + 1 \in 1..(Len(q) + 1) /\ \A i \in 1..Len(q) : i \in 1..(Len(q) + 1)
  BY <1>1
<1> QED BY <1>1, <1>2, <1>3, <1>4, Zenon

------------------------------------------------------------------------------
(* The inductive invariant of the calls.                                   *)

Bound(s) ==
  IF StepOf(plan, s).capability \in Idempotent THEN MaxAttempts[StepOf(plan, s).capability] ELSE 1

HistoryOK ==
  /\ invoked \in Seq(PlanSteps)
  /\ ToSet(invoked) \subseteq begun
  /\ untouched \cap begun = {}
  /\ ~cancelRequested => untouched = {}

\* What has been called was called at most as often as it may be, after all it
\* depends on.
CallsOK ==
  \A s \in ToSet(invoked) :
    /\ stepState[s] # "pending"
    /\ StepOf(plan, s).deps \subseteq Succeeded
    /\ Count(s, invoked) <= Bound(s)

NoDeniedCall(recs) ==
  \A i \in 1..Len(recs) : recs[i].granted = "denied" => recs[i].step \notin ToSet(invoked)

\* The rollback pass copies records of denied steps, and only it does.
DeniedOK ==
  /\ NoDeniedCall(records)
  /\ NoDeniedCall(updated)
  /\ pc \notin {"rollback", "returned", "raised"} => updated = <<>>

\* attempt counts the calls for the current step; there is a second one only
\* if a retry was justified.
AttemptOK ==
  /\ pc \notin {"invoking", "raised"} => attempt = 0
  /\ pc \in {"confirming", "invoking"} => Ordered[index] \in begun
  /\ pc = "invoking" =>
       /\ Count(Ordered[index], invoked) = attempt
       /\ attempt = 0 \/ (Current.capability \in Idempotent /\ attempt < MaxAttempts[Current.capability])

CallsInv == HistoryOK /\ CallsOK /\ DeniedOK /\ AttemptOK

LEMMA CallsInit == Init => CallsInv
<1> SUFFICES ASSUME Init PROVE CallsInv
  OBVIOUS
<1>1. invoked = <<>> /\ invoked \in Seq(PlanSteps) /\ ToSet(invoked) = {}
  BY DEF Init, ToSet
<1>2. records = <<>> /\ updated = <<>> /\ NoDeniedCall(<<>>)
  BY DEF Init, NoDeniedCall
<1> QED BY <1>1, <1>2 DEF Init, CallsInv, HistoryOK, CallsOK, DeniedOK, AttemptOK

LEMMA PlanStays == [Next]_vars => UNCHANGED <<plan, PlanSteps>>
<1>1. [Next]_vars => plan' = plan
  BY DEF Next, Execute, StartRun, OrderNext, OrderDone, OrderFails, SkipUnmet, ObserveCancellation,
         BeginStep, ConfirmationGranted, ConfirmationDenied, ConfirmationRaises, Unavailable, Call,
         CallRaises, FinalizeRun, KeepRecord, RollBackRecord, RollBackRaises, CompleteRollback,
         RequestCancellation, Raise, inputs, vars
<1> QED BY <1>1 DEF PlanSteps

\* A step that is no longer pending never is again, and success is final: the
\* plan's run has no other steps.
LEMMA StatesGoOn ==
  ASSUME Inv, [Next]_vars, NEW s \in PlanSteps
  PROVE  /\ stepState[s] # "pending" => stepState'[s] # "pending"
         /\ stepState[s] = "succeeded" => stepState'[s] = "succeeded"
<1>1. [Protocol!Next]_Protocol!vars
  BY NextImplements
<1>2. stepState \in [PlanSteps -> StepStates] /\ DOMAIN stepState = PlanSteps
  BY DEF Inv, TypesOK
<1>3. CASE UNCHANGED stepState
  BY <1>3
<1>4. CASE \E r \in PlanSteps : Protocol!Begin(r) \/ Protocol!Settle(r) \/ Protocol!RollBack(r)
  BY <1>2, <1>4 DEF Protocol!Begin, Protocol!Settle, Protocol!RollBack
<1>5. CASE \E S \in SUBSET PlanSteps : Protocol!Skip(S)
  BY <1>2, <1>5 DEF Protocol!Skip, Protocol!Having
<1> QED BY <1>1, <1>2, <1>3, <1>4, <1>5
     DEF Protocol!Next, Protocol!vars, Protocol!End, Protocol!EndRollBack

\* While no call is made, what was justified stays so.
LEMMA CallsStayOK ==
  ASSUME Inv, CallsInv, [Next]_vars, UNCHANGED invoked
  PROVE  CallsOK'
<1>1. plan' = plan /\ PlanSteps' = PlanSteps
  BY PlanStays
<1>2. \A s \in ToSet(invoked) : s \in PlanSteps
  BY DEF CallsInv, HistoryOK, ToSet
<1>3. Succeeded \subseteq Succeeded'
  BY <1>1, StatesGoOn DEF Succeeded
<1> QED BY <1>1, <1>2, <1>3, StatesGoOn DEF CallsInv, CallsOK, Bound

\* What has not begun to run has not been called.
LEMMA PendingIsNotCalled ==
  ASSUME CallsInv, NEW s, stepState[s] = "pending"
  PROVE  s \notin ToSet(invoked)
BY DEF CallsInv, CallsOK

LEMMA QuietStep ==
  ASSUME Inv, CallsInv, [Next]_vars,
         UNCHANGED <<invoked, begun, untouched, cancelRequested, records, updated, attempt>>,
         pc' = "raised" \/ (pc' \notin {"confirming", "invoking"} /\ pc \notin {"invoking", "raised"}) \/ UNCHANGED <<pc, sched, index>>,
         pc' \in {"rollback", "returned", "raised"} \/ pc \notin {"rollback", "returned", "raised"}
  PROVE  CallsInv'
<1>1. plan' = plan /\ PlanSteps' = PlanSteps
  BY PlanStays
<1>2. CallsOK'
  BY CallsStayOK
<1>3. HistoryOK'
  BY <1>1 DEF CallsInv, HistoryOK
<1>4. DeniedOK'
  BY DEF CallsInv, DeniedOK, NoDeniedCall
<1>5. AttemptOK'
  <2>1. CASE UNCHANGED <<pc, sched, index>>
    BY <1>1, <2>1 DEF CallsInv, AttemptOK, Current, Ordered
  <2>2. CASE pc' = "raised" \/ (pc' \notin {"confirming", "invoking"} /\ pc \notin {"invoking", "raised"})
    BY <2>2 DEF CallsInv, AttemptOK
  <2> QED BY <2>1, <2>2
<1> QED BY <1>2, <1>3, <1>4, <1>5 DEF CallsInv

LEMMA QuietSteps ==
  ASSUME Inv, CallsInv, [Next]_vars,
         \/ StartRun \/ OrderNext \/ OrderDone \/ OrderFails \/ ConfirmationRaises
         \/ RollBackRaises \/ FinalizeRun \/ UNCHANGED vars
  PROVE  CallsInv'
<1>1. UNCHANGED <<invoked, begun, untouched, cancelRequested, records, updated, attempt>>
  BY DEF StartRun, OrderNext, OrderDone, OrderFails, ConfirmationRaises, RollBackRaises,
         FinalizeRun, Raise, vars, inputs, engine, history
<1>2. pc' = "raised" \/ (pc' \notin {"confirming", "invoking"} /\ pc \notin {"invoking", "raised"}) \/ UNCHANGED <<pc, sched, index>>
  BY DEF StartRun, OrderNext, OrderDone, OrderFails, ConfirmationRaises, RollBackRaises,
         FinalizeRun, Raise, vars, engine
<1>3. pc' \in {"rollback", "returned", "raised"} \/ pc \notin {"rollback", "returned", "raised"}
  BY DEF StartRun, OrderNext, OrderDone, OrderFails, ConfirmationRaises, RollBackRaises,
         FinalizeRun, Raise, vars, engine
<1> QED BY <1>1, <1>2, <1>3, QuietStep

LEMMA RequestKeepsCalls ==
  ASSUME Inv, CallsInv, [Next]_vars, RequestCancellation
  PROVE  CallsInv'
<1>1. plan' = plan /\ PlanSteps' = PlanSteps
  BY PlanStays
<1>2. UNCHANGED <<pc, sched, index, attempt, records, updated, invoked, begun>> /\ cancelRequested'
  BY DEF RequestCancellation, engine
<1>3. CallsOK'
  BY <1>2, CallsStayOK
<1>4. HistoryOK'
  BY <1>1, <1>2 DEF CallsInv, HistoryOK, RequestCancellation
<1>5. DeniedOK' /\ AttemptOK'
  BY <1>1, <1>2 DEF CallsInv, DeniedOK, NoDeniedCall, AttemptOK, Current, Ordered
<1> QED BY <1>3, <1>4, <1>5 DEF CallsInv

\* To leave the current step without a call, not denied or not called before.
LEMMA SettleKeepsCalls ==
  ASSUME Inv, CallsInv, [Next]_vars, InRun, index <= Len(Ordered),
         NEW state, NEW attempts, NEW granted, NEW events,
         Settle(state, attempts, granted, events),
         granted = "denied" => stepState[Ordered[index]] = "pending",
         UNCHANGED <<invoked, begun, untouched, cancelRequested, updated>>
  PROVE  CallsInv'
<1>1. plan' = plan /\ PlanSteps' = PlanSteps
  BY PlanStays
<1>2. Current.id = Ordered[index]
  BY CurrentStep DEF Inv
<1>3. CallsOK'
  BY CallsStayOK
<1>4. HistoryOK'
  BY <1>1 DEF CallsInv, HistoryOK
<1> DEFINE new == Record(Current.id, state, attempts, granted)
<1>5. new.step = Ordered[index] /\ new.granted = granted
  BY <1>2 DEF Record
<1>6. records' = Append(records, new) /\ records \in Seq(RecordType)
  BY DEF Settle, Inv, TypesOK
<1> HIDE DEF new
<1>7. /\ Len(records') = Len(records) + 1 /\ records'[Len(records) + 1] = new
      /\ \A i \in 1..Len(records) : records'[i] = records[i]
      /\ Len(records) \in Nat
  BY <1>6
<1>8. new.granted = "denied" => new.step \notin ToSet(invoked)
  BY <1>5, PendingIsNotCalled
<1>9. NoDeniedCall(records)'
  <2> SUFFICES ASSUME NEW i \in 1..Len(records'), records'[i].granted = "denied"
               PROVE  records'[i].step \notin ToSet(invoked)
    BY DEF NoDeniedCall
  <2>1. CASE i \in 1..Len(records)
    BY <1>7, <2>1 DEF CallsInv, DeniedOK, NoDeniedCall
  <2>2. CASE i = Len(records) + 1
    BY <1>7, <1>8, <2>2
  <2> QED BY <1>7, <2>1, <2>2
<1>10. DeniedOK' /\ AttemptOK'
  BY <1>9 DEF CallsInv, DeniedOK, AttemptOK, NoDeniedCall, Settle, InRun
<1> QED BY <1>3, <1>4, <1>10 DEF CallsInv

LEMMA LeavingKeepsCalls ==
  ASSUME Inv, CallsInv, [Next]_vars, SkipUnmet \/ ConfirmationDenied \/ Unavailable
  PROVE  CallsInv'
<1>1. InRun /\ index <= Len(Ordered)
  BY InRunAt DEF SkipUnmet, ConfirmationDenied, Unavailable, InLoop, InRun
<1>2. UNCHANGED <<invoked, begun, untouched, cancelRequested, updated>>
  BY DEF SkipUnmet, ConfirmationDenied, Unavailable
<1>3. pc = "confirming" => stepState[Ordered[index]] = "pending"
  BY <1>1, CurrentStep DEF Inv, LoopOK
<1>4. PICK state, attempts, granted, events :
        /\ Settle(state, attempts, granted, events)
        /\ granted = "denied" => pc = "confirming"
  BY DEF SkipUnmet, ConfirmationDenied, Unavailable, StepFails, Granted
<1> QED BY <1>1, <1>2, <1>3, <1>4, SettleKeepsCalls

LEMMA CancellationKeepsCalls ==
  ASSUME Inv, CallsInv, [Next]_vars, ObserveCancellation
  PROVE  CallsInv'
<1>1. /\ plan' = plan /\ PlanSteps' = PlanSteps /\ pc = "loop" /\ pc' = "loop"
      /\ UNCHANGED <<invoked, begun, untouched, cancelRequested, updated, attempt>>
  BY PlanStays DEF ObserveCancellation, InLoop
<1>2. CallsOK' /\ HistoryOK'
  BY <1>1, CallsStayOK DEF CallsInv, HistoryOK
<1> DEFINE rest == [i \in 1..Len(Remaining) |-> Record(Remaining[i], "skipped", 0, "none")]
<1>3. Remaining \in Seq(PlanSteps)
  BY RemainingSteps DEF Inv, ObserveCancellation, InLoop
<1>4. \A i \in 1..Len(Remaining) :
        /\ Record(Remaining[i], "skipped", 0, "none") \in RecordType
        /\ Record(Remaining[i], "skipped", 0, "none").granted = "none"
  BY <1>3 DEF Record, RecordType, StepStates
<1>5. rest \in Seq(RecordType) /\ \A i \in 1..Len(rest) : rest[i].granted = "none"
  BY <1>3, <1>4
<1>6. records' = records \o rest /\ records \in Seq(RecordType)
  BY DEF ObserveCancellation, Inv, TypesOK
<1> HIDE DEF rest
<1>7. /\ Len(records \o rest) = Len(records) + Len(rest)
      /\ \A i \in 1..Len(records) : (records \o rest)[i] = records[i]
      /\ \A i \in 1..Len(rest) : (records \o rest)[Len(records) + i] = rest[i]
      /\ Len(records) \in Nat /\ Len(rest) \in Nat
  <2>1. rest \in Seq(RecordType) /\ records \in Seq(RecordType)
    BY <1>5, <1>6
  <2> QED BY <2>1, Concatenation
<1>8. NoDeniedCall(records)'
  <2> SUFFICES ASSUME NEW i \in 1..Len(records \o rest), (records \o rest)[i].granted = "denied"
               PROVE  (records \o rest)[i].step \notin ToSet(invoked)
    BY <1>1, <1>6, Zenon DEF NoDeniedCall
  <2>1. CASE i \in 1..Len(records)
    BY <1>7, <2>1 DEF CallsInv, DeniedOK, NoDeniedCall
  <2>2. CASE i \notin 1..Len(records)
    <3>1. i - Len(records) \in 1..Len(rest) /\ i = Len(records) + (i - Len(records))
      BY <1>7, <2>2
    <3> QED BY <1>5, <1>7, <3>1
  <2> QED BY <2>1, <2>2
<1>9. DeniedOK' /\ AttemptOK'
  BY <1>1, <1>8 DEF CallsInv, DeniedOK, AttemptOK, NoDeniedCall
<1> QED BY <1>2, <1>9 DEF CallsInv

LEMMA ProceedKeepsCalls ==
  ASSUME Inv, CallsInv, [Next]_vars, BeginStep \/ ConfirmationGranted
  PROVE  CallsInv'
<1>1. /\ plan' = plan /\ PlanSteps' = PlanSteps /\ InRun /\ index <= Len(Ordered) /\ pc # "invoking"
      /\ UNCHANGED <<invoked, untouched, cancelRequested, updated, records, attempt, sched, index>>
      /\ pc' \in {"confirming", "invoking"}
  BY PlanStays, InRunAt DEF BeginStep, ConfirmationGranted, InLoop, InRun
<1>2. CallsOK'
  BY <1>1, CallsStayOK
<1>3. begun' = begun \/ (BeginStep /\ ~cancelRequested)
  BY DEF BeginStep, ConfirmationGranted, MayBegin
<1>4. begun \subseteq begun'
  BY DEF BeginStep, ConfirmationGranted
<1>5. HistoryOK'
  BY <1>1, <1>3, <1>4 DEF CallsInv, HistoryOK
<1>6. DeniedOK'
  BY <1>1 DEF CallsInv, DeniedOK, NoDeniedCall, InRun
<1>7. attempt = 0
  BY <1>1 DEF CallsInv, AttemptOK, InRun
<1>8. stepState[Ordered[index]] = "pending"
  BY <1>1, CurrentStep DEF Inv, LoopOK
<1>9. Count(Ordered[index], invoked) = 0
  <2>1. Ordered[index] \notin ToSet(invoked)
    BY <1>8, PendingIsNotCalled
  <2> QED BY <2>1, CountOfAbsent DEF CallsInv, HistoryOK
<1>10. Ordered[index] \in begun'
  BY <1>1, CurrentStep DEF BeginStep, ConfirmationGranted, CallsInv, AttemptOK, Inv
<1>11. AttemptOK'
  BY <1>1, <1>7, <1>9, <1>10 DEF AttemptOK, Ordered
<1> QED BY <1>2, <1>5, <1>6, <1>11 DEF CallsInv

LEMMA RollbackKeepsCalls ==
  ASSUME Inv, CallsInv, [Next]_vars,
         KeepRecord \/ (\E supported \in BOOLEAN : RollBackRecord(supported)) \/ CompleteRollback
  PROVE  CallsInv'
<1>1. /\ plan' = plan /\ PlanSteps' = PlanSteps /\ pc = "rollback" /\ pc' \in {"rollback", "returned"}
      /\ UNCHANGED <<invoked, begun, untouched, cancelRequested, attempt>>
  BY PlanStays DEF KeepRecord, RollBackRecord, CompleteRollback, history
<1>2. CallsOK' /\ HistoryOK'
  BY <1>1, CallsStayOK DEF CallsInv, HistoryOK
<1>3. AttemptOK'
  BY <1>1 DEF CallsInv, AttemptOK
<1>4. CASE CompleteRollback
  <2>1. records' = updated /\ updated' = updated
    BY <1>4 DEF CompleteRollback
  <2>2. DeniedOK'
    BY <1>1, <2>1 DEF CallsInv, DeniedOK, NoDeniedCall
  <2> QED BY <1>2, <1>3, <2>2 DEF CallsInv
<1>5. CASE KeepRecord \/ \E supported \in BOOLEAN : RollBackRecord(supported)
  <2> DEFINE old == records[index]
  <2>1. index <= Len(records) /\ records' = records
    BY <1>5 DEF KeepRecord, RollBackRecord
  <2>2. index \in 1..Len(records) /\ old \in RecordType
    BY <1>1, <2>1, RecordAtIndex
  <2>3. PICK new \in {old, [old EXCEPT !.state = "rolled_back", !.rollback = "done"],
                           [old EXCEPT !.rollback = "unsupported"]} : updated' = Append(updated, new)
    BY <1>5 DEF KeepRecord, RollBackRecord
  <2>4. new \in RecordType /\ new.granted = old.granted /\ new.step = old.step
    BY <2>2, <2>3 DEF RecordType, StepStates
  <2>5. updated \in Seq(RecordType)
    BY DEF Inv, TypesOK
  <2>6. /\ Len(updated') = Len(updated) + 1 /\ updated'[Len(updated) + 1] = new
        /\ \A i \in 1..Len(updated) : updated'[i] = updated[i]
        /\ Len(updated) \in Nat
    BY <2>3, <2>4, <2>5
  <2>7. old.granted = "denied" => old.step \notin ToSet(invoked)
    BY <2>2 DEF CallsInv, DeniedOK, NoDeniedCall
  <2>8. NoDeniedCall(updated)'
    <3> SUFFICES ASSUME NEW i \in 1..Len(updated'), updated'[i].granted = "denied"
                 PROVE  updated'[i].step \notin ToSet(invoked)
      BY <1>1 DEF NoDeniedCall
    <3>1. CASE i \in 1..Len(updated)
      BY <2>6, <3>1 DEF CallsInv, DeniedOK, NoDeniedCall
    <3>2. CASE i = Len(updated) + 1
      BY <2>4, <2>6, <2>7, <3>2
    <3> QED BY <2>6, <3>1, <3>2
  <2>9. DeniedOK'
    BY <1>1, <2>1, <2>8 DEF CallsInv, DeniedOK, NoDeniedCall
  <2> QED BY <1>2, <1>3, <2>9 DEF CallsInv
<1> QED BY <1>4, <1>5

\* A call is counted, whether the connector answers or raises.
LEMMA OneMoreCall ==
  ASSUME Inv, CallsInv, [Next]_vars, pc = "invoking", invoked' = Append(invoked, Current.id),
         UNCHANGED <<begun, untouched, cancelRequested, updated, sched>>
  PROVE  /\ HistoryOK' /\ CallsOK'
         /\ attempt \in Nat /\ Count(Ordered[index], invoked') = attempt + 1
         /\ Ordered[index] \in begun
         /\ \A i \in 1..Len(records) : records[i].granted = "denied" => records[i].step \notin ToSet(invoked')
         /\ updated = <<>> /\ NoDeniedCall(updated)'
<1> DEFINE s == Ordered[index]
<1>1. /\ pc = "invoking" /\ InRun /\ index <= Len(Ordered) /\ Current.deps \subseteq Succeeded
      /\ plan' = plan /\ PlanSteps' = PlanSteps
  BY InRunAt, PlanStays
<1>2. s \in PlanSteps /\ Current.id = s /\ Current = StepOf(plan, s) /\ index \in 1..Len(Ordered)
  BY <1>1, CurrentStep DEF Inv, Current
<1>3. /\ invoked \in Seq(PlanSteps) /\ ToSet(invoked) \subseteq begun /\ s \in begun
      /\ Count(s, invoked) = attempt /\ attempt \in Nat
      /\ attempt = 0 \/ (Current.capability \in Idempotent /\ attempt < MaxAttempts[Current.capability])
      /\ stepState[s] = "running" /\ stepState \in [PlanSteps -> StepStates]
  BY <1>1, <1>2 DEF CallsInv, HistoryOK, AttemptOK, Inv, TypesOK, LoopOK
<1>4. /\ invoked' = Append(invoked, s) /\ invoked' \in Seq(PlanSteps)
      /\ ToSet(invoked') = ToSet(invoked) \cup {s}
      /\ \A r : Count(r, invoked') = IF s = r THEN Count(r, invoked) + 1 ELSE Count(r, invoked)
  <2>1. invoked' = Append(invoked, s)
    BY <1>2
  <2> HIDE DEF s
  <2> QED BY <1>2, <1>3, <2>1, ElementsAfterAppend, CountAfterAppend
<1>5. Count(s, invoked') = attempt + 1
  BY <1>3, <1>4
<1>6. /\ Current.capability \in Capabilities
      /\ Current.capability \in Idempotent => MaxAttempts[Current.capability] \in Nat \ {0}
  <2>1. PlanTyped(plan) /\ s \in Ids(plan)
    BY <1>2, PlansAssumption DEF Inv, TypesOK, PlanTyped, StepRecord, PlanSteps
  <2>2. LastIndex(plan, s) \in 1..Len(plan)
    BY <2>1, StepOfPlan
  <2>3. plan[LastIndex(plan, s)] \in StepRecord
    BY <2>1, <2>2 DEF PlanTyped
  <2>4. Current.capability \in Capabilities
    BY <1>2, <2>3 DEF StepOf, StepRecord
  <2> QED BY <2>4, CapabilityAssumption
<1>7. attempt + 1 <= Bound(s)
  BY <1>2, <1>3, <1>6 DEF Bound
<1>8. HistoryOK'
  BY <1>1, <1>3, <1>4 DEF CallsInv, HistoryOK
<1>9. CallsOK'
  <2> SUFFICES ASSUME NEW r \in ToSet(invoked')
               PROVE  /\ stepState'[r] # "pending"
                      /\ StepOf(plan, r).deps \subseteq Succeeded
                      /\ Count(r, invoked') <= Bound(r)
    <3>1. Succeeded \subseteq Succeeded'
      BY <1>1, StatesGoOn DEF Succeeded
    <3> QED BY <1>1, <3>1 DEF CallsOK, Bound
  <2>1. r \in PlanSteps
    BY <1>2, <1>3, <1>4 DEF ToSet
  <2>2. CASE r = s
    BY <1>1, <1>2, <1>3, <1>5, <1>7, <2>2, StatesGoOn
  <2>3. CASE r # s
    BY <1>4, <2>1, <2>3, StatesGoOn DEF CallsInv, CallsOK
  <2> QED BY <2>2, <2>3
<1>10. \A i \in 1..Len(records) : records[i].step # s
  <2> SUFFICES ASSUME NEW i \in 1..Len(records) PROVE records[i].step # s
    OBVIOUS
  <2>1. Len(records) = index - 1 /\ records[i].step = Ordered[i]
    BY <1>1 DEF Inv, LoopOK, RecordsAgree
  <2>2. i \in 1..Len(Ordered) /\ i # index
    BY <1>2, <2>1
  <2> QED BY <1>1, <2>1, <2>2, OthersDiffer DEF Inv
<1>11. \A i \in 1..Len(records) : records[i].granted = "denied" => records[i].step \notin ToSet(invoked')
  BY <1>4, <1>10 DEF CallsInv, DeniedOK, NoDeniedCall
<1>12. updated = <<>> /\ NoDeniedCall(updated)'
  BY <1>1 DEF CallsInv, DeniedOK, NoDeniedCall
<1> QED BY <1>3, <1>5, <1>8, <1>9, <1>11, <1>12

LEMMA RaisingCallKeepsCalls ==
  ASSUME Inv, CallsInv, [Next]_vars, CallRaises
  PROVE  CallsInv'
<1>1. /\ pc = "invoking" /\ invoked' = Append(invoked, Current.id) /\ pc' = "raised"
      /\ UNCHANGED <<begun, untouched, cancelRequested, updated, sched, records>>
  BY DEF CallRaises, Raise, inputs
<1>2. DeniedOK'
  BY <1>1, OneMoreCall DEF DeniedOK, NoDeniedCall
<1>3. AttemptOK'
  BY <1>1 DEF AttemptOK
<1> QED BY <1>1, <1>2, <1>3, OneMoreCall DEF CallsInv

LEMMA CallKeepsCalls ==
  ASSUME Inv, CallsInv, [Next]_vars, NEW response \in {"success", "partial", "failure"}, Call(response)
  PROVE  CallsInv'
<1>1. /\ pc = "invoking" /\ invoked' = Append(invoked, Current.id) /\ plan' = plan
      /\ UNCHANGED <<begun, untouched, cancelRequested, updated, sched>>
  BY PlanStays DEF Call
<1>2. /\ HistoryOK' /\ CallsOK'
      /\ attempt \in Nat /\ Count(Ordered[index], invoked') = attempt + 1
      /\ Ordered[index] \in begun
      /\ \A i \in 1..Len(records) : records[i].granted = "denied" => records[i].step \notin ToSet(invoked')
      /\ updated = <<>> /\ NoDeniedCall(updated)'
  BY <1>1, OneMoreCall
<1>3. CASE response = "failure" /\ Retries(attempt + 1)
  <2>1. UNCHANGED <<pc, index, stepState, records>> /\ attempt' = attempt + 1
    BY <1>3 DEF Call
  <2>2. DeniedOK'
    BY <1>1, <1>2, <2>1 DEF DeniedOK, NoDeniedCall
  <2>3. Ordered' = Ordered /\ Current' = Current
    BY <1>1, <2>1 DEF Current, Ordered
  <2>4. AttemptOK'
    BY <1>1, <1>2, <1>3, <2>1, <2>3 DEF AttemptOK, Retries
  <2> QED BY <1>2, <2>2, <2>4 DEF CallsInv
<1>4. CASE ~(response = "failure" /\ Retries(attempt + 1))
  <2>1. PICK state : \E events : Settle(state, attempt + 1, Granted, events)
    BY <1>4 DEF Call, StepFails, StepSucceeds
  <2>2. PICK events : Settle(state, attempt + 1, Granted, events)
    BY <2>1
  <2> DEFINE new == Record(Current.id, state, attempt + 1, Granted)
  <2>3. new.granted # "denied"
    BY DEF Record, Granted
  <2>4. records' = Append(records, new) /\ records \in Seq(RecordType) /\ pc' = "loop" /\ attempt' = 0
    BY <2>2 DEF Settle, Inv, TypesOK
  <2> HIDE DEF new
  <2>5. /\ Len(records') = Len(records) + 1 /\ records'[Len(records) + 1] = new
        /\ \A i \in 1..Len(records) : records'[i] = records[i]
        /\ Len(records) \in Nat
    BY <2>4
  <2>6. NoDeniedCall(records)'
    <3> SUFFICES ASSUME NEW i \in 1..Len(records'), records'[i].granted = "denied"
                 PROVE  records'[i].step \notin ToSet(invoked')
      BY DEF NoDeniedCall
    <3>1. i \in 1..Len(records)
      BY <2>3, <2>5
    <3> QED BY <1>2, <2>5, <3>1
  <2>7. DeniedOK' /\ AttemptOK'
    BY <1>1, <1>2, <2>4, <2>6 DEF DeniedOK, AttemptOK, NoDeniedCall
  <2> QED BY <1>2, <2>7 DEF CallsInv
<1> QED BY <1>3, <1>4

LEMMA NextKeepsCalls == Inv /\ CallsInv /\ [Next]_vars => CallsInv'
BY QuietSteps, RequestKeepsCalls, LeavingKeepsCalls, CancellationKeepsCalls, ProceedKeepsCalls,
   RollbackKeepsCalls, CallKeepsCalls, RaisingCallKeepsCalls DEF Next, Execute

\* A connector is called for a step only after all it depends on has
\* succeeded, never for a step that was denied or not yet reached when
\* cancellation was requested, and more than once only if its operation is
\* idempotent, never beyond max_attempts.
THEOREM CallsAreJustified == Spec => []ConnectorCallsAreJustified
<1>1. Spec => [](Inv /\ CallsInv)
  BY InitOK, CallsInit, NextKeeps, NextKeepsCalls, PTL DEF Spec
<1>2. Inv /\ CallsInv => ConnectorCallsAreJustified
  BY DEF CallsInv, HistoryOK, CallsOK, DeniedOK, NoDeniedCall, ConnectorCallsAreJustified, Calls, Count, Bound
<1> QED BY <1>1, <1>2, PTL
------------------------------------------------------------------------------
(* Kahn's algorithm: the order is the first topological one.               *)

Placed == {Ordered[i] : i \in 1..Len(Ordered)}
PlacedBefore(i) == {Ordered[j] : j \in 1..(i - 1)}
DepsOf(s) == StepOf(plan, s).deps

\* Everything placed so far came when all it depends on was placed, and before
\* the other steps of which that was true.
FirstOK ==
  \A i \in 1..Len(Ordered) :
    /\ DepsOf(Ordered[i]) \subseteq PlacedBefore(i)
    /\ \A s \in PlanSteps \ PlacedBefore(i) :
         DepsOf(s) \subseteq PlacedBefore(i) => LastIndex(plan, Ordered[i]) <= LastIndex(plan, s)

\* An in-degree counts the dependencies not placed yet.
DegreesOK ==
  /\ \A s \in PlanSteps : sched.inDegree[s] = Cardinality(DepsOf(s) \ Placed)
  /\ sched.ready = {s \in PlanSteps \ Placed : DepsOf(s) \subseteq Placed}

KahnOK == DistinctIds => FirstOK /\ DegreesOK

LEMMA PlanOfTheRun ==
  ASSUME plan \in Plans
  PROVE  PlanTyped(plan) /\ PlanSteps = Ids(plan) /\ Len(plan) \in Nat
<1>1. PlanTyped(plan) /\ PlanSteps = Ids(plan)
  BY PlansAssumption DEF PlanTyped, StepRecord, PlanSteps
<1>2. Len(plan) \in Nat
  BY <1>1 DEF PlanTyped
<1> QED BY <1>1, <1>2

LEMMA LengthOfInterval ==
  ASSUME NEW n \in Nat
  PROVE  IsFiniteSet(1..n) /\ Cardinality(1..n) = n
<1>1. IsFiniteSet(1..n) /\ Cardinality(1..n) = IF 1 > n THEN 0 ELSE n - 1 + 1
  BY FS_Interval
<1>2. (IF 1 > n THEN 0 ELSE n - 1 + 1) = n
  OBVIOUS
<1> QED BY <1>1, <1>2

\* In a plan without repeated ids an id names one position.
LEMMA OneStepPerId ==
  ASSUME NEW p, PlanTyped(p), Cardinality(Ids(p)) = Len(p)
  PROVE  \A i \in 1..Len(p) : LastIndex(p, p[i].id) = i /\ StepOf(p, p[i].id) = p[i]
<1> DEFINE I == 1..Len(p)
           named == [i \in I |-> p[i].id]
<1>1. Len(p) \in Nat
  BY DEF PlanTyped
<1>2. IsFiniteSet(I) /\ Cardinality(I) = Len(p)
  BY <1>1, LengthOfInterval
<1>3. named \in Surjection(I, Ids(p))
  BY DEF Surjection, Ids
<1>4. named \in Injection(I, Ids(p))
  <2> HIDE DEF I, named
  <2> QED BY <1>2, <1>3, FS_Surjection
<1>5. \A i, j \in I : named[i] = named[j] => i = j
  BY <1>4 DEF Injection, IsInjective
<1>6. ASSUME NEW i \in I PROVE LastIndex(p, p[i].id) = i
  <2>1. p[i].id \in Ids(p)
    BY DEF Ids
  <2>2. LastIndex(p, p[i].id) \in I /\ StepOf(p, p[i].id).id = p[i].id
    BY <2>1, StepOfPlan
  <2> QED BY <1>5, <2>2 DEF StepOf
<1> QED BY <1>6 DEF StepOf

LEMMA DepsAreFinite ==
  ASSUME plan \in Plans, NEW s \in PlanSteps, NEW T
  PROVE  IsFiniteSet(DepsOf(s) \ T) /\ Cardinality(DepsOf(s) \ T) \in Nat
<1>1. PlanTyped(plan)
  BY PlansAssumption DEF PlanTyped, StepRecord
<1>2. IsFiniteSet(DepsOf(s))
  BY <1>1, StepOfPlan, DependenciesAssumption DEF StepOf, PlanSteps, DepsOf
<1>3. IsFiniteSet(DepsOf(s) \ T)
  BY <1>2, FS_Subset
<1> QED BY <1>3, FS_CardinalityType

\* Placing d lowers the in-degree of a step that depends on it by one.
LEMMA DependentsAre ==
  ASSUME plan \in Plans, DistinctIds, NEW s \in PlanSteps, NEW d
  PROVE  Dependents(plan, d, s) = IF d \in DepsOf(s) THEN 1 ELSE 0
<1>1. PlanTyped(plan) /\ PlanSteps = Ids(plan)
  BY PlansAssumption DEF PlanTyped, StepRecord, PlanSteps
<1>2. PICK k \in 1..Len(plan) : plan[k].id = s
  BY <1>1 DEF Ids
<1>3. \A i \in 1..Len(plan) : plan[i].id = s => i = k
  BY <1>1, <1>2, OneStepPerId DEF DistinctIds
<1>4. StepOf(plan, s) = plan[k]
  BY <1>1, <1>2, OneStepPerId DEF DistinctIds
<1>5. {i \in 1..Len(plan) : plan[i].id = s /\ d \in plan[i].deps} = IF d \in DepsOf(s) THEN {k} ELSE {}
  BY <1>2, <1>3, <1>4 DEF DepsOf
<1> QED BY <1>5, FS_Singleton, FS_EmptySet DEF Dependents

LEMMA UnorderedIsKahn ==
  ASSUME plan \in Plans, sched = Unordered(plan)
  PROVE  KahnOK
<1>1. /\ Ordered = <<>>
      /\ sched.inDegree = [id \in PlanSteps |-> Cardinality(DepsOf(id))]
      /\ sched.ready = {id \in PlanSteps : sched.inDegree[id] = 0}
  BY DEF Unordered, Ordered, PlanSteps, DepsOf
<1>2. Placed = {} /\ Len(Ordered) = 0
  BY <1>1 DEF Placed
<1>3. \A s \in PlanSteps : DepsOf(s) \ Placed = DepsOf(s)
  BY <1>2
<1>4. \A s \in PlanSteps : IsFiniteSet(DepsOf(s))
  BY <1>3, DepsAreFinite
<1>5. \A s \in PlanSteps : Cardinality(DepsOf(s)) = 0 <=> DepsOf(s) \subseteq {}
  BY <1>4, FS_EmptySet
<1>6. DegreesOK
  BY <1>1, <1>2, <1>3, <1>5 DEF DegreesOK
<1> QED BY <1>2, <1>6 DEF KahnOK, FirstOK

LEMMA PopReadyIsKahn ==
  ASSUME plan \in Plans, SchedOK, KahnOK, sched.ready # {}, sched' = PopReady(plan, sched), plan' = plan
  PROVE  KahnOK'
<1> SUFFICES ASSUME DistinctIds PROVE (FirstOK /\ DegreesOK)'
  BY DEF KahnOK, DistinctIds, PlanSteps
<1> DEFINE choice == CHOOSE id \in sched.ready :
                     \A other \in sched.ready : LastIndex(plan, id) <= LastIndex(plan, other)
<1>1. PlanTyped(plan) /\ PlanSteps' = PlanSteps /\ PlanSteps = Ids(plan) /\ \A s : DepsOf(s)' = DepsOf(s)
  BY PlansAssumption DEF PlanTyped, StepRecord, PlanSteps, DepsOf
<1>2. choice \in sched.ready /\ \A other \in sched.ready : LastIndex(plan, choice) <= LastIndex(plan, other)
  BY <1>1, FirstReady DEF SchedOK
<1>3. PICK next : next = choice
  OBVIOUS
<1>4. /\ Ordered' = Append(Ordered, next)
      /\ sched'.inDegree = [id \in PlanSteps |-> sched.inDegree[id] - Dependents(plan, next, id)]
      /\ sched'.ready = (sched.ready \ {next}) \cup
           {id \in PlanSteps : sched.inDegree[id] > 0 /\ sched'.inDegree[id] <= 0}
  BY <1>1, <1>3 DEF PopReady, Ordered
<1> HIDE DEF choice
<1>5. FirstOK /\ DegreesOK
  BY DEF KahnOK
<1>6. next \in PlanSteps /\ next \notin Placed /\ DepsOf(next) \subseteq Placed
  BY <1>2, <1>3, <1>5 DEF DegreesOK
<1>7. /\ Ordered \in Seq(PlanSteps) /\ Len(Ordered) \in Nat
      /\ Len(Ordered') = Len(Ordered) + 1
      /\ \A i \in 1..Len(Ordered) : Ordered'[i] = Ordered[i]
      /\ Ordered'[Len(Ordered) + 1] = next
  <2>1. Ordered \in Seq(PlanSteps)
    BY DEF SchedOK
  <2> HIDE DEF Ordered
  <2> QED BY <1>4, <1>6, <2>1
<1> HIDE DEF Ordered
<1>8. Placed' = Placed \cup {next}
  <2>1. \A i : i \in 1..(Len(Ordered) + 1) <=> i \in 1..Len(Ordered) \/ i = Len(Ordered) + 1
    BY <1>7
  <2> QED BY <1>7, <2>1 DEF Placed
<1>9. \A s \in PlanSteps : sched'.inDegree[s] = Cardinality(DepsOf(s) \ Placed')
  <2> SUFFICES ASSUME NEW s \in PlanSteps
               PROVE  sched'.inDegree[s] = Cardinality(DepsOf(s) \ Placed')
    OBVIOUS
  <2> DEFINE T == DepsOf(s) \ Placed
  <2>1. IsFiniteSet(T) /\ Cardinality(T) \in Nat /\ sched.inDegree[s] = Cardinality(T)
    BY <1>5, DepsAreFinite DEF DegreesOK
  <2>2. DepsOf(s) \ Placed' = T \ {next} /\ (next \in T <=> next \in DepsOf(s))
    BY <1>6, <1>8
  <2> HIDE DEF T
  <2>3. Cardinality(T \ {next}) = IF next \in T THEN Cardinality(T) - 1 ELSE Cardinality(T)
    BY <2>1, FS_RemoveElement
  <2>4. Dependents(plan, next, s) = IF next \in DepsOf(s) THEN 1 ELSE 0
    BY DependentsAre
  <2>5. sched'.inDegree[s] = sched.inDegree[s] - Dependents(plan, next, s)
    BY <1>4
  <2>6. CASE next \in T
    BY <2>1, <2>2, <2>3, <2>4, <2>5, <2>6
  <2>7. CASE next \notin T
    BY <2>1, <2>2, <2>3, <2>4, <2>5, <2>7
  <2> QED BY <2>6, <2>7
<1>10. sched'.ready = {s \in PlanSteps \ Placed' : DepsOf(s) \subseteq Placed'}
  <2>1. ASSUME NEW s \in PlanSteps
        PROVE  /\ sched.inDegree[s] <= 0 <=> DepsOf(s) \subseteq Placed
               /\ sched'.inDegree[s] <= 0 <=> DepsOf(s) \subseteq Placed'
               /\ sched.inDegree[s] \in Nat
    <3>1. /\ IsFiniteSet(DepsOf(s) \ Placed) /\ Cardinality(DepsOf(s) \ Placed) \in Nat
          /\ sched.inDegree[s] = Cardinality(DepsOf(s) \ Placed)
      BY <1>5, DepsAreFinite DEF DegreesOK
    <3>2. PICK T : T = Placed'
      OBVIOUS
    <3>3. /\ IsFiniteSet(DepsOf(s) \ T) /\ Cardinality(DepsOf(s) \ T) \in Nat
          /\ sched'.inDegree[s] = Cardinality(DepsOf(s) \ T)
      BY <1>9, <3>2, DepsAreFinite
    <3>4. Cardinality(DepsOf(s) \ Placed) = 0 <=> DepsOf(s) \ Placed = {}
      BY <3>1, FS_EmptySet
    <3>5. Cardinality(DepsOf(s) \ T) = 0 <=> DepsOf(s) \ T = {}
      BY <3>3, FS_EmptySet
    <3> QED BY <3>1, <3>2, <3>3, <3>4, <3>5
  <2>2. \A s \in PlanSteps : s \in Placed => sched.inDegree[s] <= 0
    BY DEF SchedOK, Placed
  <2>3. \A s : s \in sched.ready <=> s \in PlanSteps \ Placed /\ DepsOf(s) \subseteq Placed
    BY <1>5 DEF DegreesOK
  <2>4. ASSUME NEW s \in PlanSteps
        PROVE  s \in sched'.ready <=> s \notin Placed' /\ DepsOf(s) \subseteq Placed'
    <3>1. s \in sched'.ready <=> \/ s \in sched.ready /\ s # next
                                 \/ sched.inDegree[s] > 0 /\ sched'.inDegree[s] <= 0
      BY <1>4
    <3>2. s \in Placed => sched.inDegree[s] <= 0
      BY <2>2
    <3>3. CASE sched.inDegree[s] <= 0
      <4>1. DepsOf(s) \subseteq Placed /\ ~(sched.inDegree[s] > 0)
        BY <2>1, <3>3
      <4> QED BY <1>8, <2>3, <3>1, <4>1
    <3>4. CASE sched.inDegree[s] > 0
      <4>1. ~(DepsOf(s) \subseteq Placed) /\ s \notin Placed /\ s # next
        BY <1>6, <2>1, <3>2, <3>4
      <4> QED BY <1>8, <2>1, <2>3, <3>1, <3>4, <4>1
    <3> QED BY <2>1, <3>3, <3>4
  <2>5. sched'.ready \subseteq PlanSteps
    BY <1>4, <1>5 DEF DegreesOK
  <2> QED BY <2>4, <2>5
<1>11. FirstOK'
  <2> SUFFICES ASSUME NEW i \in 1..Len(Ordered')
               PROVE  /\ DepsOf(Ordered'[i]) \subseteq PlacedBefore(i)'
                      /\ \A s \in PlanSteps \ PlacedBefore(i)' :
                           DepsOf(s) \subseteq PlacedBefore(i)' =>
                             LastIndex(plan, Ordered'[i]) <= LastIndex(plan, s)
    BY <1>1 DEF FirstOK
  <2>1. PlacedBefore(i)' = PlacedBefore(i)
    <3>1. \A j \in 1..(i - 1) : j \in 1..Len(Ordered)
      BY <1>7
    <3> QED BY <1>7, <3>1 DEF PlacedBefore
  <2>2. CASE i \in 1..Len(Ordered)
    BY <1>5, <1>7, <2>1, <2>2 DEF FirstOK
  <2>3. CASE i = Len(Ordered) + 1
    <3>1. PlacedBefore(i) = Placed /\ Ordered'[i] = next
      BY <1>7, <2>3 DEF PlacedBefore, Placed
    <3>2. \A s \in PlanSteps \ Placed : DepsOf(s) \subseteq Placed => s \in sched.ready
      BY <1>5 DEF DegreesOK
    <3> QED BY <1>2, <1>3, <1>6, <2>1, <3>1, <3>2
  <2> QED BY <1>7, <2>2, <2>3
<1> QED BY <1>1, <1>9, <1>10, <1>11 DEF DegreesOK

\* In a complete order, by counting, no two steps have one id.
LEMMA CompleteOrdersAreDistinct ==
  ASSUME plan \in Plans, SchedOK, Len(Ordered) = Len(plan)
  PROVE  DistinctIds /\ PlanSteps = Placed
<1> DEFINE I == 1..Len(plan)
           placed == [i \in I |-> Ordered[i]]
<1>1. PlanTyped(plan) /\ PlanSteps = Ids(plan) /\ Len(plan) \in Nat
  BY PlanOfTheRun
<1>2. PlanSteps = Placed
  <2>1. Ordered \in Seq(Ids(plan)) /\ \A i, j \in 1..Len(Ordered) : Ordered[i] = Ordered[j] => i = j
    BY <1>1 DEF SchedOK
  <2>2. Ids(plan) = {Ordered[i] : i \in 1..Len(Ordered)}
    BY <1>1, <2>1, OrderHasAllSteps
  <2> QED BY <1>1, <2>2 DEF Placed
<1>3. IsFiniteSet(I) /\ Cardinality(I) = Len(plan)
  BY <1>1, LengthOfInterval
<1>4. placed \in Surjection(I, PlanSteps) /\ placed \in Injection(I, PlanSteps)
  <2>1. \A i \in I : Ordered[i] \in PlanSteps
    BY <1>2 DEF Placed
  <2>2. \A s \in PlanSteps : \E i \in I : Ordered[i] = s
    BY <1>2 DEF Placed
  <2>3. \A i, j \in I : Ordered[i] = Ordered[j] => i = j
    BY DEF SchedOK
  <2> HIDE DEF I
  <2> QED BY <2>1, <2>2, <2>3 DEF Surjection, Injection, IsInjective
<1>5. Cardinality(PlanSteps) = Cardinality(I)
  <2> HIDE DEF placed, I
  <2> QED BY <1>3, <1>4, FS_Surjection
<1> QED BY <1>2, <1>3, <1>5 DEF DistinctIds

\* Of a step in a topological order of a plan without repeated ids.
LEMMA TopologicalStep ==
  ASSUME plan \in Plans, DistinctIds, NEW q \in TopologicalOrders(plan), NEW k \in 1..Len(plan)
  PROVE  /\ q[k] \in 1..Len(plan)
         /\ plan[q[k]].id \in PlanSteps
         /\ LastIndex(plan, plan[q[k]].id) = q[k]
         /\ DepsOf(plan[q[k]].id) \subseteq {plan[q[i]].id : i \in 1..(k - 1)}
         /\ \A i \in 1..Len(plan) : plan[q[i]].id = plan[q[k]].id => i = k
<1>1. PlanTyped(plan) /\ PlanSteps = Ids(plan)
  BY PlansAssumption DEF PlanTyped, StepRecord, PlanSteps
<1>2. /\ q \in [1..Len(plan) -> 1..Len(plan)]
      /\ \A i, j \in 1..Len(plan) : i # j => q[i] # q[j]
      /\ plan[q[k]].deps \subseteq {plan[q[i]].id : i \in 1..(k - 1)}
  BY DEF TopologicalOrders
<1>3. \A i \in 1..Len(plan) : q[i] \in 1..Len(plan)
  BY <1>2
<1>4. \A i \in 1..Len(plan) : LastIndex(plan, plan[i].id) = i /\ StepOf(plan, plan[i].id) = plan[i]
  BY <1>1, OneStepPerId DEF DistinctIds
<1>5. plan[q[k]].id \in PlanSteps
  BY <1>1, <1>3 DEF Ids
<1>6. \A i \in 1..Len(plan) : plan[q[i]].id = plan[q[k]].id => i = k
  BY <1>2, <1>3, <1>4
<1> QED BY <1>2, <1>3, <1>4, <1>5, <1>6 DEF DepsOf

LEMMA OrderIsTopological ==
  ASSUME plan \in Plans, SchedOK, KahnOK, Len(Ordered) = Len(plan)
  PROVE  /\ [i \in 1..Len(plan) |-> LastIndex(plan, Ordered[i])] \in TopologicalOrders(plan)
         /\ \A i \in 1..Len(plan) : plan[LastIndex(plan, Ordered[i])].id = Ordered[i]
<1> DEFINE F == [i \in 1..Len(plan) |-> LastIndex(plan, Ordered[i])]
<1>1. PlanTyped(plan) /\ PlanSteps = Ids(plan)
  BY PlansAssumption DEF PlanTyped, StepRecord, PlanSteps
<1>2. DistinctIds /\ PlanSteps = Placed /\ FirstOK
  BY CompleteOrdersAreDistinct DEF KahnOK
<1>3. \A i \in 1..Len(plan) : Ordered[i] \in Ids(plan)
  BY <1>1, <1>2 DEF Placed
<1>4. \A i \in 1..Len(plan) : F[i] \in 1..Len(plan) /\ plan[F[i]].id = Ordered[i]
  BY <1>1, <1>3, StepOfPlan DEF StepOf
<1>5. \A i, j \in 1..Len(plan) : F[i] = F[j] => i = j
  <2>1. \A i, j \in 1..Len(plan) : Ordered[i] = Ordered[j] => i = j
    BY DEF SchedOK
  <2>2. \A i \in 1..Len(plan) : plan[F[i]].id = Ordered[i]
    BY <1>4
  <2> HIDE DEF F
  <2> QED BY <2>1, <2>2
<1>6. \A j \in 1..Len(plan) : plan[F[j]].deps \subseteq PlacedBefore(j)
  BY <1>2 DEF FirstOK, DepsOf, StepOf
<1>7. \A j \in 1..Len(plan) : \A i \in 1..(j - 1) : i \in 1..Len(plan)
  BY PlanOfTheRun
<1>8. \A j \in 1..Len(plan) : PlacedBefore(j) = {plan[F[i]].id : i \in 1..(j - 1)}
  <2>1. \A i \in 1..Len(plan) : plan[F[i]].id = Ordered[i]
    BY <1>4
  <2> HIDE DEF F
  <2> QED BY <1>7, <2>1 DEF PlacedBefore
<1>9. F \in [1..Len(plan) -> 1..Len(plan)]
  BY <1>4
<1> HIDE DEF F
<1>10. F \in TopologicalOrders(plan)
  BY <1>5, <1>6, <1>8, <1>9 DEF TopologicalOrders
<1> QED BY <1>4, <1>10 DEF F

\* Where another topological order first differs, it has a later step.
LEMMA OrderIsBefore ==
  ASSUME plan \in Plans, SchedOK, KahnOK, Len(Ordered) = Len(plan),
         NEW q \in TopologicalOrders(plan), NEW F \in TopologicalOrders(plan),
         \A i \in 1..Len(plan) : F[i] = LastIndex(plan, Ordered[i]) /\ plan[F[i]].id = Ordered[i]
  PROVE  F = q \/ Before(F, q)
<1> DEFINE T == {i \in 1..Len(plan) : F[i] # q[i]}
<1>1. DistinctIds /\ FirstOK
  BY CompleteOrdersAreDistinct DEF KahnOK
<1>2. F \in [1..Len(plan) -> 1..Len(plan)] /\ q \in [1..Len(plan) -> 1..Len(plan)] /\ Len(plan) \in Nat
  BY PlansAssumption DEF TopologicalOrders
<1>3. CASE T = {}
  BY <1>2, <1>3
<1>4. CASE T # {}
  <2>1. T \in SUBSET Nat
    BY <1>2
  <2>2. PICK k \in T : \A i \in T : k <= i
    BY <1>4, <2>1, LeastNumber
  <2>3. k \in 1..Len(plan) /\ F[k] # q[k]
    BY <2>2
  <2>4. \A i \in 1..(k - 1) : i \in 1..Len(plan) /\ F[i] = q[i]
    BY <1>2, <2>2, <2>3
  <2>5. PICK s : s = plan[q[k]].id
    OBVIOUS
  <2>6. /\ s \in PlanSteps
        /\ LastIndex(plan, s) = q[k]
        /\ DepsOf(s) \subseteq {plan[q[i]].id : i \in 1..(k - 1)}
        /\ \A i \in 1..Len(plan) : plan[q[i]].id = s => i = k
    BY <1>1, <2>3, <2>5, TopologicalStep
  <2>7. PlacedBefore(k) = {plan[q[i]].id : i \in 1..(k - 1)}
    BY <2>4 DEF PlacedBefore
  <2>8. s \notin PlacedBefore(k)
    BY <1>2, <2>3, <2>4, <2>6, <2>7
  <2>9. LastIndex(plan, Ordered[k]) <= LastIndex(plan, s)
    BY <1>1, <2>3, <2>6, <2>7, <2>8 DEF FirstOK
  <2>10. F[k] <= q[k] /\ F[k] \in 1..Len(plan) /\ q[k] \in 1..Len(plan)
    BY <1>2, <2>3, <2>6, <2>9
  <2>11. F[k] < q[k] /\ k \in DOMAIN F
    BY <1>2, <2>3, <2>10
  <2> QED BY <2>4, <2>11 DEF Before
<1> QED BY <1>3, <1>4

LEMMA BeforeIsAntisymmetric ==
  ASSUME NEW n \in Nat, NEW p \in [1..n -> 1..n], NEW q \in [1..n -> 1..n], Before(p, q)
  PROVE  ~Before(q, p)
<1> SUFFICES ASSUME Before(q, p) PROVE FALSE
  OBVIOUS
<1>1. PICK k \in 1..n : p[k] < q[k] /\ \A i \in 1..(k - 1) : p[i] = q[i]
  BY DEF Before
<1>2. PICK l \in 1..n : q[l] < p[l] /\ \A i \in 1..(l - 1) : q[i] = p[i]
  BY DEF Before
<1>3. k = l \/ k \in 1..(l - 1) \/ l \in 1..(k - 1)
  OBVIOUS
<1>4. \A i \in 1..n : p[i] \in 1..n /\ q[i] \in 1..n
  OBVIOUS
<1>5. p[k] \in Int /\ q[k] \in Int /\ p[l] \in Int /\ q[l] \in Int
  BY <1>4
<1>6. CASE k = l
  BY <1>1, <1>2, <1>5, <1>6
<1>7. CASE k \in 1..(l - 1)
  BY <1>1, <1>2, <1>5, <1>7
<1>8. CASE l \in 1..(k - 1)
  BY <1>1, <1>2, <1>5, <1>8
<1> QED BY <1>3, <1>6, <1>7, <1>8

LEMMA CompleteOrderIsFirst ==
  ASSUME plan \in Plans, SchedOK, KahnOK, Len(Ordered) = Len(plan)
  PROVE  TopologicalOrders(plan) # {} /\ DistinctIds /\ Ordered = FirstOrder(plan)
<1> DEFINE F == [i \in 1..Len(plan) |-> LastIndex(plan, Ordered[i])]
           First(p) == \A q \in TopologicalOrders(plan) : p = q \/ Before(p, q)
<1>1. DistinctIds
  BY CompleteOrdersAreDistinct
<1>2. F \in TopologicalOrders(plan)
  BY OrderIsTopological
<1>3. \A i \in 1..Len(plan) : F[i] = LastIndex(plan, Ordered[i]) /\ plan[F[i]].id = Ordered[i]
  BY OrderIsTopological
<1> HIDE DEF F
<1>4. First(F)
  BY <1>2, <1>3, OrderIsBefore
<1>5. ASSUME NEW p \in TopologicalOrders(plan), First(p) PROVE p = F
  <2>1. (p = F \/ Before(p, F)) /\ (F = p \/ Before(F, p))
    BY <1>2, <1>4, <1>5
  <2>2. /\ p \in [1..Len(plan) -> 1..Len(plan)] /\ F \in [1..Len(plan) -> 1..Len(plan)]
        /\ Len(plan) \in Nat
    BY <1>2, PlansAssumption DEF TopologicalOrders
  <2> QED BY <2>1, <2>2, BeforeIsAntisymmetric
<1>6. F = CHOOSE p \in TopologicalOrders(plan) : First(p)
  <2> HIDE DEF First
  <2> QED BY <1>2, <1>4, <1>5
<1>7. FirstOrder(plan) = [i \in 1..Len(plan) |-> plan[F[i]].id]
  BY <1>6 DEF FirstOrder
<1>8. FirstOrder(plan) = [i \in 1..Len(plan) |-> Ordered[i]]
  BY <1>3, <1>7
<1>9. Ordered = [i \in 1..Len(Ordered) |-> Ordered[i]]
  BY DEF SchedOK
<1> QED BY <1>1, <1>2, <1>8, <1>9

LEMMA IncompleteOrdersMissOne ==
  ASSUME plan \in Plans, SchedOK, Len(Ordered) # Len(plan), DistinctIds
  PROVE  \E s \in PlanSteps : s \notin Placed
<1> DEFINE J == 1..Len(Ordered)
           placed == [i \in J |-> Ordered[i]]
<1> SUFFICES ASSUME PlanSteps \subseteq Placed PROVE FALSE
  OBVIOUS
<1>1. \A i \in J : Ordered[i] \in PlanSteps
  BY DEF SchedOK
<1>2. \A t \in PlanSteps : \E i \in J : Ordered[i] = t
  BY DEF Placed
<1>3. \A i, j \in J : Ordered[i] = Ordered[j] => i = j
  BY DEF SchedOK
<1>4. placed \in Surjection(J, PlanSteps) /\ placed \in Injection(J, PlanSteps)
  <2> HIDE DEF J
  <2> QED BY <1>1, <1>2, <1>3 DEF Surjection, Injection, IsInjective
<1>5. IsFiniteSet(J) /\ Cardinality(J) = Len(Ordered)
  <2>1. Len(Ordered) \in Nat
    BY DEF SchedOK
  <2> QED BY <2>1, LengthOfInterval
<1>6. Cardinality(PlanSteps) = Cardinality(J)
  <2> HIDE DEF placed, J
  <2> QED BY <1>4, <1>5, FS_Surjection
<1> QED BY <1>5, <1>6 DEF DistinctIds

\* Whatever topological order there is, its first step not placed would be ready.
LEMMA IncompleteOrdersHaveNone ==
  ASSUME plan \in Plans, SchedOK, KahnOK, sched.ready = {}, Len(Ordered) # Len(plan), DistinctIds
  PROVE  TopologicalOrders(plan) = {}
<1> SUFFICES ASSUME NEW q \in TopologicalOrders(plan) PROVE FALSE
  OBVIOUS
<1> DEFINE I == 1..Len(plan)
           T == {j \in I : plan[q[j]].id \notin Placed}
<1>1. PlanTyped(plan) /\ PlanSteps = Ids(plan) /\ Len(plan) \in Nat /\ Len(Ordered) \in Nat
  BY PlanOfTheRun DEF SchedOK
<1>2. DegreesOK
  BY DEF KahnOK
<1>3. PICK s \in PlanSteps : s \notin Placed
  BY IncompleteOrdersMissOne
<1>4. PICK i \in I : plan[i].id = s
  BY <1>1, <1>3 DEF Ids
<1>5. q \in Surjection(I, I)
  <2>1. IsFiniteSet(I)
    BY <1>1, LengthOfInterval
  <2>2. q \in Injection(I, I)
    BY DEF TopologicalOrders, Injection, IsInjective
  <2> HIDE DEF I
  <2> QED BY <2>1, <2>2, FS_Injection
<1>6. T \in SUBSET Nat /\ T # {}
  <2>1. PICK j \in I : q[j] = i
    BY <1>4, <1>5 DEF Surjection
  <2>2. j \in T
    BY <1>3, <1>4, <2>1
  <2> QED BY <1>1, <2>2
<1>7. PICK j \in T : \A k \in T : j <= k
  BY <1>6, LeastNumber
<1>8. \A k \in 1..(j - 1) : k \in I /\ plan[q[k]].id \in Placed
  BY <1>1, <1>7
<1>9. j \in I /\ plan[q[j]].id \notin Placed
  BY <1>7
<1>10. /\ plan[q[j]].id \in PlanSteps
       /\ DepsOf(plan[q[j]].id) \subseteq {plan[q[k]].id : k \in 1..(j - 1)}
  BY <1>9, TopologicalStep
<1>11. DepsOf(plan[q[j]].id) \subseteq Placed
  BY <1>8, <1>10
<1>12. sched.ready = {t \in PlanSteps \ Placed : DepsOf(t) \subseteq Placed}
  BY <1>2 DEF DegreesOK
<1>13. PICK t : t = plan[q[j]].id
  OBVIOUS
<1>14. t \in PlanSteps \ Placed /\ DepsOf(t) \subseteq Placed
  BY <1>9, <1>10, <1>11, <1>13
<1> QED BY <1>12, <1>14

\* The order is complete or no order exists, and stays as it is from then on.
OrderOK ==
  /\ KahnOK
  /\ pc \notin {"start", "ordering"} => sched.ready = {}
  /\ pc \notin {"start", "ordering", "raised"} => Len(Ordered) = Len(plan)

LEMMA OrderStays ==
  ASSUME [Next]_vars, ~OrderNext
  PROVE  /\ UNCHANGED <<plan, sched>>
         /\ pc' \notin {"start", "ordering"} => pc \notin {"start", "ordering"} \/ sched.ready = {}
         /\ pc' \notin {"start", "ordering", "raised"} =>
              pc \notin {"start", "ordering", "raised"} \/ Len(Ordered) = Len(plan)
<1>1. CASE StartRun \/ OrderDone \/ OrderFails
  BY <1>1 DEF StartRun, OrderDone, OrderFails, Raise, inputs
<1>2. CASE SkipUnmet \/ ObserveCancellation \/ BeginStep
  BY <1>2 DEF SkipUnmet, ObserveCancellation, BeginStep, InLoop, Settle, inputs
<1>3. CASE ConfirmationGranted \/ ConfirmationDenied \/ ConfirmationRaises
  BY <1>3 DEF ConfirmationGranted, ConfirmationDenied, ConfirmationRaises, Settle, Raise, inputs
<1>4. CASE Unavailable \/ CallRaises \/ \E response \in {"success", "partial", "failure"} : Call(response)
  BY <1>4 DEF Unavailable, CallRaises, Call, StepFails, StepSucceeds, Settle, Raise, inputs
<1>5. CASE FinalizeRun \/ KeepRecord \/ RollBackRaises \/ CompleteRollback
  BY <1>5 DEF FinalizeRun, KeepRecord, RollBackRaises, CompleteRollback, Raise, inputs
<1>6. CASE \E supported \in BOOLEAN : RollBackRecord(supported)
  BY <1>6 DEF RollBackRecord, inputs
<1>7. CASE RequestCancellation \/ UNCHANGED vars
  BY <1>7 DEF RequestCancellation, vars, engine, inputs
<1> QED BY <1>1, <1>2, <1>3, <1>4, <1>5, <1>6, <1>7 DEF Next, Execute

LEMMA NextKeepsOrder == Inv /\ OrderOK /\ [Next]_vars => OrderOK'
<1> SUFFICES ASSUME Inv, OrderOK, [Next]_vars PROVE OrderOK'
  OBVIOUS
<1>1. plan \in Plans /\ SchedOK
  BY DEF Inv, TypesOK
<1>2. CASE OrderNext
  <2>1. KahnOK'
    BY <1>1, <1>2, PopReadyIsKahn DEF OrderNext, OrderOK, inputs
  <2> QED BY <1>2, <2>1 DEF OrderNext, OrderOK
<1>3. CASE ~OrderNext
  <2>1. UNCHANGED <<plan, sched>> /\ Ordered' = Ordered
    BY <1>3, OrderStays DEF Ordered
  <2>2. KahnOK'
    <3>1. /\ PlanSteps' = PlanSteps /\ Placed' = Placed /\ DistinctIds' = DistinctIds
          /\ \A s : DepsOf(s)' = DepsOf(s)
          /\ \A i : PlacedBefore(i)' = PlacedBefore(i)
      BY <2>1 DEF PlanSteps, Placed, DistinctIds, DepsOf, PlacedBefore
    <3>2. (FirstOK /\ DegreesOK) => (FirstOK /\ DegreesOK)'
      BY <2>1, <3>1 DEF FirstOK, DegreesOK
    <3> QED BY <3>1, <3>2 DEF OrderOK, KahnOK
  <2>3. pc' \notin {"start", "ordering"} => sched.ready = {}
    BY <1>3, OrderStays DEF OrderOK
  <2>4. pc' \notin {"start", "ordering", "raised"} => Len(Ordered) = Len(plan)
    BY <1>3, OrderStays DEF OrderOK
  <2> QED BY <2>1, <2>2, <2>3, <2>4 DEF OrderOK
<1> QED BY <1>2, <1>3

LEMMA OrderHolds == Spec => []OrderOK
<1>1. Init => OrderOK
  BY UnorderedIsKahn DEF Init, OrderOK
<1> QED BY <1>1, InvHolds, NextKeepsOrder, PTL DEF Spec

\* The execution engine runs the steps of a plan in the plan's own order as far
\* as what they depend on allows: in the first of its topological orders.  A
\* plan that cannot be ordered, for a cycle, a dependency it lacks or an id it
\* has twice, is refused.
THEOREM OrderIsTheFirst == Spec => []RunsInFirstTopologicalOrder
<1>1. Inv /\ OrderOK => RunsInFirstTopologicalOrder
  <2> SUFFICES ASSUME Inv, OrderOK, pc \notin {"start", "ordering"}
               PROVE  RunsInFirstTopologicalOrder
    BY DEF RunsInFirstTopologicalOrder
  <2>1. plan \in Plans /\ SchedOK /\ KahnOK /\ sched.ready = {}
    BY DEF Inv, TypesOK, OrderOK
  <2>2. CASE Len(Ordered) = Len(plan)
    BY <2>1, <2>2, CompleteOrderIsFirst DEF RunsInFirstTopologicalOrder, DistinctIds
  <2>3. CASE Len(Ordered) # Len(plan)
    <3>1. pc = "raised"
      BY <2>3 DEF OrderOK
    <3>2. DistinctIds => TopologicalOrders(plan) = {}
      BY <2>1, <2>3, IncompleteOrdersHaveNone
    <3> QED BY <2>3, <3>1, <3>2 DEF RunsInFirstTopologicalOrder, DistinctIds
  <2> QED BY <2>2, <2>3
<1> QED BY <1>1, InvHolds, OrderHolds, PTL
------------------------------------------------------------------------------
(* The events tell how every step stands.                                  *)

EventTypes ==
  {"execution_started", "execution_completed", "execution_failed", "execution_cancelled",
   "step_awaiting_confirmation", "step_started", "step_succeeded", "step_failed", "step_skipped"}

EventsTyped == published \in Seq(EventTypes \X SUBSET PlanSteps)

\* The last event about a step is that of its state.
StepTold(s) ==
  \/ EventsAbout({s}) = {} /\ stepState[s] = "pending"
  \/ \E i \in EventsAbout({s}) :
       (\A j \in EventsAbout({s}) : j <= i) /\ published[i][1] = EventOf[stepState[s]]

\* Until the run ends, only its first event is about the run itself.
RunTold ==
  /\ pc = "start" => runState = "pending"
  /\ runState = "pending" => published = <<>>
  /\ runState = "running" => Len(published) > 0 /\ EventsAbout({}) = {1}
  /\ runState \notin {"pending", "running"} =>
       /\ Len(published) > 1
       /\ EventsAbout({}) = {1, Len(published)}
       /\ published[Len(published)][1] =
            TerminalEvent[IF runState = "rolled_back" THEN "failed" ELSE runState]

FailureTold == \E i \in 1..Len(published) : published[i][1] = "step_failed"
FailureRecorded == \E i \in 1..Len(records) : records[i].state = "failed"

ToldOK ==
  /\ EventsTyped
  /\ \A s \in PlanSteps : StepTold(s)
  /\ RunTold
  /\ pc \notin {"returned", "raised"} => (FailureTold <=> FailureRecorded)

\* What one more event changes.
LEMMA OneMoreEvent ==
  ASSUME EventsTyped, NEW t \in EventTypes, NEW S \in SUBSET PlanSteps,
         published' = published \o <<<<t, S>>>>
  PROVE  /\ published' \in Seq(EventTypes \X SUBSET PlanSteps)
         /\ Len(published') = Len(published) + 1 /\ Len(published) \in Nat
         /\ published'[Len(published) + 1] = <<t, S>>
         /\ \A i \in 1..Len(published) : published'[i] = published[i]
<1> DEFINE E == EventTypes \X SUBSET PlanSteps
           e == <<t, S>>
<1>1. e \in E /\ published \in Seq(E)
  BY DEF EventsTyped
<1> HIDE DEF E, e
<1>2. <<e>> \in Seq(E) /\ Len(<<e>>) = 1 /\ <<e>>[1] = e
  BY <1>1
<1>3. published' = published \o <<e>>
  BY DEF e
<1> DEFINE one == <<e>>
<1>4. one \in Seq(E) /\ Len(one) = 1 /\ one[1] = e /\ published' = published \o one
  BY <1>2, <1>3
<1> HIDE DEF one
<1>5. /\ published \o one \in Seq(E) /\ Len(published \o one) = Len(published) + Len(one)
      /\ \A i \in 1..Len(published) : (published \o one)[i] = published[i]
      /\ \A i \in 1..Len(one) : (published \o one)[Len(published) + i] = one[i]
      /\ Len(published) \in Nat
  BY <1>1, <1>4, Concatenation
<1>6. 1 \in 1..Len(one)
  BY <1>4
<1>7. (published \o one)[Len(published) + 1] = e
  BY <1>4, <1>5, <1>6, Zenon
<1>8. /\ published' \in Seq(E) /\ Len(published') = Len(published) + 1 /\ Len(published) \in Nat
      /\ published'[Len(published) + 1] = e
      /\ \A i \in 1..Len(published) : published'[i] = published[i]
  BY <1>4, <1>5, <1>7, Zenon
<1> QED BY <1>8 DEF E, e

LEMMA EventsAboutAfter ==
  ASSUME EventsTyped, NEW t \in EventTypes, NEW S \in SUBSET PlanSteps,
         published' = published \o <<<<t, S>>>>, NEW R
  PROVE  EventsAbout(R)' = IF R = S THEN EventsAbout(R) \cup {Len(published) + 1} ELSE EventsAbout(R)
<1>1. /\ Len(published') = Len(published) + 1 /\ Len(published) \in Nat
      /\ published'[Len(published) + 1] = <<t, S>>
      /\ \A i \in 1..Len(published) : published'[i] = published[i]
  BY OneMoreEvent
<1>2. \A i : i \in 1..Len(published') <=> i \in 1..Len(published) \/ i = Len(published) + 1
  BY <1>1
<1>3. \A i : i \in EventsAbout(R)' <=> i \in 1..Len(published') /\ published'[i][2] = R
  BY DEF EventsAbout
<1>4. \A i : i \in EventsAbout(R) <=> i \in 1..Len(published) /\ published[i][2] = R
  BY DEF EventsAbout
<1>5. published'[Len(published) + 1][2] = S
  BY <1>1
<1>6. \A i : i \in EventsAbout(R)' <=> i \in EventsAbout(R) \/ (i = Len(published) + 1 /\ R = S)
  BY <1>1, <1>2, <1>3, <1>4, <1>5
<1>7. CASE R = S
  BY <1>6, <1>7
<1>8. CASE R # S
  BY <1>6, <1>8
<1> QED BY <1>7, <1>8

LEMMA StepStaysTold ==
  ASSUME EventsTyped, NEW t \in EventTypes, NEW S \in SUBSET PlanSteps,
         published' = published \o <<<<t, S>>>>,
         NEW s, S # {s}, stepState'[s] = stepState[s], StepTold(s)
  PROVE  StepTold(s)'
<1>1. EventsAbout({s})' = EventsAbout({s})
  BY EventsAboutAfter
<1>2. \A i \in EventsAbout({s}) : published'[i] = published[i]
  BY OneMoreEvent DEF EventsAbout
<1> QED BY <1>1, <1>2 DEF StepTold

LEMMA StepIsTold ==
  ASSUME EventsTyped, NEW t \in EventTypes, NEW s \in PlanSteps,
         published' = published \o <<<<t, {s}>>>>, t = EventOf[stepState'[s]]
  PROVE  StepTold(s)'
<1>1. EventsAbout({s})' = EventsAbout({s}) \cup {Len(published) + 1}
  BY EventsAboutAfter, ZenonT(60)
<1>2. published'[Len(published) + 1] = <<t, {s}>> /\ Len(published) \in Nat
  BY OneMoreEvent
<1>3. \A j \in EventsAbout({s})' : j <= Len(published) + 1
  BY <1>1, <1>2 DEF EventsAbout
<1>4. Len(published) + 1 \in EventsAbout({s})'
  BY <1>1
<1>5. published'[Len(published) + 1][1] = t
  BY <1>2
<1>6. \E i \in EventsAbout({s})' :
        (\A j \in EventsAbout({s})' : j <= i) /\ published'[i][1] = EventOf[stepState'[s]]
  BY <1>3, <1>4, <1>5
<1> QED BY <1>6 DEF StepTold, EventOf

LEMMA FailureToldAfter ==
  ASSUME EventsTyped, NEW t \in EventTypes, NEW S \in SUBSET PlanSteps,
         published' = published \o <<<<t, S>>>>
  PROVE  FailureTold' <=> FailureTold \/ t = "step_failed"
<1>1. /\ Len(published') = Len(published) + 1 /\ Len(published) \in Nat
      /\ published'[Len(published) + 1] = <<t, S>>
      /\ \A i \in 1..Len(published) : published'[i] = published[i]
  BY OneMoreEvent
<1>2. \A i : i \in 1..Len(published') <=> i \in 1..Len(published) \/ i = Len(published) + 1
  BY <1>1
<1> QED BY <1>1, <1>2 DEF FailureTold

\* An event about a step leaves those about the run alone.
LEMMA RunStaysTold ==
  ASSUME EventsTyped, RunTold, NEW t \in EventTypes, NEW s \in PlanSteps,
         published' = published \o <<<<t, {s}>>>>, runState = "running", runState' = "running",
         pc' # "start"
  PROVE  RunTold'
<1>1. EventsAbout({})' = EventsAbout({})
  BY EventsAboutAfter
<1>2. Len(published') = Len(published) + 1 /\ Len(published) \in Nat
  BY OneMoreEvent
<1> QED BY <1>1, <1>2 DEF RunTold

LEMMA ToldInit == Init => ToldOK
<1> SUFFICES ASSUME Init PROVE ToldOK
  OBVIOUS
<1>1. published = <<>> /\ Len(published) = 0 /\ records = <<>> /\ Len(records) = 0
  BY DEF Init
<1>2. \A S : EventsAbout(S) = {}
  BY <1>1 DEF EventsAbout
<1>3. \A s \in PlanSteps : StepTold(s)
  BY <1>2 DEF Init, StepTold
<1>4. RunTold
  BY <1>1 DEF Init, RunTold
<1> QED BY <1>1, <1>3, <1>4 DEF ToldOK, EventsTyped, FailureTold, FailureRecorded
LEMMA EventsHaveNames ==
  ASSUME NEW x \in StepStates
  PROVE  EventOf[x] \in EventTypes
<1>1. CASE x = "pending" \/ x = "running" \/ x = "succeeded"
  BY <1>1 DEF EventOf, EventTypes
<1>2. CASE x = "failed" \/ x = "skipped" \/ x = "rolled_back"
  BY <1>2 DEF EventOf, EventTypes
<1> QED BY <1>1, <1>2 DEF StepStates

LEMMA CurrentIsTold ==
  ASSUME Inv, ToldOK, InRun, index <= Len(Ordered), NEW x \in StepStates,
         stepState' = [stepState EXCEPT ![Current.id] = x],
         published' = published \o <<<<EventOf[x], {Current.id}>>>>,
         UNCHANGED <<plan, sched, runState>>, pc' # "start"
  PROVE  /\ EventsTyped' /\ (\A s \in PlanSteps : StepTold(s))' /\ RunTold'
         /\ FailureTold' <=> FailureTold \/ x \in {"failed", "rolled_back"}
<1>1. TypesOK /\ SchedOK /\ runState = "running" /\ PlanSteps' = PlanSteps
  BY DEF Inv, LoopOK, PlanSteps
<1>2. PICK c \in PlanSteps : c = Current.id
  BY <1>1, CurrentStep
<1>3. PICK t \in EventTypes : t = EventOf[x]
  BY EventsHaveNames
<1>4. EventsTyped /\ {c} \in SUBSET PlanSteps /\ published' = published \o <<<<t, {c}>>>>
  BY <1>2, <1>3 DEF ToldOK
<1>5. stepState \in [PlanSteps -> StepStates] /\ stepState' = [stepState EXCEPT ![c] = x]
  BY <1>1, <1>2 DEF TypesOK
<1>6. EventsTyped'
  BY <1>1, <1>4, OneMoreEvent DEF EventsTyped
<1>7. ASSUME NEW s \in PlanSteps PROVE StepTold(s)'
  <2>1. CASE s = c
    <3>1. stepState'[c] = x
      BY <1>5
    <3> QED BY <1>3, <1>4, <2>1, <3>1, StepIsTold
  <2>2. CASE s # c
    <3>1. stepState'[s] = stepState[s] /\ {c} # {s} /\ StepTold(s)
      BY <1>5, <2>2 DEF ToldOK
    <3> QED BY <1>4, <3>1, StepStaysTold
  <2> QED BY <2>1, <2>2
<1>8. RunTold'
  BY <1>1, <1>4, RunStaysTold DEF ToldOK
<1>9. FailureTold' <=> FailureTold \/ t = "step_failed"
  BY <1>4, FailureToldAfter
<1>10. t = "step_failed" <=> x \in {"failed", "rolled_back"}
  BY <1>3 DEF EventOf, StepStates
<1> QED BY <1>1, <1>6, <1>7, <1>8, <1>9, <1>10

LEMMA SettleIsTold ==
  ASSUME Inv, ToldOK, InRun, index <= Len(Ordered), NEW state \in SettledStates,
         NEW attempts, NEW granted,
         Settle(state, attempts, granted, <<<<EventOf[state], {Current.id}>>>>),
         UNCHANGED <<plan, sched, runState>>
  PROVE  ToldOK'
<1>1. /\ EventsTyped' /\ (\A s \in PlanSteps : StepTold(s))' /\ RunTold'
      /\ FailureTold' <=> FailureTold \/ state \in {"failed", "rolled_back"}
  BY CurrentIsTold DEF Settle, Publish, SettledStates, StepStates
<1>2. FailureRecorded' <=> FailureRecorded \/ state = "failed"
  <2> DEFINE new == Record(Current.id, state, attempts, granted)
  <2>1. records' = Append(records, new) /\ new.state = state /\ records \in Seq(RecordType)
    BY DEF Settle, Record, Inv, TypesOK
  <2> HIDE DEF new
  <2>2. /\ Len(records') = Len(records) + 1 /\ records'[Len(records) + 1] = new /\ Len(records) \in Nat
        /\ \A i \in 1..Len(records) : records'[i] = records[i]
    BY <2>1
  <2>3. \A i : i \in 1..Len(records') <=> i \in 1..Len(records) \/ i = Len(records) + 1
    BY <2>2
  <2> QED BY <2>1, <2>2, <2>3 DEF FailureRecorded
<1>3. pc \notin {"returned", "raised"}
  BY DEF InRun
<1> QED BY <1>1, <1>2, <1>3 DEF ToldOK, SettledStates

LEMMA LoopIsTold ==
  ASSUME Inv, ToldOK,
         SkipUnmet \/ BeginStep \/ ConfirmationGranted \/ ConfirmationDenied \/ Unavailable
  PROVE  ToldOK'
<1>1. InRun /\ index <= Len(Ordered) /\ pc \notin {"returned", "raised"}
  <2>1. CASE SkipUnmet \/ BeginStep
    BY <2>1 DEF SkipUnmet, BeginStep, InLoop, InRun
  <2>2. CASE ConfirmationGranted \/ ConfirmationDenied \/ Unavailable
    BY <2>2, InRunAt DEF ConfirmationGranted, ConfirmationDenied, Unavailable
  <2> QED BY <2>1, <2>2
<1>2. UNCHANGED <<plan, sched, runState>>
  BY DEF SkipUnmet, BeginStep, ConfirmationGranted, ConfirmationDenied, Unavailable, inputs
<1>3. CASE SkipUnmet \/ ConfirmationDenied
  <2>1. \E granted : Settle("skipped", 0, granted, <<<<EventOf["skipped"], {Current.id}>>>>)
    BY <1>3 DEF SkipUnmet, ConfirmationDenied, EventOf
  <2> QED BY <1>1, <1>2, <2>1, SettleIsTold DEF SettledStates
<1>4. CASE Unavailable
  <2>1. Settle("failed", 0, Granted, <<<<EventOf["failed"], {Current.id}>>>>)
    BY <1>4 DEF Unavailable, StepFails, EventOf
  <2> QED BY <1>1, <1>2, <2>1, SettleIsTold DEF SettledStates
<1>5. CASE BeginStep \/ ConfirmationGranted
  <2>1. /\ Current.id \in PlanSteps /\ stepState \in [PlanSteps -> StepStates]
        /\ Current.id = Ordered[index] /\ index \in 1..Len(Ordered)
    BY <1>1, CurrentStep DEF Inv, TypesOK
  <2>2. stepState[Current.id] = "pending"
    BY <1>1, <1>5, <2>1 DEF Inv, LoopOK, BeginStep, ConfirmationGranted, InLoop
  <2>3. stepState = [stepState EXCEPT ![Current.id] = "pending"]
    BY <2>1, <2>2
  <2>4. PICK x \in {"pending", "running"} :
          /\ stepState' = [stepState EXCEPT ![Current.id] = x]
          /\ published' = published \o <<<<EventOf[x], {Current.id}>>>>
    BY <1>5, <2>3 DEF BeginStep, ConfirmationGranted, Publish, EventOf
  <2>5. pc' \notin {"start", "returned", "raised"} /\ records' = records
    BY <1>5 DEF BeginStep, ConfirmationGranted
  <2>6. /\ EventsTyped' /\ (\A s \in PlanSteps : StepTold(s))' /\ RunTold'
        /\ FailureTold' <=> FailureTold \/ x \in {"failed", "rolled_back"}
    BY <1>1, <1>2, <2>4, <2>5, CurrentIsTold DEF StepStates
  <2> QED BY <1>1, <2>4, <2>5, <2>6 DEF ToldOK, FailureRecorded
<1> QED BY <1>3, <1>4, <1>5

LEMMA CallIsTold ==
  ASSUME Inv, ToldOK, NEW response \in {"success", "partial", "failure"}, Call(response)
  PROVE  ToldOK'
<1>1. InRun /\ index <= Len(Ordered) /\ pc = "invoking"
  BY InRunAt DEF Call
<1>2. UNCHANGED <<plan, sched, runState>>
  BY DEF Call, inputs
<1>3. CASE response = "failure" /\ Retries(attempt + 1)
  <2>1. UNCHANGED <<pc, stepState, records, published>>
    BY <1>3 DEF Call
  <2> QED BY <1>2, <2>1, ZenonT(60)
       DEF ToldOK, EventsTyped, StepTold, RunTold, FailureTold, FailureRecorded, EventsAbout, PlanSteps
<1>4. CASE ~(response = "failure" /\ Retries(attempt + 1))
  <2>1. PICK state \in SettledStates :
          Settle(state, attempt + 1, Granted, <<<<EventOf[state], {Current.id}>>>>)
    BY <1>4 DEF Call, StepFails, StepSucceeds, SettledStates, EventOf
  <2> QED BY <1>1, <1>2, <2>1, SettleIsTold
<1> QED BY <1>3, <1>4

\* Steps that publish nothing.
LEMMA QuietIsTold ==
  ASSUME Inv, ToldOK,
         \/ OrderNext \/ OrderDone \/ OrderFails \/ ConfirmationRaises \/ CallRaises \/ RollBackRaises
         \/ KeepRecord \/ RequestCancellation \/ UNCHANGED vars
  PROVE  ToldOK'
<1>1. UNCHANGED <<plan, runState, stepState, records, published>>
  BY DEF OrderNext, OrderDone, OrderFails, ConfirmationRaises, CallRaises, RollBackRaises, KeepRecord,
         RequestCancellation, Raise, vars, inputs, engine, history
<1>2. pc' = "start" => pc = "start"
  BY DEF OrderNext, OrderDone, OrderFails, ConfirmationRaises, CallRaises, RollBackRaises, KeepRecord,
         RequestCancellation, Raise, vars, engine
<1>3. pc' \in {"returned", "raised"} \/ pc \notin {"returned", "raised"}
  BY DEF OrderNext, OrderDone, OrderFails, ConfirmationRaises, CallRaises, RollBackRaises, KeepRecord,
         RequestCancellation, Raise, vars, engine
<1>4. /\ PlanSteps' = PlanSteps /\ EventsAbout({})' = EventsAbout({})
      /\ \A s : EventsAbout({s})' = EventsAbout({s})
  BY <1>1 DEF PlanSteps, EventsAbout
<1>5. EventsTyped' /\ (\A s \in PlanSteps : StepTold(s))'
  BY <1>1, <1>4, ZenonT(60) DEF ToldOK, EventsTyped, StepTold
<1>6. RunTold'
  BY <1>1, <1>2, <1>4 DEF ToldOK, RunTold
<1> QED BY <1>1, <1>3, <1>5, <1>6 DEF ToldOK, FailureTold, FailureRecorded

LEMMA StartIsTold ==
  ASSUME Inv, ToldOK, StartRun
  PROVE  ToldOK'
<1>1. /\ EventsTyped /\ RunTold /\ published = <<>> /\ PlanSteps' = PlanSteps
      /\ stepState' = stepState /\ records' = records
      /\ published' = published \o <<<<"execution_started", {}>>>>
      /\ runState' = "running" /\ pc' = "ordering" /\ pc = "start"
  BY DEF ToldOK, RunTold, StartRun, Publish, PlanSteps, inputs
<1>0. PICK t \in EventTypes, S \in SUBSET PlanSteps :
        t = "execution_started" /\ S = {} /\ published' = published \o <<<<t, S>>>>
  <2>1. "execution_started" \in EventTypes /\ {} \in SUBSET PlanSteps
    BY DEF EventTypes
  <2> QED BY <1>1, <2>1, Zenon
<1>2. /\ published' \in Seq(EventTypes \X SUBSET PlanSteps) /\ Len(published') = Len(published) + 1
  BY <1>0, <1>1, OneMoreEvent
<1>3. EventsAbout({})' = EventsAbout({}) \cup {Len(published) + 1} /\ EventsAbout({}) = {} /\ Len(published) = 0
  BY <1>0, <1>1, EventsAboutAfter DEF EventsAbout
<1>4. RunTold'
  BY <1>1, <1>2, <1>3 DEF RunTold
<1>5. ASSUME NEW s \in PlanSteps PROVE StepTold(s)'
  <2>1. StepTold(s) /\ S # {s}
    BY <1>0 DEF ToldOK
  <2> QED BY <1>0, <1>1, <2>1, StepStaysTold
<1>6. FailureTold' <=> FailureTold
  BY <1>0, <1>1, FailureToldAfter
<1> QED BY <1>1, <1>2, <1>4, <1>5, <1>6 DEF ToldOK, EventsTyped, FailureRecorded

LEMMA FinalizeIsTold ==
  ASSUME Inv, ToldOK, FinalizeRun
  PROVE  ToldOK'
<1>0. /\ runState' \in {"completed", "failed", "cancelled"}
      /\ published' = published \o <<<<TerminalEvent[runState'], {}>>>>
  BY DEF FinalizeRun, FinalState, Publish
<1>1. PICK t \in EventTypes, S \in SUBSET PlanSteps :
        /\ t = TerminalEvent[runState'] /\ t # "step_failed"
        /\ S = {} /\ published' = published \o <<<<t, S>>>>
  <2>1. TerminalEvent[runState'] \in EventTypes \ {"step_failed"} /\ {} \in SUBSET PlanSteps
    <3>1. CASE runState' = "completed"
      BY <3>1 DEF TerminalEvent, EventTypes
    <3>2. CASE runState' \in {"failed", "cancelled"}
      BY <3>2 DEF TerminalEvent, EventTypes
    <3> QED BY <1>0, <3>1, <3>2
  <2> QED BY <1>0, <2>1, Zenon
<1>2. /\ EventsTyped /\ RunTold /\ runState = "running" /\ PlanSteps' = PlanSteps
      /\ stepState' = stepState /\ records' = records
      /\ pc' \in {"rollback", "returned"} /\ pc = "loop"
  BY DEF ToldOK, FinalizeRun, PlanSteps, inputs, Inv, LoopOK, InRun
<1>3. /\ published' \in Seq(EventTypes \X SUBSET PlanSteps) /\ Len(published') = Len(published) + 1
      /\ Len(published) \in Nat /\ published'[Len(published) + 1] = <<t, {}>>
  BY <1>1, <1>2, OneMoreEvent
<1>4. EventsAbout({})' = EventsAbout({}) \cup {Len(published) + 1}
  BY <1>1, <1>2, EventsAboutAfter
<1>5. RunTold'
  <2>1. published'[Len(published')][1] = t
    BY <1>3
  <2>2. EventsAbout({})' = {1, Len(published')} /\ Len(published') > 1
    BY <1>2, <1>3, <1>4 DEF RunTold
  <2> QED BY <1>0, <1>1, <1>2, <2>1, <2>2 DEF RunTold
<1>6. ASSUME NEW s \in PlanSteps PROVE StepTold(s)'
  <2>1. StepTold(s) /\ S # {s}
    BY <1>1 DEF ToldOK
  <2> QED BY <1>1, <1>2, <2>1, StepStaysTold
<1>7. FailureTold' <=> FailureTold
  BY <1>1, <1>2, FailureToldAfter
<1> QED BY <1>2, <1>3, <1>5, <1>6, <1>7 DEF ToldOK, EventsTyped, FailureRecorded

\* A rollback is not told; the event of the failure stays the last.
LEMMA RollbackIsTold ==
  ASSUME Inv, ToldOK, CompleteRollback \/ \E supported \in BOOLEAN : RollBackRecord(supported)
  PROVE  ToldOK'
<1>1. UNCHANGED <<plan, published>> /\ pc = "rollback" /\ runState = "failed" /\ PlanSteps' = PlanSteps
  BY DEF CompleteRollback, RollBackRecord, inputs, history, Inv, RollbackOK, PlanSteps
<1>2. runState' \in {"failed", "rolled_back"} /\ pc' # "start"
  BY <1>1 DEF CompleteRollback, RollBackRecord
<1>3. \A s \in PlanSteps : EventOf[stepState'[s]] = EventOf[stepState[s]] /\ (stepState[s] = "pending" => stepState'[s] = "pending")
  <2>1. CASE stepState' = stepState
    BY <2>1
  <2>2. CASE stepState' # stepState
    <3>1. PICK supported \in BOOLEAN : RollBackRecord(supported)
      BY <2>2 DEF CompleteRollback
    <3>2. /\ stepState' = [stepState EXCEPT ![records[index].step] = "rolled_back"]
          /\ index <= Len(records) /\ records[index].state = "failed"
      BY <2>2, <3>1 DEF RollBackRecord, NeedsRollback
    <3>3. records[index].step \in PlanSteps /\ stepState[records[index].step] = "failed"
      BY <1>1, <3>2, RecordAtIndex
    <3>4. stepState \in [PlanSteps -> StepStates]
      BY DEF Inv, TypesOK
    <3> QED BY <3>2, <3>3, <3>4 DEF EventOf
  <2> QED BY <2>1, <2>2
<1>4. /\ EventsAbout({})' = EventsAbout({})
      /\ \A s : EventsAbout({s})' = EventsAbout({s})
  BY <1>1 DEF EventsAbout
<1>5. EventsTyped' /\ (\A s \in PlanSteps : StepTold(s))'
  <2>1. EventsTyped'
    BY <1>1 DEF ToldOK, EventsTyped
  <2>2. ASSUME NEW s \in PlanSteps PROVE StepTold(s)'
    <3>1. StepTold(s)
      BY DEF ToldOK
    <3>2. EventsAbout({s})' = EventsAbout({s}) /\ EventOf[stepState'[s]] = EventOf[stepState[s]]
      BY <1>3, <1>4
    <3>3. EventOf' = EventOf
      BY DEF EventOf
    <3> HIDE DEF EventOf
    <3> QED BY <1>1, <1>3, <3>1, <3>2, <3>3 DEF StepTold
  <2> QED BY <1>1, <2>1, <2>2
<1>6. RunTold'
  BY <1>1, <1>2, <1>4 DEF ToldOK, RunTold
<1>7. pc' = "returned" \/ records' = records
  BY DEF CompleteRollback, RollBackRecord
<1> QED BY <1>1, <1>5, <1>6, <1>7 DEF ToldOK, FailureTold, FailureRecorded
\* A cancellation tells of every step that remains.
LEMMA CancellationIsTold ==
  ASSUME Inv, ToldOK, ObserveCancellation
  PROVE  ToldOK'
<1>1. TypesOK /\ SchedOK /\ InRun /\ index <= Len(Ordered) /\ pc = "loop" /\ pc' = "loop"
  BY DEF Inv, ObserveCancellation, InLoop, InRun
<1>2. /\ PlanSteps' = PlanSteps /\ runState' = runState /\ runState = "running"
      /\ stepState' = [s \in PlanSteps |-> IF s \in ToSet(Remaining) THEN "skipped" ELSE stepState[s]]
  BY <1>1 DEF ObserveCancellation, PlanSteps, inputs, Inv, LoopOK
<1>3. /\ Remaining \in Seq(PlanSteps) /\ Len(Remaining) = Len(Ordered) - index + 1
      /\ \A i \in 1..Len(Remaining) : Remaining[i] = Ordered[index + i - 1]
      /\ index \in 1..Len(Ordered) /\ Len(Ordered) \in Nat
  BY <1>1, RemainingSteps, CurrentStep
<1>4. ToSet(Remaining) = {Remaining[i] : i \in 1..Len(Remaining)} /\ Len(Remaining) \in Nat
  BY <1>3 DEF ToSet
<1>5. \A i, j \in 1..Len(Remaining) : Remaining[i] = Remaining[j] => i = j
  <2>1. \A i \in 1..Len(Remaining) : index + i - 1 \in 1..Len(Ordered)
    BY <1>3
  <2>2. \A i, j \in 1..Len(Ordered) : Ordered[i] = Ordered[j] => i = j
    BY <1>1 DEF SchedOK
  <2>3. ASSUME NEW i \in 1..Len(Remaining), NEW j \in 1..Len(Remaining), Remaining[i] = Remaining[j]
        PROVE  i = j
    <3>1. Ordered[index + i - 1] = Ordered[index + j - 1]
      BY <1>3, <2>3
    <3>2. index + i - 1 = index + j - 1
      BY <2>1, <2>2, <3>1
    <3> QED BY <1>3, <3>2
  <2> QED BY <2>3
<1> DEFINE skips == [i \in 1..Len(Remaining) |-> <<"step_skipped", {Remaining[i]}>>]
           E == EventTypes \X SUBSET PlanSteps
<1>6. skips \in Seq(E) /\ Len(skips) = Len(Remaining)
  <2>1. \A i \in 1..Len(Remaining) : <<"step_skipped", {Remaining[i]}>> \in E
    BY <1>3 DEF EventTypes
  <2> HIDE DEF E
  <2> QED BY <1>4, <2>1
<1>7. \A i \in 1..Len(Remaining) : skips[i][1] = "step_skipped" /\ skips[i][2] = {Remaining[i]}
  OBVIOUS
<1>8. published \in Seq(E) /\ published' = published \o skips
  BY DEF ToldOK, EventsTyped, ObserveCancellation, Publish
<1> HIDE DEF skips, E
<1>9. /\ published' \in Seq(E) /\ Len(published') = Len(published) + Len(skips)
      /\ \A i \in 1..Len(published) : published'[i] = published[i]
      /\ \A i \in 1..Len(skips) : published'[Len(published) + i] = skips[i]
      /\ Len(published) \in Nat
  <2>1. /\ published \o skips \in Seq(E) /\ Len(published \o skips) = Len(published) + Len(skips)
        /\ \A i \in 1..Len(published) : (published \o skips)[i] = published[i]
        /\ \A i \in 1..Len(skips) : (published \o skips)[Len(published) + i] = skips[i]
        /\ Len(published) \in Nat
    <3>1. published \in Seq(E) /\ skips \in Seq(E)
      BY <1>6, <1>8
    <3> QED BY <3>1, Concatenation
  <2> QED BY <1>8, <2>1, Zenon
<1>10. \A i \in 1..Len(published') :
         \/ i \in 1..Len(published) /\ published'[i] = published[i]
         \/ \E k \in 1..Len(Remaining) : /\ i = Len(published) + k
                                         /\ published'[i][1] = "step_skipped"
                                         /\ published'[i][2] = {Remaining[k]}
  <2> SUFFICES ASSUME NEW i \in 1..Len(published'), i \notin 1..Len(published)
               PROVE  \E k \in 1..Len(Remaining) : /\ i = Len(published) + k
                                         /\ published'[i][1] = "step_skipped"
                                         /\ published'[i][2] = {Remaining[k]}
    BY <1>9
  <2>1. PICK k \in 1..Len(Remaining) : i = Len(published) + k
    <3>1. i - Len(published) \in 1..Len(Remaining) /\ i = Len(published) + (i - Len(published))
      BY <1>4, <1>6, <1>9
    <3> QED BY <3>1
  <2>2. published'[i] = skips[k]
    BY <1>6, <1>9, <2>1
  <2> QED BY <1>7, <2>1, <2>2
<1>11. \A i \in 1..Len(published) : i \in 1..Len(published')
  BY <1>4, <1>6, <1>9
<1>12. \A S : (\A k \in 1..Len(Remaining) : S # {Remaining[k]}) => EventsAbout(S)' = EventsAbout(S)
  <2> SUFFICES ASSUME NEW S, \A k \in 1..Len(Remaining) : S # {Remaining[k]}
               PROVE  EventsAbout(S)' = EventsAbout(S)
    OBVIOUS
  <2>1. \A i : i \in EventsAbout(S)' <=> i \in 1..Len(published') /\ published'[i][2] = S
    BY DEF EventsAbout
  <2>2. \A i : i \in EventsAbout(S) <=> i \in 1..Len(published) /\ published[i][2] = S
    BY DEF EventsAbout
  <2>3. ASSUME NEW i \in EventsAbout(S)' PROVE i \in EventsAbout(S)
    <3>1. i \in 1..Len(published') /\ published'[i][2] = S
      BY <2>1
    <3>2. ~\E k \in 1..Len(Remaining) : published'[i][2] = {Remaining[k]}
      BY <3>1
    <3>3. i \in 1..Len(published) /\ published'[i] = published[i]
      BY <1>10, <3>1, <3>2
    <3> QED BY <2>2, <3>1, <3>3
  <2>4. \A i : i \in EventsAbout(S) => i \in EventsAbout(S)'
    BY <1>9, <1>11, <2>1, <2>2
  <2> QED BY <2>3, <2>4
<1>13. RunTold'
  <2>1. EventsAbout({})' = EventsAbout({})
    BY <1>12
  <2> QED BY <1>1, <1>2, <1>4, <1>6, <1>9, <2>1 DEF ToldOK, RunTold
<1>14. ASSUME NEW s \in PlanSteps PROVE StepTold(s)'
  <2>1. CASE s \in ToSet(Remaining)
    <3>1. PICK k \in 1..Len(Remaining) : s = Remaining[k]
      BY <1>4, <2>1
    <3>2. stepState'[s] = "skipped"
      BY <1>2, <2>1
    <3> DEFINE i == Len(published) + k
    <3>3. i \in 1..Len(published') /\ published'[i][1] = "step_skipped" /\ published'[i][2] = {s}
      <4>1. i \in 1..Len(published') /\ published'[i] = skips[k]
        BY <1>4, <1>6, <1>9
      <4> QED BY <1>7, <3>1, <4>1
    <3>4. ASSUME NEW j \in 1..Len(published'), published'[j][2] = {s} PROVE j <= i
      <4>1. CASE j \in 1..Len(published)
        BY <1>9, <4>1
      <4>2. CASE j \notin 1..Len(published)
        <5>1. PICK l \in 1..Len(Remaining) : j = Len(published) + l /\ published'[j][2] = {Remaining[l]}
          BY <1>10, <4>2
        <5>2. {Remaining[l]} = {Remaining[k]}
          BY <3>1, <3>4, <5>1
        <5>3. l = k
          BY <1>5, <5>2
        <5> QED BY <1>9, <5>1, <5>3
      <4> QED BY <4>1, <4>2
    <3> HIDE DEF i
    <3>5. i \in EventsAbout({s})' /\ \A j \in EventsAbout({s})' : j <= i
      BY <3>3, <3>4 DEF EventsAbout
    <3>6. published'[i][1] = EventOf[stepState'[s]]
      BY <3>2, <3>3 DEF EventOf
    <3> QED BY <3>5, <3>6 DEF StepTold
  <2>2. CASE s \notin ToSet(Remaining)
    <3>1. EventsAbout({s})' = EventsAbout({s}) /\ stepState'[s] = stepState[s]
      BY <1>2, <1>4, <1>12, <2>2
    <3>2. \A i \in EventsAbout({s}) : published'[i] = published[i]
      BY <1>9 DEF EventsAbout
    <3> QED BY <3>1, <3>2 DEF ToldOK, StepTold
  <2> QED BY <2>1, <2>2
<1>15. FailureTold' <=> FailureTold
  BY <1>9, <1>10, <1>11 DEF FailureTold
<1>16. FailureRecorded' <=> FailureRecorded
  <2> DEFINE rest == [i \in 1..Len(Remaining) |-> Record(Remaining[i], "skipped", 0, "none")]
  <2>1. \A i \in 1..Len(Remaining) : Record(Remaining[i], "skipped", 0, "none").state = "skipped"
    BY DEF Record
  <2>2. \A i \in 1..Len(Remaining) : Record(Remaining[i], "skipped", 0, "none") \in RecordType
    BY <1>3 DEF Record, RecordType, StepStates
  <2>3. rest \in Seq(RecordType) /\ Len(rest) = Len(Remaining) /\ \A i \in 1..Len(rest) : rest[i].state = "skipped"
    BY <1>4, <2>1, <2>2
  <2>4. records' = records \o rest /\ records \in Seq(RecordType)
    BY <1>1 DEF ObserveCancellation, TypesOK
  <2> HIDE DEF rest
  <2>5. /\ Len(records') = Len(records) + Len(rest)
        /\ \A i \in 1..Len(records) : records'[i] = records[i]
        /\ \A i \in 1..Len(rest) : records'[Len(records) + i] = rest[i]
        /\ Len(records) \in Nat /\ Len(rest) \in Nat
    <3>1. /\ records \o rest \in Seq(RecordType) /\ Len(records \o rest) = Len(records) + Len(rest)
          /\ \A i \in 1..Len(records) : (records \o rest)[i] = records[i]
          /\ \A i \in 1..Len(rest) : (records \o rest)[Len(records) + i] = rest[i]
          /\ Len(records) \in Nat /\ Len(rest) \in Nat
      BY <2>3, <2>4, Concatenation
    <3> QED BY <2>4, <3>1, Zenon
  <2>6. \A i \in 1..Len(records') : i \in 1..Len(records) \/ records'[i].state = "skipped"
    <3> SUFFICES ASSUME NEW i \in 1..Len(records'), i \notin 1..Len(records)
                 PROVE  records'[i].state = "skipped"
      OBVIOUS
    <3>1. i - Len(records) \in 1..Len(rest) /\ i = Len(records) + (i - Len(records))
      BY <2>5
    <3> QED BY <2>3, <2>5, <3>1
  <2>7. \A i \in 1..Len(records) : i \in 1..Len(records')
    BY <2>5
  <2> QED BY <2>5, <2>6, <2>7 DEF FailureRecorded
<1> QED BY <1>1, <1>2, <1>9, <1>13, <1>14, <1>15, <1>16 DEF ToldOK, EventsTyped, E

LEMMA NextIsTold == Inv /\ ToldOK /\ [Next]_vars => ToldOK'
BY QuietIsTold, StartIsTold, LoopIsTold, CallIsTold, CancellationIsTold, FinalizeIsTold, RollbackIsTold
   DEF Next, Execute

------------------------------------------------------------------------------
(* The records tell how every step ended and how often it was called.      *)

Unavailability(s) == StepOf(plan, s).capability \notin Available

\* What a record says of the step s.
RecordTells(record, s) ==
  /\ record.step = s
  /\ record.attempts = Count(s, invoked)
  /\ record.state = "failed" => record.attempts > 0 \/ Unavailability(s)

RecordsTold ==
  pc \notin {"returned", "raised"} =>
    /\ Len(records) <= Len(Ordered)
    /\ \A i \in 1..Len(records) : RecordTells(records[i], Ordered[i]) /\ records[i].rollback = "none"

\* The records the rollback pass has gone through.
UpdatesTold ==
  /\ Len(updated) = index - 1 /\ index <= Len(records) + 1
  /\ \A i \in 1..Len(updated) :
       /\ updated[i].step = Ordered[i]
       /\ updated[i].state = stepState[Ordered[i]]
       /\ updated[i].attempts = Count(Ordered[i], invoked)
       /\ updated[i].rollback # "none" => updated[i].attempts > 0 \/ Unavailability(Ordered[i])

ResultOK ==
  /\ RecordsTold
  /\ pc = "invoking" => (Current.capability \notin Available => attempt = 0)
  /\ pc = "rollback" => UpdatesTold /\ ~cancelled /\ FailureTold
  /\ pc = "returned" => RecordsTellWhatHappened

LEMMA ResultInit == Init => ResultOK
<1> SUFFICES ASSUME Init PROVE ResultOK
  OBVIOUS
<1>1. records = <<>> /\ Len(records) = 0 /\ pc = "start" /\ Len(Ordered) \in Nat
  BY InitOK DEF Init, Inv, SchedOK
<1> QED BY <1>1 DEF ResultOK, RecordsTold

\* While nothing the records tell of changes.
LEMMA QuietResult ==
  ASSUME Inv, ResultOK, CallsInv,
         UNCHANGED <<plan, sched, index, runState, stepState, records, cancelled, updated, invoked, published>>,
         \/ UNCHANGED <<pc, attempt>>
         \/ pc' = "raised"
         \/ pc' \in {"ordering", "loop", "confirming"} /\ pc \in {"start", "ordering", "loop"}
  PROVE  ResultOK'
<1>1. /\ Ordered' = Ordered /\ PlanSteps' = PlanSteps /\ Current' = Current
      /\ \A s : Unavailability(s)' = Unavailability(s) /\ Calls(s)' = Calls(s)
  BY DEF Ordered, PlanSteps, Current, Unavailability, Calls
<1>2. pc' \notin {"returned", "raised"} => pc \notin {"returned", "raised"}
  OBVIOUS
<1>3. RecordsTold'
  BY <1>1, <1>2 DEF ResultOK, RecordsTold, RecordTells
<1>4. UpdatesTold' = UpdatesTold /\ FailureTold' = FailureTold
  BY <1>1 DEF UpdatesTold, FailureTold
<1>5. RecordsTellWhatHappened' = RecordsTellWhatHappened
  BY <1>1 DEF RecordsTellWhatHappened
<1> QED BY <1>1, <1>3, <1>4, <1>5 DEF ResultOK

\* A step ordered does not change what has been recorded, which is nothing.
LEMMA SchedulingResult ==
  ASSUME Inv, ResultOK, StartRun \/ OrderNext
  PROVE  ResultOK'
<1>1. records' = <<>> /\ Len(records') = 0 /\ pc' = "ordering"
  BY DEF Inv, StartOK, StartRun, OrderNext
<1>2. Len(Ordered') \in Nat
  BY SchedulingKeeps DEF Inv, SchedOK
<1> QED BY <1>1, <1>2 DEF ResultOK, RecordsTold

\* The steps before the current one are not called with it.
LEMMA OtherCountsStay ==
  ASSUME Inv, CallsInv, index <= Len(Ordered), invoked' = Append(invoked, Current.id)
  PROVE  /\ Count(Ordered[index], invoked') = Count(Ordered[index], invoked) + 1
         /\ \A i \in 1..Len(Ordered) : i # index => Count(Ordered[i], invoked') = Count(Ordered[i], invoked)
<1>1. TypesOK /\ SchedOK /\ invoked \in Seq(PlanSteps)
  BY DEF Inv, CallsInv, HistoryOK
<1>2. PICK c \in PlanSteps : c = Current.id /\ c = Ordered[index]
  BY <1>1, CurrentStep
<1>3. \A s : Count(s, Append(invoked, c)) = IF c = s THEN Count(s, invoked) + 1 ELSE Count(s, invoked)
  BY <1>1, CountAfterAppend
<1>4. \A i \in 1..Len(Ordered) : i # index => Ordered[i] # c
  BY <1>1, <1>2, OthersDiffer
<1> QED BY <1>2, <1>3, <1>4

LEMMA SettleResult ==
  ASSUME Inv, ResultOK, CallsInv, InRun, index <= Len(Ordered),
         NEW state \in SettledStates, NEW attempts \in Nat, NEW granted, NEW events,
         Settle(state, attempts, granted, events), UNCHANGED <<plan, sched>>,
         attempts = Count(Ordered[index], invoked'),
         state = "failed" => attempts > 0 \/ Current.capability \notin Available,
         \A i \in 1..Len(Ordered) : i # index => Count(Ordered[i], invoked') = Count(Ordered[i], invoked)
  PROVE  ResultOK'
<1>1. TypesOK /\ SchedOK /\ LoopOK /\ Len(records) = index - 1
  BY DEF Inv, LoopOK
<1>2. /\ Ordered' = Ordered /\ \A s : Unavailability(s)' = Unavailability(s)
  BY DEF Ordered, Unavailability
<1>3. /\ index \in 1..Len(Ordered) /\ Len(Ordered) \in Nat /\ Current.id = Ordered[index]
      /\ Current = StepOf(plan, Ordered[index])
  BY <1>1, CurrentStep DEF Current
<1> DEFINE new == Record(Current.id, state, attempts, granted)
<1>4. /\ records' = Append(records, new) /\ records \in Seq(RecordType)
      /\ new.step = Ordered[index] /\ new.state = state /\ new.attempts = attempts /\ new.rollback = "none"
  BY <1>1, <1>3 DEF Settle, Record, TypesOK
<1> HIDE DEF new
<1>5. /\ Len(records') = Len(records) + 1 /\ records'[Len(records) + 1] = new /\ Len(records) \in Nat
      /\ \A i \in 1..Len(records) : records'[i] = records[i]
  BY <1>4
<1>6. ASSUME NEW i \in 1..Len(records')
      PROVE  RecordTells(records[i], Ordered[i])' /\ records'[i].rollback = "none"
  <2>1. CASE i \in 1..Len(records)
    <3>1. RecordTells(records[i], Ordered[i]) /\ records[i].rollback = "none"
      BY <2>1 DEF ResultOK, RecordsTold, InRun
    <3>2. Count(Ordered[i], invoked') = Count(Ordered[i], invoked)
      BY <1>1, <1>3, <2>1
    <3> QED BY <1>2, <1>5, <2>1, <3>1, <3>2 DEF RecordTells
  <2>2. CASE i = index
    <3>1. records'[i] = new
      BY <1>1, <1>3, <1>5, <2>2
    <3>2. Unavailability(Ordered[i]) <=> Current.capability \notin Available
      BY <1>3, <2>2 DEF Unavailability
    <3> QED BY <1>2, <1>4, <2>2, <3>1, <3>2 DEF RecordTells
  <2> QED BY <1>1, <1>3, <1>5, <2>1, <2>2
<1>7. Len(records') <= Len(Ordered')
  BY <1>1, <1>2, <1>3, <1>5
<1>8. pc' = "loop"
  BY DEF Settle
<1> QED BY <1>6, <1>7, <1>8 DEF ResultOK, RecordsTold

LEMMA LeavingResult ==
  ASSUME Inv, ResultOK, CallsInv, SkipUnmet \/ ConfirmationDenied \/ Unavailable
  PROVE  ResultOK'
<1>1. InRun /\ index <= Len(Ordered) /\ (pc # "loop" => pc \in {"confirming", "invoking"})
  BY InRunAt DEF SkipUnmet, ConfirmationDenied, Unavailable, InLoop, InRun
<1>2. UNCHANGED <<plan, sched, invoked>> /\ \A i \in 1..Len(Ordered) : Count(Ordered[i], invoked') = Count(Ordered[i], invoked)
  BY DEF SkipUnmet, ConfirmationDenied, Unavailable, inputs
<1>3. CASE SkipUnmet \/ ConfirmationDenied
  <2>1. PICK granted : \E events : Settle("skipped", 0, granted, events)
    BY <1>3 DEF SkipUnmet, ConfirmationDenied
  <2>2. PICK events : Settle("skipped", 0, granted, events)
    BY <2>1
  <2>3. stepState[Ordered[index]] = "pending"
    BY <1>1, <1>3, CurrentStep DEF Inv, LoopOK, SkipUnmet, ConfirmationDenied, InLoop
  <2>4. Count(Ordered[index], invoked) = 0
    BY <2>3, PendingIsNotCalled, CountOfAbsent DEF CallsInv, HistoryOK
  <2> QED BY <1>1, <1>2, <2>2, <2>4, SettleResult DEF SettledStates
<1>4. CASE Unavailable
  <2>1. PICK events : Settle("failed", 0, Granted, events)
    BY <1>4 DEF Unavailable, StepFails
  <2>2. Current.capability \notin Available /\ attempt = 0 /\ Count(Ordered[index], invoked) = 0
    BY <1>4 DEF Unavailable, ResultOK, CallsInv, AttemptOK
  <2> QED BY <1>1, <1>2, <2>1, <2>2, SettleResult DEF SettledStates
<1> QED BY <1>3, <1>4

LEMMA CallResult ==
  ASSUME Inv, ResultOK, CallsInv, NEW response \in {"success", "partial", "failure"}, Call(response)
  PROVE  ResultOK'
<1>1. InRun /\ index <= Len(Ordered) /\ pc = "invoking" /\ Current.capability \in Available
  BY InRunAt DEF Call
<1>2. UNCHANGED <<plan, sched>> /\ invoked' = Append(invoked, Current.id)
  BY DEF Call, inputs
<1>3. /\ Count(Ordered[index], invoked') = Count(Ordered[index], invoked) + 1
      /\ \A i \in 1..Len(Ordered) : i # index => Count(Ordered[i], invoked') = Count(Ordered[i], invoked)
  BY <1>1, <1>2, OtherCountsStay
<1>4. Count(Ordered[index], invoked) = attempt /\ attempt \in Nat
  BY <1>1 DEF CallsInv, AttemptOK, Inv, TypesOK
<1>5. CASE response = "failure" /\ Retries(attempt + 1)
  <2>1. UNCHANGED <<pc, index, records>> /\ Ordered' = Ordered /\ Current' = Current
        /\ \A s : Unavailability(s)' = Unavailability(s)
    BY <1>2, <1>5 DEF Call, Ordered, Current, Unavailability
  <2>2. \A i \in 1..Len(records) : i \in 1..Len(Ordered) /\ i # index
    BY <1>1, CurrentStep DEF Inv, LoopOK
  <2>3. RecordsTold'
    BY <1>3, <2>1, <2>2 DEF ResultOK, RecordsTold, RecordTells
  <2> QED BY <1>1, <2>1, <2>3 DEF ResultOK
<1>6. CASE ~(response = "failure" /\ Retries(attempt + 1))
  <2>1. PICK state \in SettledStates : \E events : Settle(state, attempt + 1, Granted, events)
    BY <1>6 DEF Call, StepFails, StepSucceeds, SettledStates
  <2>2. PICK events : Settle(state, attempt + 1, Granted, events)
    BY <2>1
  <2>3. attempt + 1 \in Nat /\ attempt + 1 > 0 /\ attempt + 1 = Count(Ordered[index], invoked')
    BY <1>3, <1>4
  <2> QED BY <1>1, <1>2, <1>3, <2>2, <2>3, SettleResult
<1> QED BY <1>5, <1>6

LEMMA ProceedResult ==
  ASSUME Inv, ResultOK, CallsInv, BeginStep \/ ConfirmationGranted
  PROVE  ResultOK'
<1>1. /\ UNCHANGED <<plan, sched, index, attempt, records, invoked>>
      /\ pc \in {"loop", "confirming"} /\ pc' \in {"confirming", "invoking"}
  BY DEF BeginStep, ConfirmationGranted, InLoop, inputs
<1>2. Ordered' = Ordered /\ \A s : Unavailability(s)' = Unavailability(s)
  BY <1>1 DEF Ordered, Unavailability
<1>3. RecordsTold'
  BY <1>1, <1>2 DEF ResultOK, RecordsTold, RecordTells
<1>4. attempt' = 0
  BY <1>1 DEF CallsInv, AttemptOK
<1> QED BY <1>1, <1>3, <1>4 DEF ResultOK

LEMMA CancellationResult ==
  ASSUME Inv, ResultOK, CallsInv, ObserveCancellation
  PROVE  ResultOK'
<1>1. /\ TypesOK /\ SchedOK /\ InRun /\ index <= Len(Ordered) /\ pc = "loop" /\ pc' = "loop"
      /\ UNCHANGED <<plan, sched, invoked>> /\ Len(records) = index - 1 /\ invoked \in Seq(PlanSteps)
  BY DEF Inv, ObserveCancellation, InLoop, InRun, LoopOK, inputs, CallsInv, HistoryOK
<1>2. Ordered' = Ordered /\ \A s : Unavailability(s)' = Unavailability(s)
  BY <1>1 DEF Ordered, Unavailability
<1>3. /\ Remaining \in Seq(PlanSteps) /\ Len(Remaining) = Len(Ordered) - index + 1
      /\ \A i \in 1..Len(Remaining) : Remaining[i] = Ordered[index + i - 1]
      /\ index \in 1..Len(Ordered) /\ Len(Ordered) \in Nat
  BY <1>1, RemainingSteps, CurrentStep
<1> DEFINE rest == [i \in 1..Len(Remaining) |-> Record(Remaining[i], "skipped", 0, "none")]
<1>4. rest \in Seq(RecordType) /\ Len(rest) = Len(Remaining)
  <2>1. \A i \in 1..Len(Remaining) : Record(Remaining[i], "skipped", 0, "none") \in RecordType
    BY <1>3 DEF Record, RecordType, StepStates
  <2> QED BY <1>3, <2>1
<1>5. \A i \in 1..Len(Remaining) : /\ rest[i].step = Remaining[i] /\ rest[i].state = "skipped"
                                   /\ rest[i].attempts = 0 /\ rest[i].rollback = "none"
  BY DEF Record
<1>6. records' = records \o rest /\ records \in Seq(RecordType)
  BY <1>1 DEF ObserveCancellation, TypesOK
<1> HIDE DEF rest
<1>7. /\ Len(records') = Len(records) + Len(rest)
      /\ \A i \in 1..Len(records) : records'[i] = records[i]
      /\ \A i \in 1..Len(rest) : records'[Len(records) + i] = rest[i]
      /\ Len(records) \in Nat /\ Len(rest) \in Nat
  <2>1. /\ records \o rest \in Seq(RecordType) /\ Len(records \o rest) = Len(records) + Len(rest)
        /\ \A i \in 1..Len(records) : (records \o rest)[i] = records[i]
        /\ \A i \in 1..Len(rest) : (records \o rest)[Len(records) + i] = rest[i]
        /\ Len(records) \in Nat /\ Len(rest) \in Nat
    <3>1. rest \in Seq(RecordType) /\ records \in Seq(RecordType)
      BY <1>4, <1>6
    <3> QED BY <3>1, Concatenation
  <2> QED BY <1>6, <2>1, Zenon
<1>8. ASSUME NEW i \in 1..Len(records')
      PROVE  RecordTells(records[i], Ordered[i])' /\ records'[i].rollback = "none"
  <2>1. CASE i \in 1..Len(records)
    <3>1. RecordTells(records[i], Ordered[i]) /\ records[i].rollback = "none"
      BY <1>1, <2>1 DEF ResultOK, RecordsTold
    <3> QED BY <1>1, <1>2, <1>7, <2>1, <3>1 DEF RecordTells
  <2>2. CASE i \notin 1..Len(records)
    <3>1. PICK k \in 1..Len(rest) : i = Len(records) + k
      <4>1. i - Len(records) \in 1..Len(rest) /\ i = Len(records) + (i - Len(records))
        BY <1>7, <2>2
      <4> QED BY <4>1
    <3>2. /\ records'[i].step = Ordered[i] /\ records'[i].state = "skipped"
          /\ records'[i].attempts = 0 /\ records'[i].rollback = "none"
      <4>1. records'[i] = rest[k] /\ k \in 1..Len(Remaining)
        BY <1>4, <1>7, <3>1
      <4>2. index + k - 1 = i
        BY <1>1, <1>3, <3>1
      <4>3. Remaining[k] = Ordered[i]
        BY <1>3, <4>1, <4>2
      <4> QED BY <1>5, <4>1, <4>3
    <3>3. stepState[Ordered[i]] = "pending"
      <4>1. i \in 1..Len(Ordered) /\ i >= index
        BY <1>1, <1>3, <1>4, <1>7, <3>1
      <4>2. /\ i > index => stepState[Ordered[i]] = "pending"
            /\ i = index => stepState[Ordered[i]] = "pending"
        BY <1>1, <4>1 DEF Inv, LoopOK
      <4> QED BY <1>3, <4>1, <4>2
    <3>4. Count(Ordered[i], invoked) = 0
      BY <1>1, <3>3, PendingIsNotCalled, CountOfAbsent
    <3> QED BY <1>1, <1>2, <3>2, <3>4 DEF RecordTells
  <2> QED BY <2>1, <2>2
<1>9. Len(records') <= Len(Ordered')
  BY <1>1, <1>2, <1>3, <1>4, <1>7
<1> QED BY <1>1, <1>8, <1>9 DEF ResultOK, RecordsTold

\* At the end of the loop every step is settled and on record.
LEMMA FinalizeResult ==
  ASSUME Inv, ResultOK, CallsInv, ToldOK, FinalizeRun
  PROVE  ResultOK'
<1>1. /\ pc = "loop" /\ index > Len(Ordered) /\ runState' = FinalState /\ InRun
      /\ UNCHANGED <<plan, sched, stepState, records, updated, cancelled, invoked>>
      /\ \/ FinalState = "failed" /\ pc' = "rollback" /\ index' = 1
         \/ pc' = "returned"
  BY DEF FinalizeRun, inputs, InRun
<1>2. /\ Ordered' = Ordered /\ PlanSteps' = PlanSteps
      /\ \A s : Unavailability(s)' = Unavailability(s) /\ Calls(s)' = Calls(s)
  BY <1>1 DEF Ordered, PlanSteps, Unavailability, Calls
<1>3. Len(records) = Len(Ordered) /\ RecordsAgree(1) /\ Len(Ordered) \in Nat /\ updated = <<>>
  BY <1>1 DEF Inv, LoopOK, SchedOK, TypesOK, CallsInv, DeniedOK
<1>4. \A i \in 1..Len(Ordered) :
        RecordTells(records[i], Ordered[i]) /\ records[i].rollback = "none" /\ records[i].state = stepState[Ordered[i]]
  BY <1>1, <1>3 DEF ResultOK, RecordsTold, RecordsAgree
<1>5. ToldOK' /\ (FailureTold <=> FailureRecorded)
  BY <1>1, FinalizeIsTold DEF ToldOK
<1>6. FailureTold' <=> FailureTold
  <2>1. PICK t \in EventTypes, S \in SUBSET PlanSteps :
          t # "step_failed" /\ published' = published \o <<<<t, S>>>>
    <3>1. /\ runState' \in {"completed", "failed", "cancelled"}
          /\ published' = published \o <<<<TerminalEvent[runState'], {}>>>>
      BY DEF FinalizeRun, FinalState, Publish
    <3>2. TerminalEvent[runState'] \in EventTypes \ {"step_failed"} /\ {} \in SUBSET PlanSteps
      <4>1. CASE runState' = "completed"
        BY <4>1 DEF TerminalEvent, EventTypes
      <4>2. CASE runState' \in {"failed", "cancelled"}
        BY <4>2 DEF TerminalEvent, EventTypes
      <4> QED BY <3>1, <4>1, <4>2
    <3> QED BY <3>1, <3>2, Zenon
  <2> QED BY <2>1, FailureToldAfter DEF ToldOK
<1>7. \A s \in PlanSteps : \E i \in 1..Len(Ordered) : s = Ordered[i]
  BY <1>1, EveryStepIsOrdered
<1>8. \A i \in 1..Len(Ordered) : Ordered[i] \in PlanSteps /\ stepState[Ordered[i]] \in SettledStates
  BY <1>1, <1>3 DEF Inv, LoopOK, SchedOK, TypesOK
<1>9. FailureRecorded <=> \E s \in PlanSteps : stepState[s] = "failed"
  BY <1>3, <1>4, <1>7, <1>8 DEF FailureRecorded
<1>10. /\ FinalState = "failed" <=> ~cancelled /\ FailureRecorded
       /\ FinalState = "completed" => ~FailureRecorded
       /\ FinalState # "rolled_back"
  BY DEF FinalState, FailureRecorded
<1>11. CASE pc' = "returned"
  <2>1. RecordsTellWhatHappened'
    <3>1. /\ Len(records') = Len(Ordered')
          /\ \A i \in 1..Len(records') :
               /\ records'[i].step = Ordered'[i]
               /\ records'[i].state = stepState'[Ordered'[i]]
               /\ records'[i].attempts = Count(Ordered'[i], invoked')
               /\ records'[i].rollback = "none"
      BY <1>1, <1>2, <1>3, <1>4 DEF RecordTells
    <3>2. runState' = "completed" => \A s \in PlanSteps' : stepState'[s] \in {"succeeded", "skipped"}
      BY <1>1, <1>2, <1>7, <1>8, <1>9, <1>10 DEF SettledStates
    <3>3. runState' = "failed" => \E s \in PlanSteps' : stepState'[s] = "failed"
      BY <1>1, <1>2, <1>9, <1>10
    <3>4. runState' \in {"failed", "rolled_back"} <=> ~cancelled' /\ FailureTold'
      BY <1>1, <1>5, <1>6, <1>10
    <3> QED BY <3>1, <3>2, <3>3, <3>4 DEF RecordsTellWhatHappened, FailureTold, Calls, Count
  <2> QED BY <1>11, <2>1 DEF ResultOK, RecordsTold
<1>12. CASE pc' = "rollback"
  <2>1. FinalState = "failed" /\ index' = 1
    BY <1>1, <1>12
  <2>2. ~cancelled' /\ FailureTold'
    BY <1>1, <1>5, <1>6, <1>10, <2>1
  <2>3. UpdatesTold'
    BY <1>1, <1>3, <2>1 DEF UpdatesTold
  <2>4. RecordsTold'
    BY <1>1, <1>2, <1>3, <1>4 DEF RecordsTold, RecordTells
  <2> QED BY <1>12, <2>2, <2>3, <2>4 DEF ResultOK
<1> QED BY <1>1, <1>11, <1>12

LEMMA RollbackResult ==
  ASSUME Inv, ResultOK, KeepRecord \/ \E supported \in BOOLEAN : RollBackRecord(supported)
  PROVE  ResultOK'
<1> DEFINE old == records[index]
<1>1. /\ pc = "rollback" /\ pc' = "rollback" /\ index <= Len(records) /\ index' = index + 1
      /\ UNCHANGED <<plan, sched, records, cancelled, invoked, published>>
  BY DEF KeepRecord, RollBackRecord, inputs, history
<1>2. /\ Ordered' = Ordered /\ PlanSteps' = PlanSteps /\ FailureTold' = FailureTold
      /\ \A s : Unavailability(s)' = Unavailability(s)
  BY <1>1 DEF Ordered, PlanSteps, Unavailability, FailureTold
<1>3. /\ index \in 1..Len(records) /\ Len(records) \in Nat /\ Len(records) = Len(Ordered)
      /\ old \in RecordType /\ old.step = Ordered[index] /\ Ordered[index] \in PlanSteps
      /\ old.state = stepState[Ordered[index]]
      /\ RecordTells(old, Ordered[index]) /\ old.rollback = "none"
  BY <1>1, RecordAtIndex DEF ResultOK, RecordsTold
<1>4. UpdatesTold /\ ~cancelled /\ FailureTold /\ updated \in Seq(RecordType) /\ Len(updated) = index - 1
  BY <1>1 DEF ResultOK, UpdatesTold, Inv, TypesOK
<1>5. stepState \in [PlanSteps -> StepStates] /\ \A i \in 1..Len(Ordered) : Ordered[i] \in PlanSteps /\ (i # index => Ordered[i] # Ordered[index])
  BY <1>3 DEF Inv, TypesOK, SchedOK
<1>6. PICK new \in RecordType :
        /\ updated' = Append(updated, new)
        /\ new.step = Ordered[index] /\ new.attempts = old.attempts
        /\ new.rollback # "none" => old.state = "failed"
        /\ new.state = stepState'[Ordered[index]]
        /\ \A i \in 1..Len(Ordered) : i # index => stepState'[Ordered[i]] = stepState[Ordered[i]]
  <2>1. CASE KeepRecord
    BY <1>3, <2>1 DEF KeepRecord
  <2>2. ASSUME NEW supported \in BOOLEAN, RollBackRecord(supported)
        PROVE  \E new \in RecordType :
                 /\ updated' = Append(updated, new)
                 /\ new.step = Ordered[index] /\ new.attempts = old.attempts
                 /\ new.rollback # "none" => old.state = "failed"
                 /\ new.state = stepState'[Ordered[index]]
                 /\ \A i \in 1..Len(Ordered) : i # index => stepState'[Ordered[i]] = stepState[Ordered[i]]
    <3>1. old.state = "failed"
      BY <2>2 DEF RollBackRecord, NeedsRollback
    <3>2. CASE supported
      <4> DEFINE new == [old EXCEPT !.state = "rolled_back", !.rollback = "done"]
      <4>1. updated' = Append(updated, new) /\ stepState' = [stepState EXCEPT ![old.step] = "rolled_back"]
        BY <2>2, <3>2 DEF RollBackRecord
      <4>2. new \in RecordType /\ new.step = old.step /\ new.attempts = old.attempts /\ new.state = "rolled_back"
        BY <1>3 DEF RecordType, StepStates
      <4> HIDE DEF new
      <4>3. stepState'[Ordered[index]] = "rolled_back" /\ \A i \in 1..Len(Ordered) : i # index => stepState'[Ordered[i]] = stepState[Ordered[i]]
        BY <1>3, <1>5, <4>1
      <4> QED BY <1>3, <3>1, <4>1, <4>2, <4>3
    <3>3. CASE ~supported
      <4> DEFINE new == [old EXCEPT !.rollback = "unsupported"]
      <4>1. updated' = Append(updated, new) /\ stepState' = stepState
        BY <2>2, <3>3 DEF RollBackRecord
      <4>2. new \in RecordType /\ new.step = old.step /\ new.attempts = old.attempts /\ new.state = old.state
        BY <1>3 DEF RecordType
      <4> HIDE DEF new
      <4> QED BY <1>3, <3>1, <4>1, <4>2
    <3> QED BY <3>2, <3>3
  <2> QED BY <2>1, <2>2
<1>7. /\ Len(updated') = Len(updated) + 1 /\ updated'[Len(updated) + 1] = new /\ Len(updated) \in Nat
      /\ \A i \in 1..Len(updated) : updated'[i] = updated[i]
  BY <1>4, <1>6
<1>8. ASSUME NEW i \in 1..Len(updated')
      PROVE  /\ updated'[i].step = Ordered[i]
             /\ updated'[i].state = stepState'[Ordered[i]]
             /\ updated'[i].attempts = Count(Ordered[i], invoked)
             /\ updated'[i].rollback # "none" => updated'[i].attempts > 0 \/ Unavailability(Ordered[i])
  <2>1. CASE i \in 1..Len(updated)
    <3>1. i \in 1..Len(Ordered) /\ i # index /\ updated'[i] = updated[i]
      BY <1>3, <1>4, <1>7, <2>1
    <3> QED BY <1>4, <1>6, <2>1, <3>1 DEF UpdatesTold
  <2>2. CASE i = index
    <3>1. updated'[i] = new
      BY <1>4, <1>7, <2>2
    <3> QED BY <1>3, <1>6, <2>2, <3>1 DEF RecordTells
  <2> QED BY <1>3, <1>4, <1>7, <2>1, <2>2
<1>9. UpdatesTold'
  <2>1. Len(updated') = index' - 1 /\ index' <= Len(records') + 1
    BY <1>1, <1>3, <1>4, <1>7
  <2> QED BY <1>1, <1>2, <1>8, <2>1 DEF UpdatesTold
<1>10. RecordsTold'
  BY <1>1, <1>2 DEF ResultOK, RecordsTold, RecordTells
<1> QED BY <1>1, <1>2, <1>4, <1>9, <1>10 DEF ResultOK

LEMMA CompleteRollbackResult ==
  ASSUME Inv, ResultOK, CompleteRollback
  PROVE  ResultOK'
<1>1. /\ pc = "rollback" /\ pc' = "returned" /\ index > Len(records) /\ records' = updated
      /\ runState' = "rolled_back"
      /\ UNCHANGED <<plan, sched, stepState, cancelled, invoked, published>>
  BY DEF CompleteRollback, inputs, history
<1>2. /\ Ordered' = Ordered /\ FailureTold' = FailureTold
      /\ \A s : Calls(s)' = Calls(s)
  BY <1>1 DEF Ordered, Calls, FailureTold
<1>3. UpdatesTold /\ ~cancelled /\ FailureTold /\ Len(records) = Len(Ordered) /\ index \in Nat /\ Len(Ordered) \in Nat
  BY <1>1 DEF ResultOK, Inv, TypesOK, RollbackOK, SchedOK
<1>4. Len(updated) = Len(Ordered)
  BY <1>1, <1>3 DEF UpdatesTold
<1>5. RecordsTellWhatHappened'
  <2>1. \A i \in 1..Len(records') :
          /\ records'[i].step = Ordered'[i]
          /\ records'[i].state = stepState'[Ordered'[i]]
          /\ records'[i].attempts = Count(Ordered'[i], invoked')
          /\ records'[i].rollback # "none" =>
               records'[i].attempts > 0 \/ StepOf(plan', Ordered'[i]).capability \notin Available
    BY <1>1, <1>2, <1>3 DEF UpdatesTold, Unavailability
  <2> QED BY <1>1, <1>2, <1>3, <1>4, <2>1 DEF RecordsTellWhatHappened, FailureTold, Calls, Count
<1> QED BY <1>1, <1>5 DEF ResultOK, RecordsTold

LEMMA NextResult == Inv /\ CallsInv /\ ToldOK /\ ResultOK /\ [Next]_vars => ResultOK'
<1> SUFFICES ASSUME Inv, CallsInv, ToldOK, ResultOK, [Next]_vars PROVE ResultOK'
  OBVIOUS
<1>1. CASE OrderDone \/ OrderFails \/ ConfirmationRaises \/ RollBackRaises
  <2>1. /\ UNCHANGED <<plan, sched, index, runState, stepState, records, cancelled, updated, invoked, published>>
        /\ pc' = "raised" \/ (pc' = "loop" /\ pc = "ordering")
    BY <1>1 DEF OrderDone, OrderFails, ConfirmationRaises, RollBackRaises, Raise, inputs, history
  <2> QED BY <2>1, QuietResult
<1>2. CASE RequestCancellation \/ UNCHANGED vars
  <2>1. /\ UNCHANGED <<plan, sched, index, runState, stepState, records, cancelled, updated, invoked, published>>
        /\ UNCHANGED <<pc, attempt>>
    BY <1>2 DEF RequestCancellation, vars, inputs, engine, history
  <2> QED BY <2>1, QuietResult
<1>3. CASE StartRun \/ OrderNext
  BY <1>3, SchedulingResult
<1>4. CASE SkipUnmet \/ ConfirmationDenied \/ Unavailable
  BY <1>4, LeavingResult
<1>5. CASE BeginStep \/ ConfirmationGranted
  BY <1>5, ProceedResult
<1>6. CASE ObserveCancellation \/ FinalizeRun \/ CompleteRollback
  BY <1>6, CancellationResult, FinalizeResult, CompleteRollbackResult
<1>7. CASE \E response \in {"success", "partial", "failure"} : Call(response)
  BY <1>7, CallResult
<1>8. CASE KeepRecord \/ \E supported \in BOOLEAN : RollBackRecord(supported)
  BY <1>8, RollbackResult
<1>9. CASE CallRaises
  BY <1>9 DEF CallRaises, Raise, ResultOK, RecordsTold
<1> QED BY <1>1, <1>2, <1>3, <1>4, <1>5, <1>6, <1>7, <1>8, <1>9 DEF Next, Execute

LEMMA CallsHold == Spec => [](Inv /\ CallsInv)
BY InitOK, CallsInit, NextKeeps, NextKeepsCalls, PTL DEF Spec

LEMMA ToldHolds == Spec => []ToldOK
BY CallsHold, ToldInit, NextIsTold, PTL DEF Spec

\* Whoever sees only the events of execute() knows at every moment how each step
\* stands and at the end how the run ended, and whoever is handed the result
\* reads the same there, with how often each connector was called.
THEOREM ResultAndEventsAgree == Spec => []ResultTellsWhatHappened
<1>1. Spec => []ResultOK
  BY CallsHold, ToldHolds, ResultInit, NextResult, PTL DEF Spec
<1>2. ToldOK /\ ResultOK => ResultTellsWhatHappened
  BY DEF ToldOK, ResultOK, RunTold, StepTold, ResultTellsWhatHappened, EventsTellWhatHappened
<1> QED BY <1>1, <1>2, ToldHolds, PTL
------------------------------------------------------------------------------
(* A goal's plan is validated before it runs, and its gates are asked.     *)

\* The events stay published.
EventsGoOn ==
  \A i \in 1..Len(published) : i \in 1..Len(published') /\ published'[i] = published[i]

LEMMA OneMoreGoesOn ==
  ASSUME EventsTyped, NEW t \in EventTypes, NEW S \in SUBSET PlanSteps,
         published' = published \o <<<<t, S>>>>
  PROVE  EventsGoOn
<1>1. /\ Len(published') = Len(published) + 1 /\ Len(published) \in Nat
      /\ \A i \in 1..Len(published) : published'[i] = published[i]
  BY OneMoreEvent
<1> QED BY <1>1 DEF EventsGoOn

LEMMA SkipsGoOn ==
  ASSUME Inv, ToldOK, ObserveCancellation
  PROVE  EventsGoOn
<1> DEFINE skips == [i \in 1..Len(Remaining) |-> <<"step_skipped", {Remaining[i]}>>]
           E == EventTypes \X SUBSET PlanSteps
<1>1. Remaining \in Seq(PlanSteps)
  BY RemainingSteps DEF Inv, ObserveCancellation, InLoop
<1>2. \A i \in 1..Len(Remaining) : <<"step_skipped", {Remaining[i]}>> \in E
  BY <1>1 DEF EventTypes
<1>3. published' = published \o skips /\ published \in Seq(E)
  BY DEF ObserveCancellation, Publish, ToldOK, EventsTyped
<1> HIDE DEF E
<1>4. skips \in Seq(E)
  BY <1>1, <1>2
<1> HIDE DEF skips
<1>5. /\ Len(published \o skips) = Len(published) + Len(skips)
      /\ \A i \in 1..Len(published) : (published \o skips)[i] = published[i]
      /\ Len(published) \in Nat /\ Len(skips) \in Nat
  BY <1>3, <1>4, Concatenation
<1>6. /\ Len(published') = Len(published) + Len(skips)
      /\ \A i \in 1..Len(published) : published'[i] = published[i]
  BY <1>3, <1>5, Zenon
<1> QED BY <1>5, <1>6 DEF EventsGoOn

LEMMA EventsStay ==
  ASSUME Inv, ToldOK, [Next]_vars
  PROVE  EventsGoOn
<1>1. EventsTyped
  BY DEF ToldOK
<1>2. CASE UNCHANGED published
  BY <1>2 DEF EventsGoOn
<1>3. CASE StartRun \/ FinalizeRun
  <2>1. FinalState \in {"completed", "failed", "cancelled"}
    BY DEF FinalState
  <2>2. TerminalEvent[FinalState] \in EventTypes /\ "execution_started" \in EventTypes
    BY <2>1 DEF TerminalEvent, EventTypes
  <2>4. \/ published' = published \o <<<<TerminalEvent[FinalState], {}>>>>
        \/ published' = published \o <<<<"execution_started", {}>>>>
    BY <1>3 DEF StartRun, FinalizeRun, Publish
  <2>5. \E t \in EventTypes : published' = published \o <<<<t, {}>>>>
    BY <2>2, <2>4, Zenon
  <2>3. {} \in SUBSET PlanSteps
    OBVIOUS
  <2> QED BY <1>1, <2>3, <2>5, OneMoreGoesOn
<1>4. CASE \/ SkipUnmet \/ BeginStep \/ ConfirmationGranted \/ ConfirmationDenied \/ Unavailable
           \/ \E response \in {"success", "partial", "failure"} : Call(response)
  <2>1. InRun /\ index <= Len(Ordered)
    <3>1. CASE SkipUnmet \/ BeginStep
      BY <3>1 DEF SkipUnmet, BeginStep, InLoop, InRun
    <3>2. CASE \/ ConfirmationGranted \/ ConfirmationDenied \/ Unavailable
               \/ \E response \in {"success", "partial", "failure"} : Call(response)
      BY <3>2, InRunAt DEF ConfirmationGranted, ConfirmationDenied, Unavailable, Call
    <3> QED BY <1>4, <3>1, <3>2
  <2>2. {Current.id} \in SUBSET PlanSteps
    BY <2>1, CurrentStep DEF Inv
  <2>3. UNCHANGED published \/ \E t \in EventTypes : published' = published \o <<<<t, {Current.id}>>>>
    <3>1. CASE SkipUnmet \/ BeginStep
      BY <3>1 DEF SkipUnmet, BeginStep, Settle, Publish, EventTypes
    <3>2. CASE ConfirmationGranted \/ ConfirmationDenied \/ Unavailable
      BY <3>2 DEF ConfirmationGranted, ConfirmationDenied, Unavailable, StepFails, Settle, Publish, EventTypes
    <3>3. CASE \E response \in {"success", "partial", "failure"} : Call(response)
      BY <3>3 DEF Call, StepFails, StepSucceeds, Settle, Publish, EventTypes
    <3> QED BY <1>4, <3>1, <3>2, <3>3
  <2> QED BY <1>1, <1>2, <2>2, <2>3, OneMoreGoesOn
<1>5. CASE ObserveCancellation
  BY <1>5, SkipsGoOn
<1>6. CASE \/ OrderNext \/ OrderDone \/ OrderFails \/ ConfirmationRaises \/ CallRaises \/ RollBackRaises
           \/ KeepRecord \/ (\E supported \in BOOLEAN : RollBackRecord(supported)) \/ CompleteRollback
           \/ RequestCancellation \/ UNCHANGED vars
  <2>1. UNCHANGED published
    BY <1>6 DEF OrderNext, OrderDone, OrderFails, ConfirmationRaises, CallRaises, RollBackRaises,
         KeepRecord, RollBackRecord, CompleteRollback, RequestCancellation, Raise, vars, history
  <2> QED BY <1>2, <2>1
<1> QED BY <1>3, <1>4, <1>5, <1>6 DEF Next, Execute

Asked(s) ==
  \E i \in 1..Len(published) : published[i] = <<"step_awaiting_confirmation", {s}>>

\* A step that needs confirmation was let through to its gate, not past it.
GateOK == \A s \in begun : StepOf(plan, s).confirm => Asked(s)

LEMMA NextKeepsGate == Inv /\ ToldOK /\ GateOK /\ [Next]_vars => GateOK'
<1> SUFFICES ASSUME Inv, ToldOK, GateOK, [Next]_vars PROVE GateOK'
  OBVIOUS
<1>1. plan' = plan /\ EventsGoOn
  BY PlanStays, EventsStay
<1>2. ASSUME NEW s, Asked(s) PROVE Asked(s)'
  BY <1>1, <1>2 DEF Asked, EventsGoOn
<1>3. CASE UNCHANGED begun
  BY <1>1, <1>2, <1>3 DEF GateOK
<1>4. CASE BeginStep
  <2>1. PICK c \in PlanSteps :
          /\ c = Ordered[index] /\ c = Current.id
          /\ begun' = begun \cup {c} /\ EventsTyped
    BY <1>4, CurrentStep DEF BeginStep, InLoop, Inv, ToldOK
  <2>2. ASSUME StepOf(plan, c).confirm PROVE Asked(c)'
    <3>1. /\ published' = published \o <<<<"step_awaiting_confirmation", {c}>>>>
          /\ "step_awaiting_confirmation" \in EventTypes /\ {c} \in SUBSET PlanSteps
      BY <1>4, <2>1, <2>2 DEF BeginStep, Publish, EventTypes, Current
    <3>2. PICK t \in EventTypes, S \in SUBSET PlanSteps :
            t = "step_awaiting_confirmation" /\ S = {c} /\ published' = published \o <<<<t, S>>>>
      BY <3>1, Zenon
    <3>3. /\ Len(published') = Len(published) + 1 /\ Len(published) \in Nat
          /\ published'[Len(published) + 1] = <<t, S>>
      BY <2>1, <3>2, OneMoreEvent
    <3>4. \E i \in 1..Len(published') : published'[i] = <<t, S>>
      BY <3>3
    <3> QED BY <3>2, <3>4 DEF Asked
  <2> QED BY <1>1, <1>2, <2>1, <2>2 DEF GateOK
<1>5. UNCHANGED begun \/ BeginStep
  BY DEF Next, Execute, StartRun, OrderNext, OrderDone, OrderFails, SkipUnmet, ObserveCancellation,
         ConfirmationGranted, ConfirmationDenied, ConfirmationRaises, Unavailable, Call,
         CallRaises, FinalizeRun, KeepRecord, RollBackRecord, RollBackRaises, CompleteRollback,
         RequestCancellation, Raise, history, vars
<1> QED BY <1>3, <1>4, <1>5

\* What the validation of a plan establishes of each step and of all together.
PlanIsValid ==
  /\ \A s \in PlanSteps :
       LET step == StepOf(plan, s) IN
       /\ step.capability \in DOMAIN catalog
       /\ catalog[step.capability] => step.confirm
       /\ step.deps \subseteq PlanSteps
  /\ ~Cyclic(DependsOn(plan))

\* Nothing is executed before the plan is accepted, or after it was rejected.
GoalOK ==
  /\ goal \in {"planning", "validating", "planning_failure", "executing", "direct"}
  /\ goal \in {"planning", "validating", "planning_failure"} => pc = "start" /\ invoked = <<>>
  /\ goal = "validating" => SearchOK(PlanSteps, Steps, DependsOn(plan), search)
  /\ goal = "executing" => PlanIsValid

LEMMA DependenciesOfPlan ==
  ASSUME plan \in Plans
  PROVE  DependsOn(plan) \in [PlanSteps -> SUBSET Steps]
<1>1. PlanTyped(plan) /\ PlanSteps = Ids(plan)
  BY PlanOfTheRun
<1> QED BY <1>1, StepOfPlan DEF DependsOn

LEMMA AcceptedIsValid ==
  ASSUME plan \in Plans, goal = "validating", GoalOK, PlanAccepted
  PROVE  PlanIsValid
<1>1. PlanTyped(plan) /\ PlanSteps = Ids(plan) /\ DependsOn(plan) \in [PlanSteps -> SUBSET Steps]
  BY PlanOfTheRun, DependenciesOfPlan
<1>2. Exhausted(search) /\ Violations(plan, catalog, search) = {}
  BY DEF PlanAccepted
<1>3. /\ UnknownCapability(plan, catalog) = {} /\ UnknownDependency(plan) = {}
      /\ DependencyCycle(search) = {} /\ ConfirmationUnderstated(plan, catalog) = {}
  BY <1>2 DEF Violations
<1>4. search.cycles = {}
  BY <1>3 DEF DependencyCycle
<1>5. ~Cyclic(DependsOn(plan))
  BY <1>1, <1>2, <1>4, SearchDecides DEF GoalOK
<1>6. ASSUME NEW i \in 1..Len(plan)
      PROVE  /\ plan[i].capability \in DOMAIN catalog
             /\ catalog[plan[i].capability] => plan[i].confirm
             /\ plan[i].deps \subseteq PlanSteps
  <2>1. plan[i].capability \in DOMAIN catalog
    BY <1>3 DEF UnknownCapability
  <2>2. plan[i].deps \subseteq Ids(plan)
    BY <1>3 DEF UnknownDependency
  <2>3. catalog[plan[i].capability] => plan[i].confirm
    BY <1>3, <2>1 DEF ConfirmationUnderstated
  <2> QED BY <1>1, <2>1, <2>2, <2>3
<1>7. \A s \in PlanSteps : LastIndex(plan, s) \in 1..Len(plan)
  BY <1>1, StepOfPlan
<1> QED BY <1>5, <1>6, <1>7 DEF PlanIsValid, StepOf

\* Every step of a goal is one of the execution engine, or leaves it alone.
LEMMA GoalStepsAreTheEngines == [GoalNext]_<<vars, orchestrator>> => [Next]_vars
BY DEF GoalNext, RunGoal, StrategyRaises, BeginValidation, Searching, PlanRejected, PlanAccepted,
       ExecutePlan, CancelGoal, Next

\* A goal's plan, or the plan of a caller of its own, is run as execute() runs
\* one: all that is proved of execute() is true of it.
THEOREM GoalsRunTheEngine == GoalSpec => Spec
<1>1. GoalInit => Init
  BY DEF GoalInit
<1> QED BY <1>1, GoalStepsAreTheEngines, PTL DEF GoalSpec, Spec

LEMMA NextKeepsGoal == Inv /\ GoalOK /\ [GoalNext]_<<vars, orchestrator>> => GoalOK'
<1> SUFFICES ASSUME Inv, GoalOK, [GoalNext]_<<vars, orchestrator>> PROVE GoalOK'
  OBVIOUS
<1>1. plan \in Plans /\ plan' = plan /\ PlanSteps' = PlanSteps /\ DependsOn(plan)' = DependsOn(plan)
  BY GoalStepsAreTheEngines, PlanStays DEF Inv, TypesOK
<1>2. CASE StrategyRaises \/ PlanRejected
  BY <1>2 DEF GoalOK, StrategyRaises, PlanRejected, vars, engine, history
<1>3. CASE BeginValidation
  <2>1. SearchOK(PlanSteps, Steps, DependsOn(plan), Fresh(DependsOn(plan)))
    BY <1>1, DependenciesOfPlan, SearchBegins
  <2>2. goal' = "validating" /\ search' = Fresh(DependsOn(plan)) /\ UNCHANGED <<pc, invoked>> /\ goal = "planning"
    BY <1>3 DEF BeginValidation, vars, engine, history
  <2> QED BY <1>1, <2>1, <2>2 DEF GoalOK
<1>4. CASE Searching
  <2>1. goal = "validating" /\ search' \in Continue(search) /\ UNCHANGED <<pc, invoked, goal>>
    BY <1>4 DEF Searching, vars, engine, history
  <2>2. SearchOK(PlanSteps, Steps, DependsOn(plan), search)
    BY <2>1 DEF GoalOK
  <2>3. PICK t \in Continue(search) : search' = t
    BY <2>1
  <2>4. SearchOK(PlanSteps, Steps, DependsOn(plan), t)
    BY <1>1, <2>2, DependenciesOfPlan, SearchContinues
  <2> QED BY <1>1, <2>1, <2>3, <2>4 DEF GoalOK
<1>5. CASE PlanAccepted
  <2>1. PlanIsValid /\ goal' = "executing" /\ catalog' = catalog
    BY <1>1, <1>5, AcceptedIsValid DEF PlanAccepted
  <2> QED BY <1>1, <2>1 DEF GoalOK, PlanIsValid
<1>6. CASE ExecutePlan
  <2>1. goal \in {"executing", "direct"} /\ UNCHANGED <<goal, catalog, search>>
    BY <1>6 DEF ExecutePlan, orchestrator
  <2> QED BY <1>1, <2>1 DEF GoalOK, PlanIsValid
<1>7. CASE CancelGoal \/ UNCHANGED <<vars, orchestrator>>
  <2>1. UNCHANGED <<goal, catalog, search, pc, invoked>>
    BY <1>7 DEF CancelGoal, orchestrator, RequestCancellation, vars, engine, history
  <2> QED BY <1>1, <2>1 DEF GoalOK, PlanIsValid
<1> QED BY <1>2, <1>3, <1>4, <1>5, <1>6, <1>7 DEF GoalNext, RunGoal

LEMMA GoalHolds == GoalSpec => [](Inv /\ CallsInv /\ OrderOK /\ GateOK /\ GoalOK)
<1>1. GoalInit => GateOK /\ GoalOK
  BY DEF GoalInit, Init, GateOK, GoalOK
<1>2. Inv /\ GoalOK /\ [GoalNext]_<<vars, orchestrator>> => GoalOK'
  BY NextKeepsGoal
<1>3. Inv /\ ToldOK /\ GateOK /\ [GoalNext]_<<vars, orchestrator>> => GateOK'
  BY GoalStepsAreTheEngines, NextKeepsGate
<1> QED BY <1>1, <1>2, <1>3, GoalsRunTheEngine, CallsHold, OrderHolds, ToldHolds, PTL DEF GoalSpec

\* No connector is called for a goal's step unless its capability is in the
\* catalog the goal was planned with and, where that demands confirmation, the
\* gate was passed first.
THEOREM ConsentComesFirst == GoalSpec => []ConsentBeforeEffect
<1>1. Inv /\ CallsInv /\ GateOK /\ GoalOK => ConsentBeforeEffect
  <2> SUFFICES ASSUME Inv, CallsInv, GateOK, GoalOK, goal # "direct", NEW s \in ToSet(invoked)
               PROVE  LET k == StepOf(plan, s).capability IN
                      /\ k \in DOMAIN catalog
                      /\ catalog[k] => <<"step_awaiting_confirmation", {s}>> \in ToSet(published)
    BY DEF ConsentBeforeEffect
  <2>1. s \in PlanSteps /\ s \in begun /\ invoked # <<>>
    BY DEF CallsInv, HistoryOK, ToSet
  <2>2. goal = "executing" /\ PlanIsValid
    BY <2>1 DEF GoalOK
  <2>3. StepOf(plan, s).confirm => <<"step_awaiting_confirmation", {s}>> \in ToSet(published)
    <3>1. StepOf(plan, s).confirm => Asked(s)
      BY <2>1 DEF GateOK
    <3>2. ToSet(published) = {published[i] : i \in 1..Len(published)}
      BY DEF ToSet
    <3> QED BY <3>1, <3>2, Zenon DEF Asked
  <2> QED BY <2>1, <2>2, <2>3 DEF PlanIsValid
<1> QED BY <1>1, GoalHolds, PTL

\* Validation's search for cycles and the scheduler agree: where validation
\* found no cycle and ids are not repeated, ordering does not fail.
THEOREM ValidatedPlansCanBeOrdered == GoalSpec => []ValidatedPlansAreOrdered
<1>1. Inv /\ OrderOK /\ GoalOK => ValidatedPlansAreOrdered
  <2> SUFFICES ASSUME Inv, OrderOK, GoalOK, goal = "executing", DistinctIds, sched.ready = {},
                      Len(Ordered) # Len(plan)
               PROVE  FALSE
    BY DEF ValidatedPlansAreOrdered
  <2>1. plan \in Plans /\ SchedOK /\ DegreesOK /\ PlanIsValid
    BY DEF Inv, TypesOK, OrderOK, KahnOK, GoalOK
  <2> DEFINE left == PlanSteps \ Placed
             deps == DependsOn(plan)
  <2>2. left # {}
    BY <2>1, IncompleteOrdersMissOne
  <2>3. DOMAIN deps = PlanSteps /\ \A s \in PlanSteps : deps[s] = DepsOf(s)
    BY DEF DependsOn, PlanSteps, DepsOf
  <2>4. \A s \in left : DepsOf(s) \cap left # {}
    <3>1. \A s \in left : ~(DepsOf(s) \subseteq Placed)
      BY <2>1 DEF DegreesOK
    <3>2. \A s \in left : DepsOf(s) \subseteq PlanSteps
      BY <2>1 DEF PlanIsValid, DepsOf
    <3> QED BY <3>1, <3>2
  <2>5. Cyclic(deps)
    <3> HIDE DEF deps
    <3>1. left \in SUBSET DOMAIN deps
      BY <2>3
    <3>2. \A s \in left : deps[s] \cap left # {}
      BY <2>3, <2>4
    <3> HIDE DEF left
    <3> QED BY <2>2, <3>1, <3>2 DEF Cyclic
  <2> QED BY <2>1, <2>5 DEF PlanIsValid
<1> QED BY <1>1, GoalHolds, PTL

------------------------------------------------------------------------------
(* The built-in strategies.  d is what is desired, or ranked; c a catalog. *)

\* f is what n applications of step make of base.
Unfolds(f, n, base, step) == f[0] = base /\ \A k \in 1..n : f[k] = step[<<k, f[k - 1]>>]

LEMMA Recursion ==
  ASSUME NEW S, NEW base \in S, NEW n \in Nat, NEW step \in [(1..n) \X S -> S]
  PROVE  \E f \in [0..n -> S] : Unfolds(f, n, base, step)
<1> DEFINE Ok(m, f) == f[0] = base /\ \A k \in 1..m : f[k] = step[<<k, f[k - 1]>>]
           Reached(m) == \E f \in [0..m -> S] : Ok(m, f)
           T == {m \in 0..n : ~Reached(m)}
<1>1. Reached(0)
  <2>1. [k \in 0..0 |-> base] \in [0..0 -> S] /\ Ok(0, [k \in 0..0 |-> base])
    OBVIOUS
  <2> QED BY <2>1
<1>2. ASSUME NEW m \in 1..n, Reached(m - 1)
      PROVE  Reached(m)
  <2>1. PICK f \in [0..(m - 1) -> S] : Ok(m - 1, f)
    BY <1>2
  <2> DEFINE g == [k \in 0..m |-> IF k = m THEN step[<<m, f[m - 1]>>] ELSE f[k]]
  <2>2. step[<<m, f[m - 1]>>] \in S
    BY <2>1
  <2>3. g \in [0..m -> S]
    BY <2>1, <2>2
  <2>4. g[0] = base
    BY <2>1
  <2>5. \A k \in 1..m : g[k] = step[<<k, g[k - 1]>>]
    <3>1. ASSUME NEW k \in 1..m
          PROVE  g[k - 1] = f[k - 1] /\ (k # m => g[k] = f[k])
      OBVIOUS
    <3>2. ASSUME NEW k \in 1..m, k # m
          PROVE  g[k] = step[<<k, g[k - 1]>>]
      <4>1. k \in 1..(m - 1)
        BY <3>2
      <4>2. f[k] = step[<<k, f[k - 1]>>]
        BY <2>1, <4>1
      <4> QED BY <3>1, <3>2, <4>2
    <3>3. g[m] = step[<<m, g[m - 1]>>]
      <4>1. m \in 1..m /\ g[m] = step[<<m, f[m - 1]>>]
        OBVIOUS
      <4> QED BY <3>1, <4>1
    <3> QED BY <3>2, <3>3
  <2> QED BY <2>3, <2>4, <2>5
<1>3. T = {}
  <2> HIDE DEF Reached
  <2> SUFFICES ASSUME T # {} PROVE FALSE
    OBVIOUS
  <2>1. PICK m \in T : \A j \in T : m <= j
    <3>1. T \in SUBSET Nat
      OBVIOUS
    <3> HIDE DEF T
    <3> QED BY <3>1, LeastNumber
  <2>2. m \in 0..n /\ ~Reached(m)
    BY <2>1
  <2>3. m \in 1..n /\ m - 1 \in 0..n
    BY <1>1, <2>2
  <2>4. m - 1 \notin T
    BY <2>1, <2>3
  <2>5. Reached(m - 1)
    BY <2>3, <2>4
  <2> QED BY <1>2, <2>2, <2>3, <2>5
<1>4. Reached(n)
  <2> HIDE DEF Reached
  <2>1. n \in 0..n
    OBVIOUS
  <2> QED BY <1>3, <2>1
<1> QED BY <1>4 DEF Unfolds

StepsOf(d, c) == {StepFor(c, k, n) : k \in ToSet(d), n \in Nat}

LEMMA AddingPlans ==
  ASSUME NEW d, NEW c, NEW s \in Seq(StepsOf(d, c)), NEW k \in ToSet(d), NEW n \in Nat
  PROVE  Adding(s, c, k, n) \in Seq(StepsOf(d, c))
<1>1. StepFor(c, k, n) \in StepsOf(d, c)
  BY DEF StepsOf
<1> QED BY <1>1 DEF Adding

LEMMA Listed ==
  ASSUME NEW d, d \in Seq(ToSet(d))
  PROVE  Len(d) \in Nat /\ ToSet(d) = {d[k] : k \in 1..Len(d)} /\ \A k \in 1..Len(d) : d[k] \in ToSet(d)
<1>1. Len(d) \in Nat /\ DOMAIN d = 1..Len(d)
  OBVIOUS
<1>2. ToSet(d) = {d[k] : k \in 1..Len(d)}
  BY <1>1 DEF ToSet
<1> QED BY <1>1, <1>2

\* The loops as functions of how far they have come.
LEMMA RuleBasedLoop ==
  ASSUME NEW d, d \in Seq(ToSet(d)), NEW c
  PROVE  \E f : /\ f[0] = <<>> /\ RuleBased(d, c) = f[Len(d)]
                /\ \A n \in 1..Len(d) : f[n] = AddingNext(f[n - 1], c, d[n])
<1> DEFINE S == Seq(StepsOf(d, c))
           N == Len(d)
           step == [p \in (1..N) \X S |-> AddingNext(p[2], c, d[p[1]])]
           Eq(u) == u = [n \in 0..N |-> IF n = 0 THEN <<>> ELSE AddingNext(u[n - 1], c, d[n])]
           after == CHOOSE u : Eq(u)
<1>1. N \in Nat /\ \A n \in 1..N : d[n] \in ToSet(d)
  BY Listed
<1>2. <<>> \in S
  OBVIOUS
<1>3. step \in [(1..N) \X S -> S]
  <2>1. ASSUME NEW n \in 1..N, NEW s \in S PROVE AddingNext(s, c, d[n]) \in S
    <3>1. PICK m, k : m = Len(s) + 1 /\ k = d[n]
      OBVIOUS
    <3>2. m \in Nat /\ k \in ToSet(d)
      BY <1>1, <3>1
    <3>3. Adding(s, c, k, m) \in S
      BY <3>2, AddingPlans
    <3> QED BY <3>1, <3>3 DEF AddingNext
  <2> HIDE DEF N, S
  <2> QED BY <2>1
<1>4. PICK f \in [0..N -> S] : Unfolds(f, N, <<>>, step)
  <2> HIDE DEF step, N, S
  <2> QED BY <1>1, <1>2, <1>3, Recursion
<1>5. Eq(f)
  <2> HIDE DEF N, S
  <2>1. ASSUME NEW n \in 1..N PROVE f[n] = AddingNext(f[n - 1], c, d[n])
    <3>1. <<n, f[n - 1]>> \in (1..N) \X S
      BY <1>1, <1>4
    <3>2. step[<<n, f[n - 1]>>] = AddingNext(f[n - 1], c, d[n])
      BY <3>1
    <3> QED BY <1>4, <3>2 DEF Unfolds
  <2> QED BY <1>1, <1>4, <2>1 DEF Unfolds
<1>6. Eq(after)
  <2> HIDE DEF Eq
  <2> QED BY <1>5
<1>7. after[0] = <<>> /\ \A n \in 1..N : after[n] = AddingNext(after[n - 1], c, d[n])
  <2> HIDE DEF after, N
  <2> QED BY <1>1, <1>6
<1>8. RuleBased(d, c) = after[N]
  BY DEF RuleBased
<1> HIDE DEF after
<1> QED BY <1>7, <1>8

LEMMA IntelligenceAwareLoop ==
  ASSUME NEW d, d \in Seq(ToSet(d)), NEW c
  PROVE  \E f : /\ f[0] = <<>> /\ IntelligenceAware(d, c) = f[Len(d)]
                /\ \A n \in 1..Len(d) : f[n] = Adding(f[n - 1], c, d[n], n)
<1> DEFINE S == Seq(StepsOf(d, c))
           N == Len(d)
           step == [p \in (1..N) \X S |-> Adding(p[2], c, d[p[1]], p[1])]
           Eq(u) == u = [n \in 0..N |-> IF n = 0 THEN <<>> ELSE Adding(u[n - 1], c, d[n], n)]
           after == CHOOSE u : Eq(u)
<1>1. N \in Nat /\ \A n \in 1..N : d[n] \in ToSet(d)
  BY Listed
<1>2. <<>> \in S
  OBVIOUS
<1>3. step \in [(1..N) \X S -> S]
  <2>1. ASSUME NEW n \in 1..N, NEW s \in S PROVE Adding(s, c, d[n], n) \in S
    <3>1. n \in Nat /\ d[n] \in ToSet(d)
      BY <1>1
    <3> QED BY <3>1, AddingPlans
  <2> HIDE DEF N, S
  <2> QED BY <2>1
<1>4. PICK f \in [0..N -> S] : Unfolds(f, N, <<>>, step)
  <2> HIDE DEF step, N, S
  <2> QED BY <1>1, <1>2, <1>3, Recursion
<1>5. Eq(f)
  <2> HIDE DEF N, S
  <2>1. ASSUME NEW n \in 1..N PROVE f[n] = Adding(f[n - 1], c, d[n], n)
    <3>1. <<n, f[n - 1]>> \in (1..N) \X S
      BY <1>1, <1>4
    <3>2. step[<<n, f[n - 1]>>] = Adding(f[n - 1], c, d[n], n)
      BY <3>1
    <3> QED BY <1>4, <3>2 DEF Unfolds
  <2> QED BY <1>1, <1>4, <2>1 DEF Unfolds
<1>6. Eq(after)
  <2> HIDE DEF Eq
  <2> QED BY <1>5
<1>7. after[0] = <<>> /\ \A n \in 1..N : after[n] = Adding(after[n - 1], c, d[n], n)
  <2> HIDE DEF after, N
  <2> QED BY <1>1, <1>6
<1>8. IntelligenceAware(d, c) = after[N]
  BY DEF IntelligenceAware
<1> HIDE DEF after
<1> QED BY <1>7, <1>8

------------------------------------------------------------------------------
(* What the loops have made of the first n.                                *)

InOrder(d, s, n) ==
  \A i, j \in 1..Len(s) : i < j =>
    \E k \in 1..n : d[k] = s[i].capability /\ \A l \in 1..k : d[l] # s[j].capability

\* No step has a number above m.
Built(d, c, s, n, m) ==
  /\ s \in Seq(StepsOf(d, c))
  /\ \A i \in 1..Len(s) : s[i].id <= m
  /\ \A i, j \in 1..Len(s) : i < j => s[i].id < s[j].id
  /\ Planned(s) = {d[k] : k \in 1..n} \cap DOMAIN c
  /\ InOrder(d, s, n)

LEMMA NothingBuilt ==
  ASSUME NEW d, NEW c, NEW m
  PROVE  Built(d, c, <<>>, 0, m)
BY DEF Built, InOrder, Planned

LEMMA Appended ==
  ASSUME NEW S, NEW s \in Seq(S), NEW x \in S
  PROVE  /\ Append(s, x) \in Seq(S)
         /\ Len(s) \in Nat /\ Len(Append(s, x)) = Len(s) + 1
         /\ \A i \in 1..Len(s) : Append(s, x)[i] = s[i]
         /\ Append(s, x)[Len(s) + 1] = x
OBVIOUS

LEMMA BuiltFurther ==
  ASSUME NEW d, d \in Seq(ToSet(d)), NEW c, NEW s, NEW n \in 1..Len(d), NEW m \in Nat,
         Built(d, c, s, n - 1, m), NEW i \in Nat, i > m
  PROVE  LET t == Adding(s, c, d[n], i) IN
         \/ t = s /\ Built(d, c, t, n, m)
         \/ Len(t) = Len(s) + 1 /\ Built(d, c, t, n, i)
<1>1. Len(d) \in Nat /\ n \in Nat /\ n - 1 \in Nat /\ d[n] \in ToSet(d)
  BY Listed
<1>2. 1..n = 1..(n - 1) \cup {n}
  BY <1>1
<1>3. {d[k] : k \in 1..n} = {d[k] : k \in 1..(n - 1)} \cup {d[n]}
  BY <1>2
<1>4. CASE ~Wanted(s, c, d[n])
  <2>1. Adding(s, c, d[n], i) = s
    BY <1>4 DEF Adding
  <2>2. d[n] \in Planned(s) \/ d[n] \notin DOMAIN c
    BY <1>4 DEF Wanted
  <2>3. Planned(s) = {d[k] : k \in 1..n} \cap DOMAIN c
    BY <1>3, <2>2 DEF Built
  <2>4. InOrder(d, s, n)
    BY <1>2 DEF Built, InOrder
  <2>5. Built(d, c, s, n, m)
    BY <2>3, <2>4 DEF Built
  <2> QED BY <2>1, <2>5
<1>5. CASE Wanted(s, c, d[n])
  <2>1. PICK x, t : x = StepFor(c, d[n], i) /\ t = Append(s, x)
    OBVIOUS
  <2>2. Adding(s, c, d[n], i) = t
    BY <1>5, <2>1 DEF Adding
  <2>3. x \in StepsOf(d, c) /\ x.id = i /\ x.capability = d[n]
    <3>1. PICK k \in ToSet(d) : k = d[n]
      BY <1>1
    <3>2. x = StepFor(c, k, i)
      BY <2>1, <3>1
    <3>3. x \in StepsOf(d, c)
      BY <3>2 DEF StepsOf
    <3>4. x.id = i /\ x.capability = k
      BY <3>2 DEF StepFor
    <3> QED BY <3>1, <3>3, <3>4
  <2>4. s \in Seq(StepsOf(d, c))
    BY DEF Built
  <2>5. PICK N \in Nat : N = Len(s)
    BY <2>4
  <2>6. /\ t \in Seq(StepsOf(d, c)) /\ Len(t) = N + 1
        /\ \A k \in 1..N : t[k] = s[k]
        /\ t[N + 1] = x
    BY <2>1, <2>3, <2>4, <2>5, Appended
  <2>7. \A k \in 1..N : s[k].id \in Nat /\ s[k].id <= m
    <3>1. \A y \in StepsOf(d, c) : y.id \in Nat
      BY DEF StepsOf, StepFor
    <3> QED BY <2>4, <2>5, <3>1 DEF Built
  <2>8. ASSUME NEW k \in 1..(N + 1) PROVE t[k].id <= i
    <3>1. CASE k = N + 1
      BY <2>3, <2>6, <3>1
    <3>2. CASE k # N + 1
      <4>1. k \in 1..N
        BY <3>2
      <4>2. t[k].id = s[k].id /\ s[k].id \in Nat /\ s[k].id <= m
        BY <2>6, <2>7, <4>1
      <4> QED BY <4>2
    <3> QED BY <3>1, <3>2
  <2>9. ASSUME NEW k \in 1..(N + 1), NEW l \in 1..(N + 1), k < l PROVE t[k].id < t[l].id
    <3>1. k \in 1..N /\ t[k] = s[k]
      BY <2>6, <2>9
    <3>2. CASE l = N + 1
      BY <2>3, <2>6, <2>7, <3>1, <3>2
    <3>3. CASE l # N + 1
      <4>1. l \in 1..N /\ t[l] = s[l]
        BY <2>6, <3>3
      <4> QED BY <2>5, <2>9, <3>1, <4>1 DEF Built
    <3> QED BY <3>2, <3>3
  <2>10. Planned(t) = Planned(s) \cup {d[n]}
    <3>1. Planned(t) = {t[k].capability : k \in 1..(N + 1)} /\ Planned(s) = {s[k].capability : k \in 1..N}
      BY <2>5, <2>6 DEF Planned
    <3>2. 1..(N + 1) = 1..N \cup {N + 1}
      OBVIOUS
    <3> QED BY <2>3, <2>6, <3>1, <3>2
  <2>11. Planned(t) = {d[k] : k \in 1..n} \cap DOMAIN c
    BY <1>3, <1>5, <2>10 DEF Wanted, Built
  <2>12. ASSUME NEW k \in 1..(N + 1), NEW l \in 1..(N + 1), k < l
         PROVE  \E e \in 1..n : d[e] = t[k].capability /\ \A b \in 1..e : d[b] # t[l].capability
    <3>1. k \in 1..N /\ t[k] = s[k]
      BY <2>6, <2>12
    <3>2. CASE l = N + 1
      <4>1. s[k].capability \in Planned(s)
        BY <2>5, <3>1 DEF Planned
      <4>2. PICK e \in 1..(n - 1) : d[e] = s[k].capability
        BY <4>1 DEF Built
      <4>3. ASSUME NEW b \in 1..e, d[b] = d[n] PROVE FALSE
        <5>1. b \in 1..(n - 1)
          BY <1>1, <4>2, <4>3
        <5>2. d[n] \in Planned(s)
          BY <1>5, <4>3, <5>1 DEF Wanted, Built
        <5> QED BY <1>5, <5>2 DEF Wanted
      <4>4. e \in 1..n /\ t[l].capability = d[n]
        BY <1>2, <2>3, <2>6, <3>2, <4>2
      <4> QED BY <3>1, <4>2, <4>3, <4>4
    <3>3. CASE l # N + 1
      <4>1. l \in 1..N /\ t[l] = s[l]
        BY <2>6, <3>3
      <4>2. PICK e \in 1..(n - 1) : d[e] = s[k].capability /\ \A b \in 1..e : d[b] # s[l].capability
        BY <2>5, <2>12, <3>1, <4>1 DEF Built, InOrder
      <4>3. e \in 1..n
        BY <1>2, <4>2
      <4> QED BY <3>1, <4>1, <4>2, <4>3
    <3> QED BY <3>2, <3>3
  <2>13. InOrder(d, t, n)
    <3>1. 1..Len(t) = 1..(N + 1)
      BY <2>6
    <3>2. ASSUME NEW k \in 1..Len(t), NEW l \in 1..Len(t), k < l
          PROVE  \E e \in 1..n : d[e] = t[k].capability /\ \A b \in 1..e : d[b] # t[l].capability
      <4>1. k \in 1..(N + 1) /\ l \in 1..(N + 1)
        BY <3>1
      <4> QED BY <2>12, <3>2, <4>1
    <3> QED BY <3>2, Zenon DEF InOrder
  <2>14. Built(d, c, t, n, i)
    BY <2>6, <2>8, <2>9, <2>11, <2>13 DEF Built
  <2> QED BY <2>2, <2>5, <2>6, <2>14
<1> QED BY <1>4, <1>5

\* Further up the numbers are below, too.
LEMMA BuiltBelow ==
  ASSUME NEW d, NEW c, NEW s, NEW n, NEW m \in Nat, Built(d, c, s, n, m), NEW i \in Nat, m <= i
  PROVE  Built(d, c, s, n, i)
<1>1. \A y \in StepsOf(d, c) : y.id \in Nat
  BY DEF StepsOf, StepFor
<1>2. \A k \in 1..Len(s) : s[k].id \in Nat /\ s[k].id <= m
  BY <1>1 DEF Built
<1>3. \A k \in 1..Len(s) : s[k].id <= i
  BY <1>2
<1> QED BY <1>3 DEF Built

LEMMA RuleBasedBuilds ==
  ASSUME NEW d, d \in Seq(ToSet(d)), NEW c
  PROVE  \E m \in Nat : Built(d, c, RuleBased(d, c), Len(d), m)
<1>1. PICK f : /\ f[0] = <<>> /\ RuleBased(d, c) = f[Len(d)]
               /\ \A n \in 1..Len(d) : f[n] = AddingNext(f[n - 1], c, d[n])
  BY RuleBasedLoop
<1>2. PICK N \in Nat : N = Len(d)
  BY Listed
<1> DEFINE Ok(n) == Built(d, c, f[n], n, Len(f[n]))
           Bad == {n \in 0..N : ~Ok(n)}
<1>3. Ok(0)
  BY <1>1, NothingBuilt
<1>4. ASSUME NEW n \in 1..N, Ok(n - 1) PROVE Ok(n)
  <2>1. PICK s, t : s = f[n - 1] /\ t = f[n]
    OBVIOUS
  <2>2. Built(d, c, s, n - 1, Len(s))
    BY <1>4, <2>1
  <2>3. PICK m \in Nat : m = Len(s)
    BY <2>2 DEF Built
  <2>4. t = Adding(s, c, d[n], m + 1)
    BY <1>1, <1>2, <2>1, <2>3 DEF AddingNext
  <2>5. n \in 1..Len(d) /\ m + 1 \in Nat /\ m + 1 > m /\ Built(d, c, s, n - 1, m)
    BY <1>2, <2>2, <2>3
  <2>6. \/ t = s /\ Built(d, c, t, n, m)
        \/ Len(t) = Len(s) + 1 /\ Built(d, c, t, n, m + 1)
    <3> HIDE DEF Ok
    <3> QED BY <2>4, <2>5, BuiltFurther
  <2>7. Built(d, c, t, n, Len(t))
    BY <2>3, <2>6
  <2> QED BY <2>1, <2>7
<1>5. Bad = {}
  <2> HIDE DEF Ok
  <2> SUFFICES ASSUME Bad # {} PROVE FALSE
    OBVIOUS
  <2>1. Bad \in SUBSET Nat
    OBVIOUS
  <2>2. PICK n \in Bad : \A k \in Bad : n <= k
    <3> HIDE DEF Bad
    <3> QED BY <2>1, LeastNumber
  <2>3. n \in 1..N /\ n - 1 \in 0..N /\ ~Ok(n)
    BY <1>2, <1>3, <2>2
  <2>4. n - 1 \notin Bad
    BY <2>2, <2>3
  <2>5. Ok(n - 1)
    BY <2>3, <2>4
  <2> QED BY <1>4, <2>3, <2>5
<1>6. Ok(N)
  <2> HIDE DEF Ok
  <2> QED BY <1>2, <1>5
<1>7. PICK p : p = f[N]
  OBVIOUS
<1>8. Built(d, c, p, N, Len(p))
  BY <1>6, <1>7
<1>9. Len(p) \in Nat
  BY <1>8 DEF Built
<1> QED BY <1>1, <1>2, <1>7, <1>8, <1>9

LEMMA IntelligenceAwareBuilds ==
  ASSUME NEW d, d \in Seq(ToSet(d)), NEW c
  PROVE  \E m \in Nat : Built(d, c, IntelligenceAware(d, c), Len(d), m)
<1>1. PICK f : /\ f[0] = <<>> /\ IntelligenceAware(d, c) = f[Len(d)]
               /\ \A n \in 1..Len(d) : f[n] = Adding(f[n - 1], c, d[n], n)
  BY IntelligenceAwareLoop
<1>2. PICK N \in Nat : N = Len(d)
  BY Listed
<1> DEFINE Ok(n) == Built(d, c, f[n], n, n)
           Bad == {n \in 0..N : ~Ok(n)}
<1>3. Ok(0)
  BY <1>1, NothingBuilt
<1>4. ASSUME NEW n \in 1..N, Ok(n - 1) PROVE Ok(n)
  <2>1. PICK s, t : s = f[n - 1] /\ t = f[n]
    OBVIOUS
  <2>2. PICK m \in Nat : m = n - 1
    OBVIOUS
  <2>3. t = Adding(s, c, d[n], n)
    BY <1>1, <1>2, <2>1
  <2>4. n \in 1..Len(d) /\ n \in Nat /\ n > m /\ m <= n /\ Built(d, c, s, n - 1, m)
    BY <1>2, <1>4, <2>1, <2>2
  <2>5. \/ t = s /\ Built(d, c, t, n, m)
        \/ Len(t) = Len(s) + 1 /\ Built(d, c, t, n, n)
    <3> HIDE DEF Ok
    <3> QED BY <2>3, <2>4, BuiltFurther
  <2>6. Built(d, c, t, n, n)
    BY <2>4, <2>5, BuiltBelow
  <2> QED BY <2>1, <2>6
<1>5. Bad = {}
  <2> HIDE DEF Ok
  <2> SUFFICES ASSUME Bad # {} PROVE FALSE
    OBVIOUS
  <2>1. Bad \in SUBSET Nat
    OBVIOUS
  <2>2. PICK n \in Bad : \A k \in Bad : n <= k
    <3> HIDE DEF Bad
    <3> QED BY <2>1, LeastNumber
  <2>3. n \in 1..N /\ n - 1 \in 0..N /\ ~Ok(n)
    BY <1>2, <1>3, <2>2
  <2>4. n - 1 \notin Bad
    BY <2>2, <2>3
  <2>5. Ok(n - 1)
    BY <2>3, <2>4
  <2> QED BY <1>4, <2>3, <2>5
<1>6. Ok(N)
  <2> HIDE DEF Ok
  <2> QED BY <1>2, <1>5
<1> QED BY <1>1, <1>2, <1>6

\* Numbers that only grow are as many as the steps.
LEMMA NumbersAreDistinct ==
  ASSUME NEW p, Len(p) \in Nat, \A i, j \in 1..Len(p) : i # j => p[i].id # p[j].id
  PROVE  Cardinality(Ids(p)) = Len(p)
<1> DEFINE I == 1..Len(p)
           f == [i \in I |-> p[i].id]
<1>1. IsFiniteSet(I) /\ Cardinality(I) = Len(p)
  <2>1. PICK n \in Nat : n = Len(p)
    OBVIOUS
  <2>2. IsFiniteSet(1..n) /\ Cardinality(1..n) = n
    BY FS_Interval
  <2> QED BY <2>1, <2>2
<1>2. f \in Surjection(I, Ids(p))
  BY DEF Surjection, Ids
<1>3. f \in Injection(I, Ids(p))
  <2>1. f \in [I -> Ids(p)]
    BY DEF Ids
  <2>2. \A i, j \in I : f[i] = f[j] => i = j
    OBVIOUS
  <2> HIDE DEF f, I
  <2> QED BY <2>1, <2>2 DEF Injection, IsInjective
<1> HIDE DEF f, I
<1> QED BY <1>1, <1>2, <1>3, FS_Surjection

AsDesired(d, c, p) ==
  /\ Violations(p, c, Fresh(DependsOn(p))) = {} /\ ~Cyclic(DependsOn(p))
  /\ Cardinality(Ids(p)) = Len(p)
  /\ Planned(p) = ToSet(d) \cap DOMAIN c
  /\ \A i, j \in 1..Len(p) : i < j =>
       \E k \in 1..Len(d) : d[k] = p[i].capability /\ \A l \in 1..k : d[l] # p[j].capability

LEMMA WhatIsBuiltIsRight ==
  ASSUME NEW d, d \in Seq(ToSet(d)), NEW c, NEW p, NEW m, Built(d, c, p, Len(d), m)
  PROVE  AsDesired(d, c, p)
<1>1. p \in Seq(StepsOf(d, c)) /\ Len(p) \in Nat
  BY DEF Built
<1>2. ASSUME NEW i \in 1..Len(p)
      PROVE  /\ p[i].id \in Nat /\ p[i].deps = {}
             /\ p[i].confirm = c[p[i].capability]
  <2>1. p[i] \in StepsOf(d, c)
    BY <1>1
  <2>2. PICK k \in ToSet(d), n \in Nat : p[i] = StepFor(c, k, n)
    BY <2>1 DEF StepsOf
  <2> QED BY <2>2 DEF StepFor
<1>3. Planned(p) = ToSet(d) \cap DOMAIN c
  BY Listed DEF Built
<1>4. \A i \in 1..Len(p) : p[i].capability \in DOMAIN c
  BY <1>3 DEF Planned
<1>5. ASSUME NEW i \in 1..Len(p), NEW j \in 1..Len(p), i # j
      PROVE  p[i].id # p[j].id
  <2>1. i < j \/ j < i
    BY <1>1, <1>5
  <2>2. i < j => p[i].id < p[j].id
    BY DEF Built
  <2>3. j < i => p[j].id < p[i].id
    BY DEF Built
  <2> QED BY <1>2, <2>1, <2>2, <2>3
<1>6. Cardinality(Ids(p)) = Len(p)
  BY <1>1, <1>5, NumbersAreDistinct
<1>7. ASSUME NEW s \in Ids(p) PROVE DependsOn(p)[s] = {}
  <2> DEFINE T == {i \in 1..Len(p) : p[i].id = s}
  <2>1. T \in SUBSET (1..Len(p)) /\ T # {}
    BY DEF Ids
  <2>2. \E i \in T : \A j \in T : j <= i
    <3> HIDE DEF T
    <3> QED BY <1>1, <2>1, GreatestNumber
  <2>3. LastIndex(p, s) \in 1..Len(p)
    BY <2>2 DEF LastIndex
  <2> QED BY <1>2, <2>3 DEF DependsOn, StepOf
<1>8. DOMAIN DependsOn(p) = Ids(p)
  BY DEF DependsOn
<1>9. ~Cyclic(DependsOn(p))
  BY <1>7, <1>8 DEF Cyclic
<1>10. Violations(p, c, Fresh(DependsOn(p))) = {}
  <2>1. UnknownCapability(p, c) = {}
    BY <1>4 DEF UnknownCapability
  <2>2. UnknownDependency(p) = {}
    BY <1>2 DEF UnknownDependency
  <2>3. DependencyCycle(Fresh(DependsOn(p))) = {}
    BY DEF DependencyCycle, Fresh
  <2>4. ConfirmationUnderstated(p, c) = {}
    BY <1>2 DEF ConfirmationUnderstated
  <2> QED BY <2>1, <2>2, <2>3, <2>4 DEF Violations
<1>11. InOrder(d, p, Len(d))
  BY DEF Built
<1> QED BY <1>3, <1>6, <1>9, <1>10, <1>11 DEF AsDesired, InOrder

\* Whatever is desired or ranked, and whatever the catalog, the two built-in
\* strategies return plans validation accepts, with a number of its own for
\* each step, which cover each desired capability of the catalog once and in
\* the order desired.
THEOREM BuiltInStrategiesAreRight == GoalSpec => []BuiltInStrategiesPlanWhatIsDesired
<1>1. BuiltInStrategiesPlanWhatIsDesired
  <2>1. ASSUME NEW d \in Desires, NEW c, NEW p \in {RuleBased(d, c), IntelligenceAware(d, c)}
        PROVE  AsDesired(d, c, p)
    <3>1. d \in Seq(ToSet(d))
      BY DesiresAssumption
    <3>2. \E m \in Nat : Built(d, c, p, Len(d), m)
      <4>1. CASE p = RuleBased(d, c)
        BY <3>1, <4>1, RuleBasedBuilds
      <4>2. CASE p = IntelligenceAware(d, c)
        BY <3>1, <4>2, IntelligenceAwareBuilds
      <4> QED BY <4>1, <4>2
    <3> QED BY <3>1, <3>2, WhatIsBuiltIsRight
  <2>2. PICK c : c = catalog
    OBVIOUS
  <2>3. \A d \in Desires : \A p \in {RuleBased(d, catalog), IntelligenceAware(d, catalog)} :
          AsDesired(d, catalog, p)
    BY <2>1, <2>2
  <2> QED BY <2>3 DEF BuiltInStrategiesPlanWhatIsDesired, AsDesired
<1> QED BY <1>1, PTL
==============================================================================
