--------------------------- MODULE ExecutionEngine ---------------------------
(***************************************************************************)
(* execution/engine.py with the retry policy, the confirmation gate and    *)
(* the cancellation token it calls: one call of ExecutionEngine.execute.   *)
(* Another thread may request cancellation between any two steps of it.    *)
(* Connectors, the confirmation provider and the rollback strategy are     *)
(* outside; each answers in any way its interface allows, raising included.*)
(***************************************************************************)
EXTENDS StepScheduler, SequencesExt

CONSTANTS
  Plans,        \* the plans a run may be given: sequences of steps, see StepScheduler
  Steps,        \* step ids, those that only occur in a depends_on included
  Capabilities,
  Available,    \* the capabilities some registered connector provides
  Idempotent,   \* those whose operation is declared idempotent
  MaxAttempts   \* MaxAttempts[c]: manifest.max_attempts of the first provider

ASSUME PlansAssumption ==
  \A p \in Plans :
    p \in Seq([id : Steps, deps : SUBSET Steps, confirm : BOOLEAN, capability : Capabilities])

\* depends_on is a list.
ASSUME DependenciesAssumption ==
  \A p \in Plans : \A i \in 1..Len(p) : IsFiniteSet(p[i].deps)

ASSUME CapabilityAssumption ==
  /\ Available \subseteq Capabilities
  /\ Idempotent \subseteq Capabilities
  /\ MaxAttempts \in [Capabilities -> Nat \ {0}]

VARIABLES
  plan,
  optedIn,         \* context.rollback_strategy is not UnsupportedRollbackStrategy
  cancelRequested, \* the cancellation token
  pc,              \* where execute() stands
  sched,           \* the state of StepScheduler.order
  index,           \* position in ordered_steps, or in records during rollback
  attempt,         \* connector calls made for the current step
  runState,        \* the run's StateMachine
  stepState,       \* the steps' StateMachines
  records,         \* the StepExecutionRecords so far
  cancelled,       \* the local flag of execute()
  updated,         \* the records _run_rollback_pass has gone through
  invoked,         \* history: the steps a connector was called for, in order
  begun,           \* history: the steps the loop let through to _run_step
  untouched,       \* history: the steps not yet reached when cancellation was requested
  published        \* history: the events published, as <<type, the step it is about>>

inputs == <<plan, optedIn>>
engine == <<pc, sched, index, attempt, runState, stepState, records, cancelled,
            updated>>
history == <<invoked, begun, untouched, published>>
vars == <<inputs, cancelRequested, engine, history>>

PlanSteps == Ids(plan)

RunStates ==
  {"pending", "running", "completed", "failed", "cancelled", "rolled_back"}
StepStates ==
  {"pending", "running", "succeeded", "failed", "skipped", "rolled_back"}
Places ==
  {"start", "ordering", "loop", "confirming", "invoking", "rollback", "returned", "raised"}

Init ==
  /\ plan \in Plans
  /\ optedIn \in BOOLEAN
  /\ cancelRequested = FALSE
  /\ pc = "start"
  /\ sched = Unordered(plan)
  /\ index = 1
  /\ attempt = 0
  /\ runState = "pending"
  /\ stepState = [s \in PlanSteps |-> "pending"]
  /\ records = <<>>
  /\ cancelled = FALSE
  /\ updated = <<>>
  /\ invoked = <<>>
  /\ begun = {}
  /\ untouched = {}
  /\ published = <<>>

------------------------------------------------------------------------------
(* Helpers.                                                                *)

Ordered == sched.ordered
Current == StepOf(plan, Ordered[index])
Remaining == SubSeq(Ordered, index, Len(Ordered))

\* A record as the loop makes it; rollback marks it later.
Record(id, state, attempts, granted) ==
  [step |-> id, state |-> state, attempts |-> attempts, granted |-> granted,
   rollback |-> "none"]

Succeeded == {s \in PlanSteps : stepState[s] = "succeeded"}

\* Mutant: a dependency is met as soon as it is no longer pending.
DependenciesMet_Settled == \A d \in Current.deps : d \in PlanSteps => stepState[d] # "pending"

DependenciesMet == Current.deps \subseteq Succeeded

MayBegin == DependenciesMet /\ ~cancelRequested

\* EventBus.publish may raise; _publish swallows that.
Publish(events) == published' = published \o events

\* Leave the loop's current step, settled with this state, and go on.
Settle(state, attempts, granted, events) ==
  /\ stepState' = [stepState EXCEPT ![Current.id] = state]
  /\ records' = Append(records, Record(Current.id, state, attempts, granted))
  /\ index' = index + 1
  /\ attempt' = 0
  /\ pc' = "loop"
  /\ Publish(events)

\* An exception nobody in execute() catches: the run's state stays as it is.
Raise ==
  /\ pc' = "raised"
  /\ UNCHANGED <<inputs, cancelRequested, sched, index, attempt, runState, stepState,
                 records, cancelled, updated, begun, untouched, published>>

------------------------------------------------------------------------------
(* The other thread.                                                       *)

RequestCancellation ==
  /\ ~cancelRequested
  /\ pc \notin {"returned", "raised"}
  /\ cancelRequested' = TRUE
  /\ untouched' = {s \in PlanSteps : stepState[s] = "pending"} \ begun
  /\ UNCHANGED <<inputs, engine, invoked, begun, published>>

------------------------------------------------------------------------------
(* execute().                                                              *)

StartRun ==
  /\ pc = "start"
  /\ runState' = "running"
  /\ pc' = "ordering"
  /\ Publish(<<<<"execution_started", {}>>>>)
  /\ UNCHANGED <<inputs, cancelRequested, sched, index, attempt, stepState, records,
                 cancelled, updated, invoked, begun, untouched>>

OrderNext ==
  /\ pc = "ordering"
  /\ sched.ready # {}
  /\ sched' = PopReady(plan, sched)
  /\ UNCHANGED <<inputs, cancelRequested, pc, index, attempt, runState, stepState,
                 records, cancelled, updated, history>>

OrderDone ==
  /\ pc = "ordering"
  /\ sched.ready = {}
  /\ Len(Ordered) = Len(plan)
  /\ pc' = "loop"
  /\ UNCHANGED <<inputs, cancelRequested, sched, index, attempt, runState, stepState,
                 records, cancelled, updated, history>>

\* Mutant: the scheduler waits until every step has been ordered.
OrderFails_Never == FALSE

\* PlanNotExecutableError: a cycle, an unknown dependency, a repeated id.
OrderFails ==
  /\ pc = "ordering"
  /\ sched.ready = {}
  /\ Len(Ordered) # Len(plan)
  /\ Raise
  /\ UNCHANGED invoked

InLoop == pc = "loop" /\ index <= Len(Ordered)

SkipUnmet ==
  /\ InLoop
  /\ ~DependenciesMet
  /\ Settle("skipped", 0, "none", <<<<"step_skipped", {Current.id}>>>>)
  /\ UNCHANGED <<inputs, cancelRequested, sched, runState, cancelled, updated,
                 invoked, begun, untouched>>

\* Cancellation is looked at once per step, and only when the step could run:
\* then it and every remaining step are skipped in one pass.
ObserveCancellation ==
  /\ InLoop
  /\ DependenciesMet
  /\ cancelRequested
  /\ cancelled' = TRUE
  /\ stepState' = [s \in PlanSteps |->
                     IF s \in ToSet(Remaining) THEN "skipped" ELSE stepState[s]]
  /\ records' = records \o [i \in 1..Len(Remaining) |-> Record(Remaining[i], "skipped", 0, "none")]
  /\ index' = Len(Ordered) + 1
  /\ Publish([i \in 1..Len(Remaining) |-> <<"step_skipped", {Remaining[i]}>>])
  /\ UNCHANGED <<inputs, cancelRequested, pc, sched, attempt, runState, updated,
                 invoked, begun, untouched>>

\* _run_step up to the confirmation gate; without one the step is RUNNING.
BeginStep ==
  /\ InLoop
  /\ MayBegin
  /\ begun' = begun \cup {Current.id}
  /\ IF Current.confirm
       THEN /\ pc' = "confirming"
            /\ Publish(<<<<"step_awaiting_confirmation", {Current.id}>>>>)
            /\ UNCHANGED stepState
       ELSE /\ pc' = "invoking"
            /\ Publish(<<<<"step_started", {Current.id}>>>>)
            /\ stepState' = [stepState EXCEPT ![Current.id] = "running"]
  /\ UNCHANGED <<inputs, cancelRequested, sched, index, attempt, runState, records,
                 cancelled, updated, invoked, untouched>>

ConfirmationGranted ==
  /\ pc = "confirming"
  /\ pc' = "invoking"
  /\ stepState' = [stepState EXCEPT ![Current.id] = "running"]
  /\ Publish(<<<<"step_started", {Current.id}>>>>)
  /\ UNCHANGED <<inputs, cancelRequested, sched, index, attempt, runState, records,
                 cancelled, updated, invoked, begun, untouched>>

ConfirmationDenied ==
  /\ pc = "confirming"
  /\ Settle("skipped", 0, "denied", <<<<"step_skipped", {Current.id}>>>>)
  /\ UNCHANGED <<inputs, cancelRequested, sched, runState, cancelled, updated,
                 invoked, begun, untouched>>

ConfirmationRaises == pc = "confirming" /\ Raise /\ UNCHANGED invoked

Granted == IF Current.confirm THEN "granted" ELSE "none"

StepFails(attempts) ==
  Settle("failed", attempts, Granted, <<<<"step_failed", {Current.id}>>>>)

StepSucceeds(attempts) ==
  Settle("succeeded", attempts, Granted, <<<<"step_succeeded", {Current.id}>>>>)

Unavailable ==
  /\ pc = "invoking"
  /\ Current.capability \notin Available
  /\ StepFails(0)
  /\ UNCHANGED <<inputs, cancelRequested, sched, runState, cancelled, updated,
                 invoked, begun, untouched>>

\* Mutant: the retry loop forgets to ask whether the operation is idempotent.
Retries_Always(n) == n < MaxAttempts[Current.capability]

\* RetryPolicy.invoke_with_retries: only a failure of an idempotent operation
\* is retried, up to max_attempts calls.
Retries(n) == Current.capability \in Idempotent /\ n < MaxAttempts[Current.capability]

\* One connector call.  Retries is asked about the calls made, this one included.
Call(response) ==
  /\ pc = "invoking"
  /\ Current.capability \in Available
  /\ invoked' = Append(invoked, Current.id)
  /\ IF response = "failure" /\ Retries(attempt + 1)
       THEN /\ attempt' = attempt + 1
            /\ UNCHANGED <<pc, index, stepState, records, published>>
       ELSE IF response = "failure" THEN StepFails(attempt + 1)
       ELSE StepSucceeds(attempt + 1)
  /\ UNCHANGED <<inputs, cancelRequested, sched, runState, cancelled, updated,
                 begun, untouched>>

CallRaises ==
  /\ pc = "invoking"
  /\ Current.capability \in Available
  /\ invoked' = Append(invoked, Current.id)
  /\ Raise

\* Mutant: a failed step outweighs the cancellation.
FinalState_FailureFirst ==
  IF \E i \in 1..Len(records) : records[i].state = "failed" THEN "failed"
  ELSE IF cancelled THEN "cancelled"
  ELSE "completed"

\* _finalize_run and the run's terminal event.
FinalState ==
  IF cancelled THEN "cancelled"
  ELSE IF \E i \in 1..Len(records) : records[i].state = "failed" THEN "failed"
  ELSE "completed"

TerminalEvent ==
  [completed |-> "execution_completed", failed |-> "execution_failed",
   cancelled |-> "execution_cancelled"]

FinalizeRun ==
  /\ pc = "loop"
  /\ index > Len(Ordered)
  /\ runState' = FinalState
  /\ Publish(<<<<TerminalEvent[FinalState], {}>>>>)
  /\ IF FinalState = "failed" /\ optedIn
       THEN pc' = "rollback" /\ index' = 1
       ELSE pc' = "returned" /\ UNCHANGED index
  /\ UNCHANGED <<inputs, cancelRequested, sched, attempt, stepState, records, cancelled, updated,
                 invoked, begun, untouched>>

NeedsRollback(record) == record.state = "failed"

\* _run_rollback_pass, one record at a time; the run sees the new records when
\* the pass is over.
KeepRecord ==
  /\ pc = "rollback"
  /\ index <= Len(records)
  /\ ~NeedsRollback(records[index])
  /\ updated' = Append(updated, records[index])
  /\ index' = index + 1
  /\ UNCHANGED <<inputs, cancelRequested, pc, sched, attempt, runState, stepState,
                 records, cancelled, history>>

RollBackRecord(supported) ==
  LET old == records[index] IN
  /\ pc = "rollback"
  /\ index <= Len(records)
  /\ NeedsRollback(old)
  /\ updated' = Append(updated,
                  IF supported THEN [old EXCEPT !.state = "rolled_back", !.rollback = "done"]
                  ELSE [old EXCEPT !.rollback = "unsupported"])
  /\ stepState' = IF supported THEN [stepState EXCEPT ![old.step] = "rolled_back"] ELSE stepState
  /\ index' = index + 1
  /\ UNCHANGED <<inputs, cancelRequested, pc, sched, attempt, runState, records,
                 cancelled, history>>

RollBackRaises ==
  /\ pc = "rollback"
  /\ index <= Len(records)
  /\ NeedsRollback(records[index])
  /\ Raise
  /\ UNCHANGED invoked

\* ROLLING_BACK and then ROLLED_BACK, with no event.
CompleteRollback ==
  /\ pc = "rollback"
  /\ index > Len(records)
  /\ runState' = "rolled_back"
  /\ records' = updated
  /\ pc' = "returned"
  /\ UNCHANGED <<inputs, cancelRequested, sched, index, attempt, stepState, cancelled,
                 updated, history>>

Execute ==
  \/ StartRun \/ OrderNext \/ OrderDone \/ OrderFails
  \/ SkipUnmet \/ ObserveCancellation \/ BeginStep
  \/ ConfirmationGranted \/ ConfirmationDenied \/ ConfirmationRaises
  \/ Unavailable \/ CallRaises
  \/ \E response \in {"success", "partial", "failure"} : Call(response)
  \/ FinalizeRun
  \/ KeepRecord \/ RollBackRaises \/ CompleteRollback
  \/ \E supported \in BOOLEAN : RollBackRecord(supported)

Next == Execute \/ RequestCancellation

Spec == Init /\ [][Next]_vars
------------------------------------------------------------------------------
(* Properties.                                                             *)

\* The order a run uses is the topological order of its plan that follows the
\* plan's own order of steps most closely; a plan without one, or with two
\* steps of one id, is refused.
RunsInFirstTopologicalOrder ==
  pc \notin {"start", "ordering"} =>
    LET orderable == TopologicalOrders(plan) # {} /\ Cardinality(PlanSteps) = Len(plan)
    IN IF Len(Ordered) = Len(plan) THEN orderable /\ Ordered = FirstOrder(plan)
       ELSE ~orderable /\ pc = "raised"

Calls(s) == Cardinality({i \in 1..Len(invoked) : invoked[i] = s})

\* A connector is called for a step only if everything the step depends on
\* has succeeded and nobody denied it, at most once unless the operation is
\* declared idempotent, and never more than max_attempts times; and not at all
\* for a step that had not been reached when cancellation was requested.
ConnectorCallsAreJustified ==
  /\ untouched \cap ToSet(invoked) = {}
  /\ \A s \in ToSet(invoked) :
       LET step == StepOf(plan, s) IN
       /\ step.deps \subseteq Succeeded
       /\ \A i \in 1..Len(records) : records[i].step = s => records[i].granted # "denied"
       /\ Calls(s) <= IF step.capability \in Idempotent THEN MaxAttempts[step.capability] ELSE 1

EventsAbout(S) == {i \in 1..Len(published) : published[i][2] = S}

\* The event that tells of a state; a rollback has none of its own.
EventOf ==
  [pending |-> "step_awaiting_confirmation", running |-> "step_started",
   succeeded |-> "step_succeeded", failed |-> "step_failed", rolled_back |-> "step_failed",
   skipped |-> "step_skipped"]

\* A subscriber that sees only the events knows how every step stands and how
\* the run ended before any rollback, of which it is not told.
EventsTellWhatHappened ==
  /\ \A s \in PlanSteps :
       \/ EventsAbout({s}) = {} /\ stepState[s] = "pending"
       \/ \E i \in EventsAbout({s}) :
            (\A j \in EventsAbout({s}) : j <= i) /\ published[i][1] = EventOf[stepState[s]]
  /\ runState \notin {"pending", "running"} =>
       /\ Len(published) > 1
       /\ EventsAbout({}) = {1, Len(published)}
       /\ published[Len(published)][1] =
            TerminalEvent[IF runState = "rolled_back" THEN "failed" ELSE runState]

\* A returned result has one record per step, in the order run.
RecordsTellWhatHappened ==
  /\ Len(records) = Len(Ordered)
  /\ \A i \in 1..Len(records) :
       /\ records[i].step = Ordered[i]
       /\ records[i].state = stepState[Ordered[i]]
       /\ records[i].attempts = Calls(Ordered[i])
       /\ records[i].rollback # "none" => records[i].attempts > 0 \/
            StepOf(plan, Ordered[i]).capability \notin Available
  /\ runState = "completed" => \A s \in PlanSteps : stepState[s] \in {"succeeded", "skipped"}
  /\ runState = "failed" => \E s \in PlanSteps : stepState[s] = "failed"
  /\ runState \in {"failed", "rolled_back"} <=>
       ~cancelled /\ \E i \in 1..Len(published) : published[i][1] = "step_failed"

\* The events and a returned result are the whole truth, and the same one: each
\* record says how its step's own state machine ended and how often its
\* connector was called; the run's state follows from the records; and the
\* events say the same at every moment.
ResultTellsWhatHappened ==
  EventsTellWhatHappened /\ (pc = "returned" => RecordsTellWhatHappened)

\* One call of execute() is a run of the plan as its callers understand it.
Protocol == INSTANCE PlanRun WITH
  deps <- [s \in PlanSteps |-> StepOf(plan, s).deps],
  status <- stepState,
  outcome <- IF runState \in {"pending", "running"} THEN "open" ELSE runState

ImplementsPlanRun == Protocol!Spec

------------------------------------------------------------------------------
(* Claims of the docs that the code does not keep.                         *)

\* execution/engine.py:20-22, "Once signaled, this step and every remaining
\* step are transitioned to SKIPPED in one pass, and the loop stops; the run's
\* own final state becomes CANCELLED, never FAILED": true only if one of the
\* remaining steps has its dependencies met.
CancelledRunsNeverFail ==
  pc = "returned" /\ untouched # {} => runState = "cancelled"
==============================================================================
