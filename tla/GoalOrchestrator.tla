-------------------------- MODULE GoalOrchestrator ---------------------------
(***************************************************************************)
(* orchestration/orchestrator.py: GoalOrchestrator.run_goal, which asks the *)
(* planning engine for a plan and, if it gets one, runs it on the execution *)
(* engine.  The strategy is outside: the plan it will answer with is the    *)
(* variable plan of the execution engine, or it raises.  The execution      *)
(* engine is a public service: a caller may also give it a plan directly,   *)
(* which no planning engine has validated.                                  *)
(***************************************************************************)
EXTENDS ExecutionEngine, Planning

CONSTANTS
  Catalogs, \* the sets of available capabilities a goal may be planned with
  Desires   \* the capabilities a goal may desire, or an assessment rank

\* Goal.desired_capabilities is a tuple.
ASSUME DesiresAssumption == \A desired \in Desires : desired \in Seq(ToSet(desired))

VARIABLES
  catalog, \* PlanningContext.available_capabilities
  search,  \* validate_plan's search for dependency cycles
  goal     \* how far run_goal is, or "direct" when the caller has a plan of its own

orchestrator == <<catalog, search, goal>>

GoalInit ==
  /\ Init
  /\ \/ goal = "planning" /\ catalog \in Catalogs
     \/ goal = "direct" /\ catalog = <<>>
  /\ search = Fresh(<<>>)

\* PlanningEngine.create_plan raises PlannerStrategyError ...
StrategyRaises ==
  /\ goal = "planning"
  /\ goal' = "planning_failure"
  /\ UNCHANGED <<vars, catalog, search>>

BeginValidation ==
  /\ goal = "planning"
  /\ goal' = "validating" /\ search' = Fresh(DependsOn(plan))
  /\ UNCHANGED <<vars, catalog>>

Searching ==
  /\ goal = "validating"
  /\ search' \in Continue(search)
  /\ UNCHANGED <<vars, catalog, goal>>

\* ... or PlanValidationError; both end the goal with a PlanningFailure.
PlanRejected ==
  /\ goal = "validating" /\ Exhausted(search)
  /\ Violations(plan, catalog, search) # {}
  /\ goal' = "planning_failure" /\ search' = Fresh(<<>>)
  /\ UNCHANGED <<vars, catalog>>

PlanAccepted ==
  /\ goal = "validating" /\ Exhausted(search)
  /\ Violations(plan, catalog, search) = {}
  /\ goal' = "executing" /\ search' = Fresh(<<>>)
  /\ UNCHANGED <<vars, catalog>>

ExecutePlan ==
  /\ goal \in {"executing", "direct"}
  /\ Execute
  /\ UNCHANGED orchestrator

\* The caller holds the token from the start.
CancelGoal ==
  /\ goal # "planning_failure"
  /\ RequestCancellation
  /\ UNCHANGED orchestrator

RunGoal ==
  \/ StrategyRaises \/ BeginValidation \/ Searching \/ PlanRejected \/ PlanAccepted
  \/ ExecutePlan

GoalNext == RunGoal \/ CancelGoal

GoalSpec == GoalInit /\ [][GoalNext]_<<vars, orchestrator>>

\* The calling thread runs on, and what it calls comes back; nobody has to
\* cancel.
GoalFairSpec == GoalSpec /\ WF_<<vars, orchestrator>>(RunGoal)

------------------------------------------------------------------------------
(* Properties.                                                             *)

DistinctIds == Cardinality(PlanSteps) = Len(plan)

\* What a built-in strategy plans is always valid, has distinct step ids, and
\* covers each desired capability of the catalog once, in the order desired.
BuiltInStrategiesPlanWhatIsDesired ==
  goal = "planning" /\ ~cancelRequested => \A desired \in Desires :
    \A p \in {RuleBased(desired, catalog), IntelligenceAware(desired, catalog)} :
      /\ Violations(p, catalog, Fresh(DependsOn(p))) = {} /\ ~Cyclic(DependsOn(p))
      /\ Cardinality(Ids(p)) = Len(p)
      /\ Planned(p) = ToSet(desired) \cap DOMAIN catalog
      /\ \A i, j \in 1..Len(p) : i < j =>
           \E k \in 1..Len(desired) :
             /\ desired[k] = p[i].capability
             /\ \A l \in 1..k : desired[l] # p[j].capability

\* The rule of planning-time validation and the gate of execution together:
\* no connector is called for a capability the catalog does not have, or for
\* one whose descriptor requires confirmation unless that was granted.
ConsentBeforeEffect ==
  goal # "direct" => \A s \in ToSet(invoked) :
    LET k == StepOf(plan, s).capability IN
    /\ k \in DOMAIN catalog
    /\ catalog[k] => <<"step_awaiting_confirmation", {s}>> \in ToSet(published)

\* The depth-first search of validation and Kahn's algorithm of execution
\* agree: a validated plan with distinct step ids is ordered completely.
ValidatedPlansAreOrdered ==
  goal = "executing" /\ DistinctIds /\ sched.ready = {} => Len(Ordered) = Len(plan)

\* A goal ends, whatever the strategy answers and for every plan given to the
\* engine directly, cyclic ones included, with every retry: as a planning
\* failure or with the end of execute().
RunEnds == <>(goal = "planning_failure" \/ pc \in {"returned", "raised"})

------------------------------------------------------------------------------
(* Claims of the docs that the code does not keep.                         *)

\* execution/engine.py:56-57, "On PlanNotExecutableError ... neither is raised
\* by execute()", and its message blames "prior planning-time validation": a
\* plan that validation has accepted is executable.  Two steps of one id pass
\* every rule.
ValidatedPlansAreExecutable ==
  goal = "executing" /\ pc = "raised" => Len(Ordered) = Len(plan)
==============================================================================
