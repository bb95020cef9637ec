------------------------------ MODULE Planning -------------------------------
(***************************************************************************)
(* planning/: the two built-in strategies and the validation every plan    *)
(* passes, as operators.  A catalog is PlanningContext's                   *)
(* available_capabilities: a function from capabilities to whether the     *)
(* capability requires confirmation.  Plans are those of StepScheduler.    *)
(***************************************************************************)
EXTENDS StepScheduler, CycleSearch

------------------------------------------------------------------------------
(* planning/validation.py: every rule reports every violation.             *)

UnknownCapability(plan, catalog) ==
  {<<"unknown_capability", i>> : i \in {j \in 1..Len(plan) : plan[j].capability \notin DOMAIN catalog}}

\* Mutant: unknown dependencies are left to the cycle search, which skips them.
UnknownDependency_Skipped(plan) == {}

UnknownDependency(plan) ==
  {<<"unknown_dependency", i>> : i \in {j \in 1..Len(plan) : ~(plan[j].deps \subseteq Ids(plan))}}

\* The search that finds the cycles runs step by step, to its end; it is over
\* what each step of the plan depends on.
DependsOn(plan) == [id \in Ids(plan) |-> StepOf(plan, id).deps]

DependencyCycle(search) == {<<"dependency_cycle", c>> : c \in search.cycles}

\* Mutant: the rule asks the step instead of the catalog.
ConfirmationUnderstated_StepDecides(plan, catalog) == {}

ConfirmationUnderstated(plan, catalog) ==
  {<<"confirmation_understated", i>> :
     i \in {j \in 1..Len(plan) : /\ plan[j].capability \in DOMAIN catalog
                                 /\ catalog[plan[j].capability]
                                 /\ ~plan[j].confirm}}

Violations(plan, catalog, search) ==
  UnknownCapability(plan, catalog) \cup UnknownDependency(plan)
    \cup DependencyCycle(search) \cup ConfirmationUnderstated(plan, catalog)

------------------------------------------------------------------------------
(* planning/strategy.py and planning/strategy_intelligence.py.             *)

StepFor(catalog, capability, n) ==
  [id |-> n, deps |-> {}, confirm |-> catalog[capability], capability |-> capability]

Planned(steps) == {steps[i].capability : i \in 1..Len(steps)}

\* Mutant: a capability desired twice is planned twice, under one number.
Wanted_Again(steps, catalog, capability) == capability \in DOMAIN catalog

Wanted(steps, catalog, capability) ==
  capability \notin Planned(steps) /\ capability \in DOMAIN catalog

Adding(steps, catalog, capability, n) ==
  IF Wanted(steps, catalog, capability) THEN Append(steps, StepFor(catalog, capability, n)) ELSE steps

\* Step n is the n-th step of the plan.
AddingNext(steps, catalog, capability) == Adding(steps, catalog, capability, Len(steps) + 1)

\* after[n]: the steps the loop has made of the first n.
RuleBased(desired, catalog) ==
  LET after[n \in 0..Len(desired)] ==
        IF n = 0 THEN <<>> ELSE AddingNext(after[n - 1], catalog, desired[n])
  IN after[Len(desired)]

\* Step n is the candidate ranked n-th, so numbers may be skipped.
IntelligenceAware(ranked, catalog) ==
  LET after[n \in 0..Len(ranked)] ==
        IF n = 0 THEN <<>> ELSE Adding(after[n - 1], catalog, ranked[n], n)
  IN after[Len(ranked)]
==============================================================================
