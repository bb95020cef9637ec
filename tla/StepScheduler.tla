---------------------------- MODULE StepScheduler ----------------------------
(***************************************************************************)
(* execution/scheduler.py: StepScheduler.order, Kahn's algorithm with a    *)
(* heap keyed by the position of a step in the plan.  The loop is given by *)
(* its initial state and one iteration, so that the execution engine can   *)
(* run it step by step.                                                    *)
(*                                                                         *)
(* A plan is a sequence of steps [id, deps, confirm, capability]; ids need *)
(* not be distinct.  A name repeated inside one depends_on counts twice in *)
(* in_degree and twice in dependents, so depends_on is a set here.         *)
(***************************************************************************)
EXTENDS Integers, Sequences, FiniteSets

Ids(plan) == {plan[i].id : i \in 1..Len(plan)}

\* A dict comprehension over the steps: of two steps with one id, the last.
LastIndex(plan, id) ==
  CHOOSE i \in 1..Len(plan) :
    plan[i].id = id /\ \A j \in 1..Len(plan) : plan[j].id = id => j <= i

StepOf(plan, id) == plan[LastIndex(plan, id)]

\* How often id occurs in dependents[dependency].
Dependents(plan, dependency, id) ==
  Cardinality({i \in 1..Len(plan) : plan[i].id = id /\ dependency \in plan[i].deps})

Unordered(plan) ==
  LET degree == [id \in Ids(plan) |-> Cardinality(StepOf(plan, id).deps)]
  IN [inDegree |-> degree,
      ready |-> {id \in Ids(plan) : degree[id] = 0},
      ordered |-> <<>>]

\* Mutant: a plain queue keyed by nothing, so any ready step may come next.
PopReady_AnyOrder(plan, sched) ==
  LET next == CHOOSE id \in sched.ready :
                \A other \in sched.ready : LastIndex(plan, id) >= LastIndex(plan, other)
      degree == [id \in Ids(plan) |-> sched.inDegree[id] - Dependents(plan, next, id)]
  IN [inDegree |-> degree,
      ready |-> (sched.ready \ {next}) \cup
                  {id \in Ids(plan) : sched.inDegree[id] > 0 /\ degree[id] <= 0},
      ordered |-> Append(sched.ordered, next)]

\* heappop, then release the dependents whose in-degree reaches zero.
PopReady(plan, sched) ==
  LET next == CHOOSE id \in sched.ready :
                \A other \in sched.ready : LastIndex(plan, id) <= LastIndex(plan, other)
      degree == [id \in Ids(plan) |-> sched.inDegree[id] - Dependents(plan, next, id)]
  IN [inDegree |-> degree,
      ready |-> (sched.ready \ {next}) \cup
                  {id \in Ids(plan) : sched.inDegree[id] > 0 /\ degree[id] <= 0},
      ordered |-> Append(sched.ordered, next)]

------------------------------------------------------------------------------
(* Reference: the orders of a plan that put every step after the steps it  *)
(* depends on, and the first of them by position in the plan.              *)

TopologicalOrders(plan) ==
  {p \in [1..Len(plan) -> 1..Len(plan)] :
    /\ \A i, j \in 1..Len(plan) : i # j => p[i] # p[j]
    /\ \A j \in 1..Len(plan) : plan[p[j]].deps \subseteq {plan[p[i]].id : i \in 1..(j - 1)}}

Before(p, q) == \E k \in DOMAIN p : p[k] < q[k] /\ \A i \in 1..(k - 1) : p[i] = q[i]

FirstOrder(plan) ==
  LET p == CHOOSE p \in TopologicalOrders(plan) :
             \A q \in TopologicalOrders(plan) : p = q \/ Before(p, q)
  IN [i \in 1..Len(plan) |-> plan[p[i]].id]
==============================================================================
