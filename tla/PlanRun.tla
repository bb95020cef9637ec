------------------------------- MODULE PlanRun -------------------------------
(***************************************************************************)
(* What running a plan promises, whatever order, retries, confirmations    *)
(* and events the engine uses: one step at a time, a step only once all it *)
(* depends on has succeeded, every step settled before the run ends, the   *)
(* run's outcome read off the steps' outcomes, and a rollback that touches *)
(* failed steps of a failed run only.                                      *)
(***************************************************************************)
EXTENDS Naturals

CONSTANT Steps

VARIABLES
  deps,    \* deps[s]: the steps s depends on
  status,  \* status[s]: how far step s is
  outcome  \* of the run

vars == <<deps, status, outcome>>

Statuses == {"pending", "running", "succeeded", "failed", "skipped", "rolled_back"}

Outcomes == {"open", "completed", "failed", "cancelled", "rolled_back"}

Having(x) == {s \in DOMAIN status : status[s] = x}

Init ==
  /\ \E S \in SUBSET Steps :
       deps \in [S -> SUBSET Steps] /\ status = [s \in S |-> "pending"]
  /\ outcome = "open"

Begin(s) ==
  /\ outcome = "open"
  /\ Having("running") = {}
  /\ status[s] = "pending"
  /\ deps[s] \subseteq Having("succeeded")
  /\ status' = [status EXCEPT ![s] = "running"]
  /\ UNCHANGED <<deps, outcome>>

Settle(s) ==
  /\ status[s] = "running"
  /\ \E x \in {"succeeded", "failed"} : status' = [status EXCEPT ![s] = x]
  /\ UNCHANGED <<deps, outcome>>

Skip(S) ==
  /\ outcome = "open"
  /\ S # {} /\ S \subseteq Having("pending")
  /\ status' = [s \in DOMAIN status |-> IF s \in S THEN "skipped" ELSE status[s]]
  /\ UNCHANGED <<deps, outcome>>

End ==
  /\ outcome = "open"
  /\ Having("pending") \cup Having("running") = {}
  /\ outcome' \in {"cancelled", IF Having("failed") = {} THEN "completed" ELSE "failed"}
  /\ UNCHANGED <<deps, status>>

RollBack(s) ==
  /\ outcome = "failed"
  /\ status[s] = "failed"
  /\ status' = [status EXCEPT ![s] = "rolled_back"]
  /\ UNCHANGED <<deps, outcome>>

EndRollBack ==
  /\ outcome = "failed"
  /\ outcome' = "rolled_back"
  /\ UNCHANGED <<deps, status>>

Next ==
  \/ \E s \in DOMAIN status : Begin(s) \/ Settle(s) \/ RollBack(s)
  \/ \E S \in SUBSET DOMAIN status : Skip(S)
  \/ End
  \/ EndRollBack

Spec == Init /\ [][Next]_vars
==============================================================================
