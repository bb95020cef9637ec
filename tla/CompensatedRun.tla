---------------------------- MODULE CompensatedRun ---------------------------
(***************************************************************************)
(* What every run of a pipeline promises, whatever the retries,            *)
(* resolutions and events in between and whatever other runs do: stages    *)
(* complete in order; a run that gives up only moves backwards from then   *)
(* on, compensates what it completed in reverse order, each stage at most  *)
(* once, and ends only when all of it has had its turn.  A run may also be *)
(* abandoned by an exception, but only on its way forward.                 *)
(***************************************************************************)
EXTENDS Naturals, Sequences, SequencesExt

CONSTANT Runs

VARIABLES \* functions of the run
  length,      \* stages of the pipeline
  compensable, \* the numbers of the stages that declare a compensation
  done,        \* stages completed
  undone,      \* the stages whose compensation was started, in order
  phase

vars == <<length, compensable, done, undone, phase>>

Init ==
  /\ length \in [Runs -> Nat]
  /\ \A r \in Runs : compensable[r] \in SUBSET (1..length[r])
  /\ done = [r \in Runs |-> 0] /\ undone = [r \in Runs |-> <<>>]
  /\ phase = [r \in Runs |-> "forward"]

Advance(r) ==
  /\ phase[r] = "forward" /\ done[r] < length[r]
  /\ done' = [done EXCEPT ![r] = @ + 1]
  /\ UNCHANGED <<length, compensable, undone, phase>>

Turn(r, next) ==
  /\ phase[r] = "forward"
  /\ next = "completed" => done[r] = length[r]
  /\ next = "backward" => done[r] < length[r]
  /\ phase' = [phase EXCEPT ![r] = next]
  /\ UNCHANGED <<length, compensable, done, undone>>

Compensate(r, k) ==
  /\ phase[r] = "backward"
  /\ k \in compensable[r] /\ k <= done[r]
  /\ \A i \in 1..Len(undone[r]) : k < undone[r][i]
  /\ undone' = [undone EXCEPT ![r] = Append(@, k)]
  /\ UNCHANGED <<length, compensable, done, phase>>

RolledBack(r) ==
  /\ phase[r] = "backward"
  /\ ToSet(undone[r]) = compensable[r] \cap (1..done[r])
  /\ phase' = [phase EXCEPT ![r] = "rolled_back"]
  /\ UNCHANGED <<length, compensable, done, undone>>

Next ==
  \E r \in Runs :
    \/ Advance(r)
    \/ \E next \in {"completed", "backward", "abandoned"} : Turn(r, next)
    \/ \E k \in compensable[r] : Compensate(r, k)
    \/ RolledBack(r)

Spec == Init /\ [][Next]_vars
==============================================================================
