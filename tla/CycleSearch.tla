----------------------------- MODULE CycleSearch -----------------------------
(***************************************************************************)
(* The three-colour depth-first search that finds dependency cycles, in    *)
(* planning/validation.py and in runtime/registry/plugin_registry.py.  It  *)
(* is given by its initial state and one iteration, so that its callers    *)
(* can run it step by step.  deps is a function from nodes to the set of   *)
(* nodes each depends on; dependencies outside its domain are passed over. *)
(*                                                                         *)
(* The frames of visit() are path: the nodes entered and not left, each    *)
(* with the dependencies its loop has yet to follow, in any order.         *)
(***************************************************************************)
EXTENDS Naturals, Sequences, SequencesExt, FiniteSets

Fresh(deps) ==
  [color |-> [n \in DOMAIN deps |-> "white"], path |-> <<>>, todo |-> deps, cycles |-> {}]

White(s) == {n \in DOMAIN s.color : s.color[n] = "white"}

\* The nodes are gone through in a fixed order.
NextRoot(s) == IF White(s) = {} THEN {} ELSE {CHOOSE n \in White(s) : TRUE}

Enter(s, n) == [s EXCEPT !.color[n] = "gray", !.path = Append(@, n)]

Leave(s) == [s EXCEPT !.color[Last(s.path)] = "black", !.path = Front(@)]

\* A gray dependency closes a cycle: the path from its visit to here.
Cycle(s, d) ==
  LET start == CHOOSE i \in 1..Len(s.path) : s.path[i] = d
  IN Append(SubSeq(s.path, start, Len(s.path)), d)

OnPath(s, d) == s.color[d] = "gray"

Follow(s, d) ==
  LET rest == [s EXCEPT !.todo[Last(s.path)] = @ \ {d}]
  IN IF d \notin DOMAIN s.color THEN rest
     ELSE IF OnPath(s, d) THEN [rest EXCEPT !.cycles = @ \cup {Cycle(s, d)}]
     ELSE IF s.color[d] = "white" THEN Enter(rest, d)
     ELSE rest

\* What one step may lead to; nothing once every node has been left.
Continue(s) ==
  IF s.path = <<>> THEN {Enter(s, n) : n \in NextRoot(s)}
  ELSE IF s.todo[Last(s.path)] = {} THEN {Leave(s)}
  ELSE {Follow(s, d) : d \in s.todo[Last(s.path)]}

Exhausted(s) == s.path = <<>> /\ White(s) = {}

------------------------------------------------------------------------------
(* Reference.                                                              *)

\* A set of nodes each of which depends on a node of the set.
Cyclic(deps) ==
  \E S \in SUBSET DOMAIN deps : S # {} /\ \A n \in S : deps[n] \cap S # {}

\* A path along the dependencies that ends where it began.
IsCycle(deps, c) ==
  /\ Len(c) > 1 /\ c[1] = c[Len(c)]
  /\ \A i \in 1..(Len(c) - 1) : c[i] \in DOMAIN deps /\ c[i + 1] \in deps[c[i]]
==============================================================================
