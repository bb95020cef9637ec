------------------------- MODULE MC_ExecutionEngine --------------------------
(* Small instances of the execution engine.  Three capabilities: "read" is  *)
(* idempotent with two attempts, "write" is neither idempotent nor run      *)
(* without confirmation although its manifest allows three attempts, and no *)
(* connector provides "down".                                               *)
EXTENDS ExecutionEngine

CONSTANTS a, b \* step ids

MCCapabilities == {"read", "write", "down"}
MCAvailable == {"read", "write"}
MCIdempotent == {"read", "down"}
MCMaxAttempts == [k \in MCCapabilities |-> CASE k = "read" -> 2 [] k = "write" -> 3 [] k = "down" -> 2]

Step(id, deps, capability) ==
  [id |-> id, deps |-> deps, confirm |-> capability = "write", capability |-> capability]

\* Two steps, in either order.
ShortPlans ==
  {<<Step(a, da, f[1]), Step(b, db, f[2])>> :
     f \in [1..2 -> MCCapabilities], da \in SUBSET {b}, db \in SUBSET {a}}
==============================================================================
