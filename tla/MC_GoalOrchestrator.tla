------------------------ MODULE MC_GoalOrchestrator --------------------------
(* Small instances of goals and of plans given to the engine directly.      *)
(* Three capabilities: "read" is idempotent with two attempts, "write" is   *)
(* neither idempotent nor run without confirmation although its manifest    *)
(* allows three attempts, and no connector provides "down".  Steps are      *)
(* numbered as the strategies number them; no plan has a step 4.            *)
EXTENDS GoalOrchestrator

MCSteps == 1..4
MCCapabilities == {"read", "write", "down"}
MCAvailable == {"read", "write"}
MCIdempotent == {"read", "down"}
MCMaxAttempts == [k \in MCCapabilities |-> IF k = "write" THEN 3 ELSE 2]

\* "write" requires confirmation wherever it is in the catalog.
MCCatalogs == {[k \in S |-> k = "write"] : S \in {{}, {"read"}, {"write"}, MCCapabilities}}

Step(id, deps, capability) ==
  [id |-> id, deps |-> deps, confirm |-> capability = "write", capability |-> capability]

\* Every acyclic plan of three steps in which dependencies come first, with
\* every capability in every place.
ForwardPlans ==
  {<<Step(1, {}, f[1]), Step(2, d2, f[2]), Step(3, d3, f[3])>> :
     f \in [1..3 -> MCCapabilities], d2 \in SUBSET {1}, d3 \in SUBSET {1, 2}}

\* Every dependency graph over three steps, cycles and unknown steps included,
\* and plans that use an id twice.
GraphPlans ==
  {<<Step(1, d1, "down"), Step(2, d2, "down"), Step(3, d3, "down")>> :
     d1 \in SUBSET (1..3), d2 \in SUBSET (1..3), d3 \in SUBSET {1, 2, 4}}
  \cup {<<Step(1, {}, "down"), Step(2, d2, "down"), Step(1, d1, "down")>> :
     d1 \in SUBSET {2}, d2 \in SUBSET {1}}

\* Two steps with any ids, dependencies, capability and confirmation.
TwoStepPlans ==
  LET S == [id : {1, 2}, deps : {{}, {1}, {2}, {4}}, confirm : BOOLEAN,
            capability : {"read", "write"}]
  IN [1..2 -> S]

MCPlans == ForwardPlans \cup GraphPlans \cup TwoStepPlans

\* Goals that desire up to three capabilities, known and unknown, again and
\* again.
MCDesires == UNION {[1..n -> {"read", "write", "unknown"}] : n \in 0..3}
==============================================================================
