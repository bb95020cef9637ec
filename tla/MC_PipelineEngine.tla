-------------------------- MODULE MC_PipelineEngine --------------------------
(* Small instances of the pipeline engine.  The capability "work" may be    *)
(* registered once for all runs or made per run, "undo" may be missing.     *)
EXTENDS PipelineEngine

CONSTANTS r1, r2

MCCapabilities == {"work", "undo"}

Registered(scope) == [scope |-> scope, generation |-> 1]

MCWirings ==
  {"work" :> Registered(scope) : scope \in {"singleton", "pipeline_run"}}
  \cup {("work" :> Registered("pipeline_run")) @@ ("undo" :> Registered(scope)) :
          scope \in {"singleton", "request"}}

MCStage(cap, attempts, undo) ==
  [capability |-> cap, maxAttempts |-> attempts, rollback |-> undo]

\* Two runs of two compensable stages each, one attempt.
TwoRuns ==
  [Runs -> {<<MCStage("work", 1, "undo"), MCStage("work", 1, "undo")>>}]

\* One run of three retried stages, the middle one with and without a
\* compensation and the last one perhaps without a provider or an attempt,
\* beside a run whose only stage is never called.
ThreeStages ==
  {r1 :> <<MCStage("work", 2, "undo"), MCStage("work", 2, undo), last>>
     @@ r2 :> <<MCStage("undo", 0, NoCapability)>> :
     undo \in {"undo", NoCapability},
     last \in {MCStage("work", 1, NoCapability), MCStage("work", 0, NoCapability),
               MCStage("undo", 1, NoCapability)}}

MCDefinitions == TwoRuns \cup ThreeStages
==============================================================================
