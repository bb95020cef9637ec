------------------------------- MODULE Evaluation ------------------------------
(***************************************************************************)
(* evaluation/: twelve rules, each of which makes at most one finding of   *)
(* the facts of a repository.  A rule compares a count or a ratio with its *)
(* thresholds, in percent here; a finding is [rule, category, severity,    *)
(* confidence, evidence, files, modules].  Severities and confidences are  *)
(* numbers, so that they can be compared.                                  *)
(***************************************************************************)
EXTENDS RepositorySynthesis

VARIABLE evaluation \* the ArchitectureEvaluation

EvaluationInit == evaluation = None

Info == 0
Low == 1
Medium == 2
High == 3

\* RULE_THRESHOLDS: above medium there is a finding, from high on it is HIGH;
\* below the floor of what is counted there is none.
Threshold(rule) ==
  CASE rule = "MOD-002" -> [medium |-> 80, high |-> 95, floor |-> 10]
    [] rule = "COH-001" -> [medium |-> 20, high |-> 50, floor |-> 1]
    [] rule = "EXT-002" -> [medium |-> 30, high |-> 60, floor |-> 0]
    [] rule = "DEP-001" -> [medium |-> 3000, high |-> 6000, floor |-> 0]
    [] rule = "DEP-002" -> [medium |-> 50, high |-> 80, floor |-> 5]
    [] rule = "API-001" -> [medium |-> 1500, high |-> 3000, floor |-> 0]
    [] rule = "SVC-001" -> [medium |-> 2000, high |-> 4000, floor |-> 0]
    [] rule = "MNT-001" -> [medium |-> 5, high |-> 20, floor |-> 0]

MissingMedium == 2 \* CFG-001
MaxEvidenceItems == 20

Of(kind) == SelectSeq(facts.all, LAMBDA f : f.kind = kind)
Modules == Of("module")
Countable == Of("component") \o Of("api") \o Of("service")

AtLeastOne(n) == IF n = 0 THEN 1 ELSE n

\* owning_module: the longest module path the path is below; None if there is none.
OwningModule(path) ==
  LET owners == {m \in ToSet(Modules) : IsPrefix(m.path, path)}
  IN IF owners = {} THEN None
     ELSE (CHOOSE m \in owners : \A o \in owners : Len(o.path) <= Len(m.path)).name

OwnersOf(files) == {OwningModule(f) : f \in files} \ {None}

EvidenceTuple(s) == SubSeq(s, 1, IF Len(s) > MaxEvidenceItems THEN MaxEvidenceItems ELSE Len(s))

\* A finding; without a say in it, its modules are those its files belong to.
FindingIn(rule, category, severity, confidence, from, modules) ==
  LET evidence == EvidenceTuple(from)
      files == {f.path : f \in ToSet(evidence)}
  IN <<[rule |-> rule, category |-> category, severity |-> severity, confidence |-> confidence,
        evidence |-> evidence, files |-> files, modules |-> modules]>>

FilesOf(from) == {f.path : f \in ToSet(EvidenceTuple(from))}

Finding(rule, category, severity, confidence, from) ==
  FindingIn(rule, category, severity, confidence, from, OwnersOf(FilesOf(from)))

\* What part/whole amounts to: no finding, MEDIUM or HIGH.
Above(rule, part, whole) == whole >= Threshold(rule).floor /\ part * 100 > Threshold(rule).medium * whole
SeverityOf(rule, part, whole) == IF part * 100 >= Threshold(rule).high * whole THEN High ELSE Medium

Graded(rule, category, confidence, from, whole) ==
  IF ~Above(rule, Len(from), whole) THEN <<>>
  ELSE Finding(rule, category, SeverityOf(rule, Len(from), whole), confidence, from)

BroadApiSurface == Graded("API-001", "api_exposure", Medium, Of("api"), AtLeastOne(Len(Modules)))

BaselineConfigKeys == <<"app_title", "app_publisher", "app_license">>

IncompleteBaselineConfiguration ==
  LET apps == SelectSeq(Modules, LAMBDA m : m.sort = "frappe_app")
      hooks(app) == Append(app.path, "hooks.py")
      present(app) == {c.name[1] : c \in {d \in ToSet(Of("configuration")) : d.path = hooks(app)}}
      missing == FlattenSeq(Each(apps, LAMBDA app :
                   Each(SelectSeq(BaselineConfigKeys, LAMBDA key : key \notin present(app)),
                        LAMBDA key : Fact("configuration", "missing", <<key>>, hooks(app), None))))
  IN IF missing = <<>> THEN <<>>
     ELSE Finding("CFG-001", "configuration_quality", IF Len(missing) >= MissingMedium THEN Medium ELSE Low, High, missing)

FactsOutsideModuleBoundaries ==
  LET unowned == SelectSeq(Countable, LAMBDA f : OwningModule(f.path) = None)
  IN IF ~Above("COH-001", Len(unowned), Len(Countable)) THEN <<>>
     ELSE FindingIn("COH-001", "cohesion", SeverityOf("COH-001", Len(unowned), Len(Countable)), High, unowned, {})

HighDependencyCount == Graded("DEP-001", "dependency_structure", High, Of("dependency"), 1)

UnconstrainedDependencyVersions ==
  Graded("DEP-002", "dependency_structure", High,
         SelectSeq(Of("dependency"), LAMBDA d : d.detail = None), Len(Of("dependency")))

\* The first part of an overridden method's name is no module of this repository.
ExternalFrameworkOverride ==
  LET own == {m.name : m \in ToSet(Modules)}
      external == SelectSeq(Of("extension_point"), LAMBDA e :
                    /\ e.sort = "override_whitelisted_method"
                    /\ <<e.name[1]>> \notin own /\ e.name[1] # "")
  IN IF external = <<>> THEN <<>> ELSE Finding("EXT-001", "extension_mechanisms", Medium, High, external)

HighExtensionPointDensity ==
  Graded("EXT-002", "extension_mechanisms", Medium, Of("extension_point"),
         AtLeastOne(Len(Of("component")) + Len(Of("api"))))

NoRecognizedFrameworkModule ==
  IF Modules = <<>> \/ \E m \in ToSet(Modules) : m.sort = "frappe_app" THEN <<>>
  ELSE Finding("FWK-001", "framework_usage", Info, High, Modules)

HighUnresolvedRatio ==
  Graded("MNT-001", "maintainability_indicators", High, facts.unresolved, AtLeastOne(facts.statistics.filesExamined))

NoModulesIdentified ==
  IF Modules # <<>> \/ Countable = <<>> THEN <<>>
  ELSE FindingIn("MOD-001", "modularity", High, High, Countable, {})

SingleDominantModule ==
  LET ownedBy(m) == SelectSeq(Countable, LAMBDA f : OwningModule(f.path) = m)
      owners == OwnersOf({f.path : f \in ToSet(Countable)})
      dominant == CHOOSE m \in owners : \A o \in owners : Len(ownedBy(o)) <= Len(ownedBy(m))
  IN IF Len(Modules) <= 1 \/ owners = {} THEN <<>>
     ELSE IF ~Above("MOD-002", Len(ownedBy(dominant)), Len(Countable)) THEN <<>>
     ELSE FindingIn("MOD-002", "modularity", SeverityOf("MOD-002", Len(ownedBy(dominant)), Len(Countable)),
                    High, ownedBy(dominant), {dominant})

HighScheduledTaskVolume == Graded("SVC-001", "service_organization", High, Of("service"), 1)

\* ALL_RULES, in the order they are run.
AllRules ==
  <<BroadApiSurface, IncompleteBaselineConfiguration, FactsOutsideModuleBoundaries, HighDependencyCount,
    UnconstrainedDependencyVersions, ExternalFrameworkOverride, HighExtensionPointDensity,
    NoRecognizedFrameworkModule, HighUnresolvedRatio, NoModulesIdentified, SingleDominantModule,
    HighScheduledTaskVolume>>

\* The rules up to the budget, or up to where the time was over: none of them
\* raises for facts that synthesis makes.
EvaluateArchitecture(maxFindings) ==
  /\ facts # None /\ evaluation = None
  /\ \E run \in 0..Len(AllRules) :
       /\ run <= maxFindings
       /\ evaluation' = [findings |-> FlattenSeq(SubSeq(AllRules, 1, run)),
                         truncated |-> facts.truncated \/ run < Len(AllRules),
                         rulesEvaluated |-> run]
==============================================================================
