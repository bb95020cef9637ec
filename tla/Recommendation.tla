----------------------------- MODULE Recommendation ----------------------------
(***************************************************************************)
(* recommendation/: the findings of an evaluation are grouped within their *)
(* category by the modules they share, directly or through others, with a  *)
(* union-find; each group becomes a recommendation with a score and a      *)
(* priority that its severity limits.                                      *)
(***************************************************************************)
EXTENDS Evaluation

VARIABLE recommendations

RecommendationInit == recommendations = None

SeverityWeight == 3
ConfidenceWeight == 2
ScopeWeight == 1
ScopeCap == 10
Cutoffs == [critical |-> 25, high |-> 17, medium |-> 9]

\* The impact of a category and the weight of impacts, multiplied: 2 times 1 to 3.
ImpactOf(category) ==
  CASE category \in {"configuration_quality", "framework_usage"} -> 2
    [] category \in {"service_organization", "maintainability_indicators"} -> 3
    [] category \in {"api_exposure", "dependency_structure"} -> 4
    [] category = "extension_mechanisms" -> 5
    [] category \in {"modularity", "cohesion"} -> 6
    [] OTHER -> 4

\* Priorities are numbers: low, medium, high, critical.
Ceiling(severity) == CASE severity <= Low -> 1 [] severity = Medium -> 2 [] OTHER -> 3

PriorityFromScore(score) ==
  CASE score >= Cutoffs.critical -> 3
    [] score >= Cutoffs.high -> 2
    [] score >= Cutoffs.medium -> 1
    [] OTHER -> 0

(* _union_find_groups.  The findings to group are ordered by their rules:  *)
(* ordered[i] is that of RuleOrder[i].  parent[i] is at most i; path       *)
(* halving only makes the way to the root shorter.                         *)

RuleOrder ==
  <<"API-001", "CFG-001", "COH-001", "DEP-001", "DEP-002", "EXT-001", "EXT-002", "FWK-001",
    "MNT-001", "MOD-001", "MOD-002", "SVC-001">>

RootOf(parent, i) ==
  LET root[k \in DOMAIN parent] == IF parent[k] = k THEN k ELSE root[parent[k]] IN root[i]

Linked(f, g) == f.modules \cap g.modules # {} \/ (f.modules = {} /\ g.modules = {})

\* mutant: the members are joined, not the groups they are in already
Union_Members(parent, joined) ==
  [k \in DOMAIN parent |-> IF k \in joined THEN CHOOSE i \in joined : \A j \in joined : i <= j ELSE parent[k]]

\* The groups of all that is joined become one, whose root is the least of theirs.
Union(parent, joined) ==
  LET roots == {RootOf(parent, i) : i \in joined}
      low == CHOOSE r \in roots : \A s \in roots : r <= s
  IN [k \in DOMAIN parent |-> IF k \in roots THEN low ELSE parent[k]]

\* The outer loop comes to i: i is joined with all after it that are linked to it.
Joined(ordered, i) == {i} \cup {j \in DOMAIN ordered : i < j /\ Linked(ordered[i], ordered[j])}

\* parent as the outer loop has left it after i.
ParentAfter(ordered) ==
  LET after[i \in 0..Len(RuleOrder)] ==
        IF i = 0 THEN [k \in DOMAIN ordered |-> k]
        ELSE IF i \in DOMAIN ordered THEN Union(after[i - 1], Joined(ordered, i)) ELSE after[i - 1]
  IN after

UnionFindGroups(ordered) ==
  LET root(i) == RootOf(ParentAfter(ordered)[Len(RuleOrder)], i)
      group(i) == {ordered[j] : j \in {k \in DOMAIN ordered : root(k) = root(i)}}
  IN {group(i) : i \in DOMAIN ordered}

\* A rule makes one finding at most.
Ordered(findings) ==
  LET places == {i \in 1..Len(RuleOrder) : \E f \in findings : f.rule = RuleOrder[i]}
  IN [i \in places |-> CHOOSE f \in findings : f.rule = RuleOrder[i]]

GroupFindings(findings) ==
  UNION {UnionFindGroups(Ordered({f \in findings : f.category = c})) : c \in {f.category : f \in findings}}

AffectedFiles(group) == UNION {f.files : f \in group}
AffectedModules(group) == UNION {f.modules : f \in group}
GroupSeverity(group) == (CHOOSE f \in group : \A g \in group : g.severity <= f.severity).severity
GroupConfidence(group) == (CHOOSE f \in group : \A g \in group : f.confidence <= g.confidence).confidence
CategoryOf(group) == (CHOOSE f \in group : TRUE).category

\* Confidences count from 1.
Score(group) ==
  LET files == Cardinality(AffectedFiles(group))
  IN GroupSeverity(group) * SeverityWeight + GroupConfidence(group) * ConfidenceWeight
     + (IF files > ScopeCap THEN ScopeCap ELSE files) * ScopeWeight + ImpactOf(CategoryOf(group))

PriorityOf(group) ==
  LET bound == Ceiling(GroupSeverity(group))
  IN IF PriorityFromScore(Score(group)) <= bound THEN PriorityFromScore(Score(group)) ELSE bound

BuildRecommendation(group) ==
  [category |-> CategoryOf(group), priority |-> PriorityOf(group), score |-> Score(group),
   supporting |-> {f.rule : f \in group}, files |-> AffectedFiles(group), modules |-> AffectedModules(group)]

\* No pair of categories is registered as opposing: there is no conflict to tell of.
GenerateRecommendations ==
  /\ evaluation # None /\ recommendations = None
  /\ recommendations' = {BuildRecommendation(group) : group \in GroupFindings(ToSet(evaluation.findings))}

\* What evaluations have: a rule makes one finding at most, of no more than HIGH.
DifferentRules(findings) ==
  /\ \A f \in findings : f.rule \in ToSet(RuleOrder) /\ f.severity \in Info..High
  /\ \A f, g \in findings : f.rule = g.rule => f = g

------------------------------------------------------------------------------
(* Properties.                                                             *)

\* The findings one can reach from f, going from one to one of its category that
\* shares a module with it, or has none either: those in every set that has f and
\* cannot be left this way.
Reached(f) ==
  LET others == {g \in ToSet(evaluation.findings) : g.category = f.category}
      closed(S) == \A g \in S, h \in others : Linked(g, h) => h \in S
  IN {g \in others : \A S \in SUBSET others : f \in S /\ closed(S) => g \in S}

\* scoring.py:205-263, 321-351: every finding supports exactly one
\* recommendation, together with exactly those of its category that are linked to
\* it through any number of others; it affects what they affect; and no volume of
\* files lifts its priority over what its worst finding allows.
RecommendationsCoverTheFindings ==
  recommendations # None =>
    LET findings == ToSet(evaluation.findings)
        supportOf(f) == {r \in recommendations : f.rule \in r.supporting}
    IN /\ \A f \in findings :
            /\ Cardinality(supportOf(f)) = 1
            /\ \A r \in supportOf(f) :
                 /\ r.supporting = {g.rule : g \in Reached(f)}
                 /\ f.files \subseteq r.files /\ f.modules \subseteq r.modules /\ r.category = f.category
       /\ \A r \in recommendations :
            \E f \in findings : f.rule \in r.supporting /\ r.priority <= Ceiling(f.severity)
==============================================================================
