----------------------------- MODULE ConflictRules ----------------------------
(***************************************************************************)
(* knowledge/conflict: what becomes of two claims that disagree, one rule  *)
(* after the other (resolve_conflict), and of the conflicts of one batch   *)
(* of artifacts (resolve_conflicts_in_batch).  A claim is                  *)
(*   [id, tier, version, inferred, staff, afterDocs, contradicts].         *)
(***************************************************************************)
EXTENDS KnowledgeArtifacts

OfficialDocumentation == 3 \* among the tiers 1..9, 1 the most authoritative

Tiers == 1..9

Claims(Ids, Versions) ==
  [id : Ids, tier : Tiers, version : Versions \cup {None}, inferred : BOOLEAN,
   staff : BOOLEAN, afterDocs : BOOLEAN, contradicts : BOOLEAN]

Resolution(outcome, winner, loser, human) ==
  [outcome |-> outcome, winner |-> winner, loser |-> loser, human |-> human]

\* Numbers decide if both names have one and they differ, the names otherwise.
Newer(v, w) ==
  IF None \notin {v.number, w.number} /\ v.number # w.number
  THEN v.number > w.number
  ELSE v.text > w.text

RuleContradiction(a, b) == a.contradicts \/ b.contradicts

VersionScoped(a, b) ==
  /\ None \notin {a.version, b.version} /\ a.version # b.version
  /\ ~a.inferred /\ ~b.inferred

StaffAfter(docs, other) == docs.tier = OfficialDocumentation /\ other.staff /\ other.afterDocs

DocsMayBeStale_OneWay(a, b) == StaffAfter(a, b) \* mutant: only the first claim may be the docs

DocsMayBeStale(a, b) == StaffAfter(a, b) \/ StaffAfter(b, a)

\* resolve_conflict: the first rule that applies decides.
Resolve(a, b) ==
  IF RuleContradiction(a, b) THEN Resolution("escalated_rule_contradiction", None, None, TRUE)
  ELSE IF VersionScoped(a, b) THEN
    LET newer == IF Newer(a.version, b.version) THEN a ELSE b
        older == IF newer = a THEN b ELSE a
    IN Resolution("both_valid_version_scoped", newer.id, older.id, FALSE)
  ELSE IF DocsMayBeStale(a, b) THEN Resolution("flagged_docs_may_be_stale", None, None, TRUE)
  ELSE IF a.tier # b.tier THEN
    LET winner == IF a.tier < b.tier THEN a ELSE b
        loser == IF winner = a THEN b ELSE a
    IN Resolution("winner_by_precedence", winner.id, loser.id, FALSE)
  ELSE Resolution("undecided", None, None, TRUE)

\* to_conflict_claim: the claim an artifact makes; the tier is what the
\* precedence provider answers for it.
ClaimOf(artifact, tier) ==
  [id |-> artifact.id, tier |-> tier, version |-> artifact.version, inferred |-> artifact.inferred,
   staff |-> "staff-authored" \in artifact.tags,
   afterDocs |-> "authored-after-docs-update" \in artifact.tags,
   contradicts |-> "contradicts-stable-rule" \in artifact.tags]

SettledBy(resolution) == ~resolution.human /\ resolution.loser # None

Demoted(artifacts, id) == [artifacts EXCEPT ![id].status = "superseded"]

\* One KnowledgeConflict of a batch: artifacts maps the ids of the batch to
\* the artifacts, conflict is the pair of the ids of its claims.
ResolveInBatch(batch, conflict, tierOf) ==
  LET known == {conflict[1], conflict[2]} \subseteq DOMAIN batch.artifacts
      claim(i) == ClaimOf(batch.artifacts[conflict[i]], tierOf[conflict[i]])
      resolution == Resolve(claim(1), claim(2))
  IN IF known /\ SettledBy(resolution)
     THEN [batch EXCEPT !.artifacts = Demoted(@, resolution.loser)]
     ELSE [batch EXCEPT !.unresolved = Append(@, conflict)]

ResolveBatch(artifacts, conflicts, tierOf) ==
  LET upTo[n \in 0..Len(conflicts)] ==
        IF n = 0 THEN [artifacts |-> artifacts, unresolved |-> <<>>]
        ELSE ResolveInBatch(upTo[n - 1], conflicts[n], tierOf)
  IN upTo[Len(conflicts)]
==============================================================================
