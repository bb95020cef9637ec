-------------------------- MODULE KnowledgeArtifacts --------------------------
(***************************************************************************)
(* knowledge/artifacts: the envelope all artifacts share.  An id is        *)
(* <<kind, number>>, a version [number, text]: the number its name starts  *)
(* with, or None, and the rank of its name among all names.                *)
(***************************************************************************)
EXTENDS Naturals, Sequences

CONSTANT None \* no version, no number, nothing found

ASSUME NoneAssumption == None \notin Nat

ContentKinds == {"knowledge_api", "pattern", "anti_pattern", "best_practice", "example", "workflow"}

Held == {"pending-conflict-resolution", "pending-human-approval"}
Statuses == {"draft", "validated", "rejected", "superseded"} \cup Held

Relationships ==
  {"depends_on", "implements", "extends", "replaces", "conflicts_with", "related_to",
   "deprecated_by", "supersedes", "references"}

Confidences == 0..100000 \* the last one is 1.0

\* A sequence, whatever its elements are.
IsList(q) == Len(q) \in Nat /\ q = [i \in 1..Len(q) |-> q[i]]

ArtifactFields ==
  {"id", "kind", "content", "version", "inferred", "refs", "method", "schema", "tags", "shapes",
   "links", "provenance", "status", "confidence"}

\* ArtifactEnvelope; links are its relationships, then its dependencies as
\* depends_on, shapes the recurring shapes its tags make it a candidate for.
IsArtifact(a) ==
  /\ a = [f \in ArtifactFields |-> a[f]]
  /\ IsList(a.refs) /\ IsList(a.links)
  /\ a.status \in Statuses

\* content is [identity, body, thirdParty]: what the artifact is about, what it
\* says of it, and whether it was seen in third-party code only.
WellFormed(a) ==
  /\ IsArtifact(a)
  /\ a.kind \in ContentKinds
  /\ a.id[1] = a.kind \* the id has the prefix of the type
  /\ a.confidence \in Confidences
  /\ a.version = None \/ DOMAIN a.version = {"number", "text"}
  /\ a.inferred \in BOOLEAN /\ a.schema \in BOOLEAN
  /\ \A i \in 1..Len(a.links) : a.links[i].rel \in Relationships
  /\ DOMAIN a.content = {"identity", "body", "thirdParty"}
==============================================================================
