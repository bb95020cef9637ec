--------------------------- MODULE KnowledgeFactory ---------------------------
(***************************************************************************)
(* The knowledge factory put together: knowledge.graph_build extracts      *)
(* artifacts from the documents of a batch, promotes recurring shapes and  *)
(* settles the conflicts of the batch; what comes out is submitted to the  *)
(* validation gates, any number of times; what they or a human validate is *)
(* projected into the knowledge graph (graph/builder.py), link by link,    *)
(* until one raises.                                                       *)
(***************************************************************************)
EXTENDS ValidationGates, KnowledgeExtraction, KnowledgeGraph, KnowledgeViews

CONSTANTS
  Batches,    \* [documents, given, conflicts]: documents, artifacts made by hand,
              \* and the pairs of ids of the KnowledgeConflicts found
  Artifacts,  \* the ids whose prefix names an artifact type
  Versions,   \* the versions claims are compared by
  Raws,       \* the requirements that may be stated,
  Candidates, \* what they are compared with, by kind,
  Collections \* and collections of artifacts that may be asked for

\* What is held for a human came past the schema gate, which wants references.
ASSUME BatchesAssumption ==
  \A b \in Batches :
    /\ DOMAIN b = {"documents", "given", "conflicts"}
    /\ IsList(b.documents) /\ IsList(b.given) /\ IsList(b.conflicts)
    /\ \A i \in 1..Len(b.documents) : IsList(b.documents[i].items)
    /\ \A i \in 1..Len(b.given) :
         WellFormed(b.given[i]) /\ (b.given[i].status \in Held => b.given[i].refs # <<>>)

\* The number is part of the name.
ASSUME VersionsAssumption ==
  \A v, w \in Versions :
    v.text \in Nat /\ (v.number = None \/ v.number \in Nat) /\ (v.text = w.text => v = w)

\* Texts are of finitely many words.  No id or kind is the value for "nothing",
\* and collections have ids of their own.
ASSUME RequirementsAssumption ==
  /\ \A k \in ToSet(Kinds) :
       /\ k # None
       /\ IsList(Candidates[k])
       /\ \A i \in 1..Len(Candidates[k]) : IsFiniteSet(Candidates[k][i].text)
       /\ \A raw \in Raws :
            /\ IsList(raw.mentions[k])
            /\ \A i \in 1..Len(raw.mentions[k]) :
                 /\ MentionId(raw, k, i) # None
                 /\ IsFiniteSet(raw.mentions[k][i].text) /\ IsList(raw.mentions[k][i].steps)
  /\ IsList(Collections)
  /\ \A i \in 1..Len(Collections) :
       /\ Collections[i].id # None /\ DOMAIN Collections[i] = {"id", "artifacts", "references", "nodes", "edges"}
       /\ IsList(Collections[i].artifacts)
       /\ \A j \in 1..Len(Collections) : Collections[i].id = Collections[j].id => i = j

VARIABLES
  batch,
  stage,      \* of knowledge.graph_build, then "validation"
  ids,        \* IdAllocator._counters
  drafts,     \* the artifacts so far
  projection, \* [artifact, next, node]: the artifact project() is at, the link it is at
  projected,  \* history: artifacts project() returned for
  overlapped  \* history: two runs were in duplicate detection at once

building == <<batch, stage, ids, drafts>>
projecting == <<projection, projected>>
factory == <<validation, building, graph, projecting, overlapped>>

Idle == [artifact |-> None, next |-> 1, node |-> FALSE]

Init ==
  /\ GatesInit
  /\ batch \in Batches
  /\ stage = "extraction" /\ ids = NoIds /\ drafts = <<>>
  /\ GraphInit
  /\ projection = Idle /\ projected = {}
  /\ overlapped = FALSE

(* knowledge.graph_build.  Publishing ArtifactCreated may raise: the stage *)
(* fails and what it made is lost, the ids it took are not given back.     *)

ExtractDocument ==
  /\ stage = "extraction" /\ batch.documents # <<>>
  /\ LET result == Extract(Head(batch.documents), ids) IN
       /\ ids' = result.ids
       /\ \/ ~result.raised /\ drafts' = drafts \o result.artifacts /\ UNCHANGED stage
          \/ (result.raised \/ result.artifacts # <<>>) /\ stage' = "failed" /\ UNCHANGED drafts
  /\ batch' = [batch EXCEPT !.documents = Tail(@)]

PatternExtraction ==
  /\ stage = "extraction" /\ batch.documents = <<>>
  /\ LET result == ExtractPatterns(drafts \o batch.given, ids) IN
       /\ ids' = result.ids
       /\ \/ drafts' = result.artifacts /\ stage' = "conflict_resolution"
          \/ ids' # ids /\ stage' = "failed" /\ UNCHANGED drafts
  /\ UNCHANGED batch

\* The last of those with the id: the code collects them in a dict.
WithId(id) ==
  drafts[CHOOSE i \in 1..Len(drafts) : drafts[i].id = id /\ \A j \in 1..Len(drafts) : drafts[j].id = id => j <= i]

\* A repeated id keeps its places in the list, all with the same artifact; the
\* conflicts left for a human are no artifacts and are not validated.
ConflictResolution ==
  /\ stage = "conflict_resolution"
  /\ LET byId == [id \in {drafts[i].id : i \in 1..Len(drafts)} |-> WithId(id)]
         resolved == ResolveBatch(byId, batch.conflicts, TierOf).artifacts
     IN drafts' = [i \in 1..Len(drafts) |-> resolved[drafts[i].id]]
  /\ stage' = "validation"
  /\ UNCHANGED <<batch, ids>>

Build == ExtractDocument \/ PatternExtraction \/ ConflictResolution

Validate ==
  /\ stage = "validation"
  /\ \/ \E r \in Runs, i \in 1..Len(drafts) : Submit(r, drafts[i])
     \/ \E r \in Runs : Gate(r)
     \/ \E id \in DOMAIN pending, decision \in {"approved", "rejected"} : Resolved(id, decision)

(* GraphBuilder.project.                                                   *)

Projectable_Any(artifact) == TRUE \* mutant: the status is not looked at

Projectable(artifact) == artifact.status = "validated"

\* An artifact without links gets no node, one that is not validated raises:
\* neither changes anything.
BeginProjection(artifact) ==
  /\ projection = Idle
  /\ Projectable(artifact) /\ artifact.links # <<>>
  /\ CreateNode(artifact.id, artifact.kind)
  /\ projection' = [artifact |-> artifact, next |-> 1, node |-> FALSE]
  /\ UNCHANGED projected

Link == projection.artifact.links[projection.next]

ProjectTarget ==
  /\ projection # Idle /\ ~projection.node
  /\ Link.target \in Artifacts
  /\ CreateNode(Link.target, KindOf(Link.target))
  /\ projection' = [projection EXCEPT !.node = TRUE]
  /\ UNCHANGED projected

ProjectLink ==
  /\ projection.node
  /\ CreateEdge(projection.artifact.id, Link.rel, Link.target)
  /\ IF projection.next = Len(projection.artifact.links)
     THEN projection' = Idle /\ projected' = projected \cup {projection.artifact}
     ELSE projection' = [projection EXCEPT !.next = @ + 1, !.node = FALSE] /\ UNCHANGED projected

\* An unknown prefix, or an edge that would close a cycle: what was added stays.
ProjectionRaises ==
  /\ projection # Idle
  /\ IF projection.node THEN Refused(projection.artifact.id, Link.rel, Link.target)
     ELSE Link.target \notin Artifacts
  /\ projection' = Idle
  /\ UNCHANGED <<graph, projected>>

Project ==
  \/ \E artifact \in returned : BeginProjection(artifact)
  \/ ProjectTarget \/ ProjectLink \/ ProjectionRaises

InDuplicateDetection == {r \in Runs : run[r].at = "remember"}

Next ==
  \/ Build /\ UNCHANGED <<validation, graph, projecting, overlapped>>
  \/ /\ Validate
     /\ overlapped' = (overlapped \/ Cardinality(InDuplicateDetection') > 1)
     /\ UNCHANGED <<building, graph, projecting>>
  \/ Project /\ UNCHANGED <<validation, building, overlapped>>

Spec == Init /\ [][Next]_factory

------------------------------------------------------------------------------
(* Properties.                                                             *)

Valid == {a \in returned : a.status = "validated"}

\* gates.py:287-393, approval.py:48: an artifact that contradicts a stable rule,
\* or whose confidence is ambiguous, is validated only if a human approved it,
\* and none is without sources, or from one that does not check out.
ConsentBeforeValidation ==
  \A a \in Valid :
    /\ a.id \in approved \/ ("contradicts-stable-rule" \notin a.tags /\ ~Ambiguous(a))
    /\ a.refs # <<>> /\ (a.id \in approved \/ SourceOk[a.id])

\* approval.py:40, 55: what a run was told is on hold waits for a decision until
\* one is made: its entry is there, and is for what the run holds, whoever else
\* held, merged or decided something since; and nothing else is waiting.
HeldArtifactsAwaitDecision ==
  /\ \A r \in Runs \ decided : Holds(r) =>
       LET artifact == run[r].artifact IN
       artifact.id \in DOMAIN pending /\ Key(pending[artifact.id]) = Key(artifact)
  /\ \A id \in DOMAIN pending : pending[id].status = "pending-human-approval" /\ pending[id].id = id

Answers(id) == {a \in returned : a.id = id /\ a.status \in {"validated", "rejected"}}

\* gates.py:10 says that an artifact is "never deleted, only rejected/superseded/
\* pending, always retained": what was held is pending still, or was returned as
\* the human decided.  (Not so when publishing the decision raises.)
HeldArtifactsAreRetained ==
  \A r \in Runs : Holds(r) =>
    run[r].artifact.id \in DOMAIN pending \/ Answers(run[r].artifact.id) # {}

\* resolution.py:101: which claim is named first makes no difference, whatever
\* the claims say; a winner is named exactly when no human has to look.
\* (No state plays a part: the start of a behaviour is enough to look at it.)
ResolutionIgnoresOrder ==
  stage = "extraction" => \A x \in Claims({1}, Versions), y \in Claims({2}, Versions) :
    LET r == Resolve(x, y) IN
    /\ r = Resolve(y, x)
    /\ r.human <=> r.winner = None
    /\ ~r.human => {r.winner, r.loser} = {1, 2}

\* See KnowledgeViews; looked at at the start of a behaviour, too.
RequirementsAreAnswered ==
  stage = "extraction" /\ batch.documents = <<>> =>
    /\ \A raw \in Raws : AnswersTheRequirement(raw, Candidates)
    /\ CollectionsAddUp(Collections)

Brought(key) == {r \in Runs : run[r].brought # <<>> /\ Key(run[r].artifact) = key}

Places(list, ref) == {i \in 1..Len(list) : list[i] = ref}

\* Each time a submission brought the reference for that content.
Bringing(key, ref) == UNION {{r} \X Places(run[r].brought, ref) : r \in Brought(key)}

\* gates.py:153, KNOWLEDGE_VALIDATION_SPEC.md, section 2: the store has every
\* content that came past duplicate detection with all the references its
\* submissions brought, each as often as they did, as long as no two runs were
\* in that gate at once.
SourcesAreNotLost ==
  ~overlapped =>
    \A key \in DOMAIN contents :
      \A ref \in ToSet(contents[key].refs) \cup UNION {ToSet(run[r].brought) : r \in Brought(key)} :
        Cardinality(Places(contents[key].refs, ref)) = Cardinality(Bringing(key, ref))

Tells(edge, artifact, link) ==
  /\ edge.rel = link.rel
  /\ \/ edge.source = artifact.id /\ edge.target = link.target
     \/ link.rel \in Symmetric /\ edge.source = link.target /\ edge.target = artifact.id

\* builder.py:58: every edge tells a link of a validated artifact, however the
\* projections before it ended; once project() has returned, all of its
\* artifact's links are there.
GraphTellsValidatedLinks ==
  /\ \A e \in edges : \E a \in Valid : \E link \in ToSet(a.links) : Tells(e, a, link)
  /\ \A a \in projected : \A link \in ToSet(a.links) : \E e \in edges : Tells(e, a, link)
==============================================================================
