----------------------------- MODULE KnowledgeViews ---------------------------
(***************************************************************************)
(* From an analysis result (see Analysis) to what can be asked of it:      *)
(* knowledge/builder makes a snapshot, knowledge/projection adds nodes and *)
(* edges, and knowledge/query reads it.  A snapshot is a sequence of       *)
(* collections [id, artifacts, references, nodes, edges].                  *)
(***************************************************************************)
EXTENDS KnowledgeArtifacts, Analysis

(* builder.py: the kinds of the analysis are the subject kinds.            *)

SubjectKinds == <<"entity", "process", "rule", "constraint", "actor">>

References(analysis, kind) ==
  [i \in 1..Len(analysis.facts[kind]) |->
     [analysis |-> analysis.id, subject |-> analysis.facts[kind][i].id, kind |-> kind]]

\* One workflow per process, its steps numbered from zero.
WorkflowOf(process) ==
  [id |-> <<"workflow", process.id>>, kind |-> "workflow", links |-> <<>>,
   steps |-> [i \in 1..Len(process.steps) |-> [order |-> i - 1, description |-> process.steps[i]]]]

Workflows(analysis) ==
  [i \in 1..Len(analysis.facts["process"]) |-> WorkflowOf(analysis.facts["process"][i])]

AllReferences(analysis) ==
  FlattenSeq([i \in 1..Len(SubjectKinds) |-> References(analysis, SubjectKinds[i])])

BuildCollection(analysis) ==
  [id |-> <<"collection", analysis.id>>,
   artifacts |-> Workflows(analysis), references |-> AllReferences(analysis),
   nodes |-> <<>>, edges |-> <<>>]

BuildSnapshot(analysis) == <<BuildCollection(analysis)>>

(* projector.py: node ids are made of artifact ids, so a target needs no   *)
(* node of its own.                                                        *)

NodeOf(artifact) == [node |-> <<"KG", artifact.id>>, wraps |-> artifact.id, kind |-> artifact.kind]

EdgesOf(artifact) ==
  [i \in 1..Len(artifact.links) |->
     [source |-> <<"KG", artifact.id>>, rel |-> artifact.links[i].rel,
      target |-> <<"KG", artifact.links[i].target>>]]

ProjectCollection(collection) ==
  [collection EXCEPT
     !.nodes = [i \in 1..Len(collection.artifacts) |-> NodeOf(collection.artifacts[i])],
     !.edges = FlattenSeq([i \in 1..Len(collection.artifacts) |-> EdgesOf(collection.artifacts[i])])]

ProjectSnapshot(snapshot) == [i \in 1..Len(snapshot) |-> ProjectCollection(snapshot[i])]

(* query/service.py                                                        *)

\* Nothing, or the first that is asked for.
First(list, test(_)) ==
  LET place == SelectInSeq(list, test)
  IN IF place = 0 THEN <<>> ELSE <<list[place]>>

FindCollection(snapshot, id) == First(snapshot, LAMBDA c : c.id = id)

\* All collections, or the one asked for.
Selected(snapshot, id) == IF id = None THEN snapshot ELSE FindCollection(snapshot, id)

ListArtifacts(snapshot, id) ==
  FlattenSeq([i \in 1..Len(Selected(snapshot, id)) |-> Selected(snapshot, id)[i].artifacts])

ListNodes(snapshot, id) ==
  FlattenSeq([i \in 1..Len(Selected(snapshot, id)) |-> Selected(snapshot, id)[i].nodes])

ListEdges(snapshot, id) ==
  FlattenSeq([i \in 1..Len(Selected(snapshot, id)) |-> Selected(snapshot, id)[i].edges])

FindArtifact(snapshot, id) == First(ListArtifacts(snapshot, None), LAMBDA a : a.id = id)
FindNode(snapshot, node) == First(ListNodes(snapshot, None), LAMBDA n : n.node = node)

\* Every filter but None narrows the answer; another kind than the five raises.
Matches(r, analysis, subject, kind) ==
  /\ analysis \in {None, r.analysis}
  /\ subject \in {None, r.subject}
  /\ kind \in {None, r.kind}

ListReferences(snapshot, id, analysis, subject, kind) ==
  LET all == FlattenSeq([i \in 1..Len(Selected(snapshot, id)) |-> Selected(snapshot, id)[i].references])
  IN FlattenSeq([i \in 1..Len(all) |-> IF Matches(all[i], analysis, subject, kind) THEN <<all[i]>> ELSE <<>>])

CountsByKind(artifacts) ==
  [k \in {artifacts[i].kind : i \in 1..Len(artifacts)} |->
     Cardinality({i \in 1..Len(artifacts) : artifacts[i].kind = k})]

StatisticsOf(c) ==
  [id |-> c.id, artifacts |-> Len(c.artifacts), nodes |-> Len(c.nodes), edges |-> Len(c.edges),
   byKind |-> CountsByKind(c.artifacts)]

Statistics(snapshot, id) ==
  LET found == FindCollection(snapshot, id)
  IN [i \in 1..Len(found) |-> StatisticsOf(found[i])]

ListStatistics(snapshot) == FlattenSeq([i \in 1..Len(snapshot) |-> Statistics(snapshot, snapshot[i].id)])

------------------------------------------------------------------------------
(* Properties.                                                             *)

Named(facts) == \A i, j \in 1..Len(facts) : facts[i].id = facts[j].id => i = j

\* What a requirement states can be asked for: as long as no two entities,
\* processes or actors share a name, every fact has exactly one reference,
\* found by its kind and id, and every process has a workflow with its steps
\* in order, and a node.  A gap is reported for exactly the facts that share
\* no word with any candidate of their kind.
AnswersTheRequirement(raw, candidates) ==
  LET analysis == CompareAnalysisResult(BuildAnalysisResult(raw), candidates)
      snapshot == ProjectSnapshot(BuildSnapshot(analysis))
  IN /\ \A k \in ToSet(SubjectKinds) : \A fact \in ToSet(analysis.facts[k]) :
          /\ Named(analysis.facts[k]) => Len(ListReferences(snapshot, None, analysis.id, fact.id, k)) = 1
          /\ fact.id \in ToSet(analysis.gaps) <=> \A c \in ToSet(candidates[k]) : c.text \cap fact.text = {}
     /\ Named(analysis.facts["process"]) => \A p \in ToSet(analysis.facts["process"]) :
          LET workflow == FindArtifact(snapshot, <<"workflow", p.id>>)[1] IN
          /\ [i \in 1..Len(workflow.steps) |-> workflow.steps[i].description] = p.steps
          /\ FindNode(snapshot, <<"KG", workflow.id>>)[1].wraps = workflow.id

\* Over several collections with ids of their own, what is listed for all of
\* them is what is listed for each, and the statistics count it.
CollectionsAddUp(collections) ==
  LET snapshot == ProjectSnapshot(collections)
      each(list(_, _)) == [i \in 1..Len(snapshot) |-> list(snapshot, snapshot[i].id)]
  IN /\ Len(ListNodes(snapshot, None)) = Len(ListArtifacts(snapshot, None))
     /\ ListArtifacts(snapshot, None) = FlattenSeq(each(ListArtifacts))
     /\ ListEdges(snapshot, None) = FlattenSeq(each(ListEdges))
     /\ Len(ListStatistics(snapshot)) = Len(snapshot)
     /\ \A i \in 1..Len(snapshot) :
          LET s == ListStatistics(snapshot)[i] IN
          /\ s.artifacts = Len(ListArtifacts(snapshot, snapshot[i].id))
          /\ s.nodes = s.artifacts /\ s.edges = Len(ListEdges(snapshot, snapshot[i].id))
          /\ \A k \in DOMAIN s.byKind : s.byKind[k] > 0
==============================================================================
