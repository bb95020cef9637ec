-------------------------- MODULE KnowledgeExtraction -------------------------
(***************************************************************************)
(* knowledge/extraction: what a knowledge document yields, and the shapes  *)
(* that recur in what several of them yielded.  A document is              *)
(*   [id, method, version, inferred, refs, items],                         *)
(* an item of its structural metadata, in the order the rule reads them,   *)
(*   [section, content, shapes, tags, wellFormed],                         *)
(* where shapes tells the shape a tag makes it a candidate for, as a       *)
(* pattern and as an anti-pattern, or None.                                *)
(***************************************************************************)
EXTENDS KnowledgeArtifacts, FiniteSets

\* The sections the rule of a method reads.
Sections(method) ==
  CASE method = "official_documentation" -> {"api_specs", "procedures", "examples"}
    [] method = "source_code" -> {"doctype_schemas", "whitelisted_methods"}
    [] OTHER -> {}

KindOfSection(section) ==
  CASE section = "procedures" -> "workflow" [] section = "examples" -> "example" [] OTHER -> "knowledge_api"

(* IdAllocator: one counter per kind.                                      *)

NoIds == [k \in ContentKinds |-> 0]
NextId(ids, kind) == <<kind, ids[kind] + 1>>
Take(ids, kind) == [ids EXCEPT ![kind] = @ + 1]

\* The first reference of the document stands for the source of every item;
\* without one an "unknown" source does.
SourceReference(document) == IF document.refs = <<>> THEN "unknown" ELSE document.refs[1]

Artifact(id, document, item) ==
  [id |-> id, kind |-> id[1], content |-> item.content,
   version |-> document.version, inferred |-> document.inferred,
   refs |-> <<SourceReference(document)>>, method |-> document.method, schema |-> TRUE,
   tags |-> IF id[1] = "example" THEN item.tags ELSE {},
   shapes |-> IF id[1] = "example" THEN item.shapes ELSE [pattern |-> None, anti_pattern |-> None],
   links |-> <<>>, provenance |-> {document.id}, status |-> "draft", confidence |-> 0]

\* One item: its id is taken before its fields are read, which may raise.
ExtractItem(result, document, item) ==
  IF result.raised \/ item.section \notin Sections(document.method) THEN result
  ELSE LET kind == KindOfSection(item.section)
       IN [ids |-> Take(result.ids, kind),
           artifacts |-> Append(result.artifacts, Artifact(NextId(result.ids, kind), document, item)),
           raised |-> ~item.wellFormed]

Extract(document, ids) ==
  LET upTo[n \in 0..Len(document.items)] ==
        IF n = 0 THEN [ids |-> ids, artifacts |-> <<>>, raised |-> FALSE]
        ELSE ExtractItem(upTo[n - 1], document, document.items[n])
  IN upTo[Len(document.items)]

(* Pattern extraction.                                                     *)

ShapeKey(artifact, kind) == artifact.shapes[kind]

\* An artifact joins the group of its shape, or starts it.
Join(groups, artifact, shape) ==
  IF shape = None THEN groups
  ELSE IF \E i \in 1..Len(groups) : groups[i].shape = shape
       THEN [i \in 1..Len(groups) |->
               IF groups[i].shape = shape THEN [groups[i] EXCEPT !.members = Append(@, artifact)] ELSE groups[i]]
       ELSE Append(groups, [shape |-> shape, members |-> <<artifact>>])

\* The groups, in the order their shapes first occur.
Groups(artifacts, kind) ==
  LET upTo[n \in 0..Len(artifacts)] ==
        IF n = 0 THEN <<>> ELSE Join(upTo[n - 1], artifacts[n], ShapeKey(artifacts[n], kind))
  IN upTo[Len(artifacts)]

IndependentSources(group) == UNION {group[i].provenance : i \in 1..Len(group)}

AllRefs(group) ==
  LET upTo[n \in 0..Len(group)] == IF n = 0 THEN <<>> ELSE upTo[n - 1] \o group[n].refs
  IN upTo[Len(group)]

Recurs(group) == Len(group) >= 2 /\ Cardinality(IndependentSources(group)) >= 2

\* What is hashed tells the size of the group, too.
BuildPattern(id, shape, group) ==
  [group[1] EXCEPT
     !.id = id, !.kind = id[1],
     !.content = [identity |-> shape, body |-> <<shape, Len(group)>>, thirdParty |-> FALSE],
     !.refs = AllRefs(group),
     !.method = "pattern_extraction", !.tags = {},
     !.shapes = [pattern |-> None, anti_pattern |-> None],
     !.links = [i \in 1..Len(group) |-> [target |-> group[i].id, rel |-> "references"]],
     !.provenance = {}, !.status = "draft", !.confidence = 0]

PromoteGroup(result, kind, group) ==
  IF Recurs(group.members)
  THEN [ids |-> Take(result.ids, kind),
        artifacts |-> Append(result.artifacts, BuildPattern(NextId(result.ids, kind), group.shape, group.members))]
  ELSE result

\* _promote_recurring_shapes.
Promote(artifacts, kind, ids) ==
  LET groups == Groups(artifacts, kind)
      upTo[n \in 0..Len(groups)] ==
        IF n = 0 THEN [ids |-> ids, artifacts |-> <<>>] ELSE PromoteGroup(upTo[n - 1], kind, groups[n])
  IN upTo[Len(groups)]

\* Patterns, and then anti-patterns, are promoted from the same artifacts.
ExtractPatterns(artifacts, ids) ==
  LET patterns == Promote(artifacts, "pattern", ids)
      antiPatterns == Promote(artifacts, "anti_pattern", patterns.ids)
  IN [ids |-> antiPatterns.ids, artifacts |-> artifacts \o patterns.artifacts \o antiPatterns.artifacts]
==============================================================================
