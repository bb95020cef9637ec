-------------------------- MODULE MC_KnowledgeFactory -------------------------
(* Small batches for the knowledge factory: documents that repeat a shape,   *)
(* say the same or contradict each other; hand-made artifacts whose links    *)
(* close a cycle or name an unknown type; conflicts of a batch.              *)
EXTENDS KnowledgeFactory, TLC

MCArtifacts == {"knowledge_api", "pattern", "example"} \X (1..3)

\* Clear, ambiguous at first, and ambiguous with two references only.
MCTrustScore ==
  [a \in MCArtifacts |-> CASE a = <<"example", 1>> -> 65 [] a = <<"pattern", 3>> -> 52 [] OTHER -> 95]
MCSourceOk == [a \in MCArtifacts |-> a # <<"example", 2>>]
MCTierOf == [a \in MCArtifacts |-> IF a = <<"knowledge_api", 2>> THEN 1 ELSE 3]

v14 == [number |-> 14, text |-> 1]
v15 == [number |-> 15, text |-> 2]
MCVersions == {v14, v15}

Content(identity, body) == [identity |-> identity, body |-> body, thirdParty |-> FALSE]
Shapes(pattern) == [pattern |-> pattern, anti_pattern |-> None]

Item(section, content, shape, wellFormed) ==
  [section |-> section, content |-> content, shapes |-> Shapes(shape), tags |-> {}, wellFormed |-> wellFormed]

Document(id, method, refs, items) ==
  [id |-> id, method |-> method, version |-> v15, inferred |-> FALSE, refs |-> refs, items |-> items]

guide == Document("guide", "official_documentation", <<"guide.md">>,
           <<Item("examples", Content("sum", "a"), "shape", TRUE)>>)
mirror == Document("mirror", "official_documentation", <<>>,
            <<Item("examples", Content("sum", "b"), "shape", TRUE)>>)
api == Document("api", "official_documentation", <<"api.md">>,
         <<Item("api_specs", Content("f", "old"), None, TRUE)>>)
copy == Document("copy", "official_documentation", <<"copy.md">>,
          <<Item("api_specs", Content("f", "old"), None, TRUE)>>)
code == Document("code", "source_code", <<"f.py">>, <<Item("whitelisted_methods", Content("f", "new"), None, TRUE)>>)
thread == Document("thread", "forum_reply", <<"post">>, <<Item("examples", Content("sum", "a"), None, TRUE)>>)
broken == Document("broken", "source_code", <<"g.py">>, <<Item("doctype_schemas", Content("g", "x"), None, FALSE)>>)

Given(id, content, version, tags, links) ==
  [id |-> id, kind |-> id[1], content |-> content, version |-> version, inferred |-> FALSE,
   refs |-> <<"note">>, method |-> "source_code", schema |-> TRUE, tags |-> tags,
   shapes |-> Shapes(None), links |-> links, provenance |-> {}, status |-> "draft", confidence |-> 0]

DependsOn(id) == [target |-> id, rel |-> "depends_on"]

a == <<"pattern", 1>>
b == <<"pattern", 2>>
c == <<"pattern", 3>>

Cycle ==
  <<Given(a, Content("a", "x"), None, {}, <<[target |-> c, rel |-> "related_to"], DependsOn(b)>>),
    Given(b, Content("b", "x"), None, {}, <<DependsOn(c)>>),
    Given(c, Content("c", "x"), None, {}, <<DependsOn(a), [target |-> <<"rule", 1>>, rel |-> "implements"]>>)>>

\* Two versions of one claim, and one that contradicts a stable rule.
Claimed ==
  <<Given(a, Content("a", "x"), v14, {}, <<>>),
    Given(b, Content("a", "y"), v15, {}, <<>>),
    Given(c, Content("a", "z"), v15, {"contradicts-stable-rule"}, <<>>)>>

Batch(documents, given, conflicts) == [documents |-> documents, given |-> given, conflicts |-> conflicts]

MCBatches ==
  {Batch(<<guide, mirror>>, <<>>, <<>>), Batch(<<api, code, copy>>, <<>>, <<>>),
   Batch(<<thread, broken>>, <<>>, <<>>), Batch(<<>>, Cycle, <<>>),
   Batch(<<>>, Claimed, <<<<a, b>>, <<a, c>>, <<a, <<"example", 3>>>>>>)}

(* Requirements of at most two entities and a process, one raw DocType and a *)
(* workflow to compare them with, and two collections.                       *)

Texts == {{"sales"}, {"sales", "order"}, {"stock"}}
NoMentions == [k \in ToSet(Kinds) |-> <<>>]
Mention(text) == [text |-> text, steps |-> <<>>, actors |-> <<>>]
Process(text) == [text |-> text, steps |-> <<"draft", "submit">>, actors |-> <<{"clerk"}>>]

MCRaws ==
  {[id |-> "req", mentions |-> [NoMentions EXCEPT !["entity"] = [i \in 1..Len(names) |-> Mention(names[i])],
                                                  !["process"] = <<Process(name)>>,
                                                  !["actor"] = <<Mention({"clerk"})>>]] :
     names \in SeqOf(Texts, 2), name \in Texts}

MCDocType == [name |-> {"sales", "order"}, fields |-> <<[label |-> {}, name |-> {"qty"}]>>]
MCWorkflow == [name |-> {"stock", "approval"}, allowed |-> <<{"clerk"}, {}, {"clerk"}>>, states |-> <<"open">>]

MCCandidates ==
  [NoMentions EXCEPT !["entity"] = <<ExtractDoctype(MCDocType)>>, !["process"] = <<ExtractWorkflow(MCWorkflow)>>]

MCCollections ==
  <<[id |-> "patterns", artifacts |-> Cycle, references |-> <<>>, nodes |-> <<>>, edges |-> <<>>],
    [id |-> "claims", artifacts |-> Claimed, references |-> <<>>, nodes |-> <<>>, edges |-> <<>>]>>

RunSymmetry == Permutations(Runs)
==============================================================================
