-------------------------------- MODULE Analysis ------------------------------
(***************************************************************************)
(* analysis/: the facts a structured requirement states, those ERPNext     *)
(* metadata states, how similar they are and which requirement facts have  *)
(* no counterpart.  A text is the set of its words, lower case and without *)
(* punctuation.  A raw requirement is [id, mentions]: mentions[k] lists    *)
(* the mentions [text, steps, actors] of the facts of kind k.  A fact is   *)
(*   [id, text, attributes, steps, actors].                                *)
(***************************************************************************)
EXTENDS Naturals, Sequences, SequencesExt, FiniteSets

Kinds == <<"entity", "process", "actor", "rule", "constraint">>

Fact(id, text, attributes, steps, actors) ==
  [id |-> id, text |-> text, attributes |-> attributes, steps |-> steps, actors |-> actors]

(* requirements/analyzer.py: entities, processes and actors are known by   *)
(* their names, rules and constraints by their place.                      *)

MentionId(raw, kind, i) ==
  IF kind \in {"rule", "constraint"} THEN <<raw.id, kind, i - 1>>
  ELSE <<raw.id, kind, raw.mentions[kind][i].text>>

ActorIds(raw, actors) == [i \in 1..Len(actors) |-> <<raw.id, "actor", actors[i]>>]

AnalyzeMentions(raw, kind) ==
  [i \in 1..Len(raw.mentions[kind]) |->
     LET m == raw.mentions[kind][i]
     IN Fact(MentionId(raw, kind, i), m.text, <<>>,
             IF kind = "process" THEN m.steps ELSE <<>>,
             IF kind = "process" THEN ActorIds(raw, m.actors) ELSE <<>>)]

BuildAnalysisResult(raw) ==
  [id |-> <<"analysis", raw.id>>, requirement |-> raw.id,
   facts |-> [k \in ToSet(Kinds) |-> AnalyzeMentions(raw, k)],
   similarity |-> <<>>, gaps |-> <<>>]

(* erpnext/extractor.py                                                    *)

ExtractFields(fields) ==
  [i \in 1..Len(fields) |-> IF fields[i].label # {} THEN fields[i].label ELSE fields[i].name]

ExtractModule(raw) == Fact(<<"module", raw.name>>, raw.name, raw.doctypes, <<>>, <<>>)
ExtractDoctype(raw) == Fact(<<"doctype", raw.name>>, raw.name, ExtractFields(raw.fields), <<>>, <<>>)
ExtractWorkspace(raw) == Fact(<<"workspace", raw.name>>, raw.name, raw.links, <<>>, <<>>)
ExtractReport(raw) == Fact(<<"report", raw.name>>, raw.name, raw.columns, <<>>, <<>>)

Distinct(s) == SelectSeq([i \in 1..Len(s) |-> [at |-> i, value |-> s[i]]],
                         LAMBDA e : \A j \in 1..(e.at - 1) : s[j] # e.value)

\* The roles allowed to take some transition, each once, in order.
ExtractWorkflow(raw) ==
  LET roles == Distinct(SelectSeq(raw.allowed, LAMBDA role : role # {}))
  IN Fact(<<"workflow", raw.name>>, raw.name, <<>>, raw.states,
          [i \in 1..Len(roles) |-> roles[i].value])

ExtractClientScript(raw) ==
  Fact(<<"client_script", raw.name>>, raw.name \cup {"client", "script", "on", "doctype", "view"}, <<>>, <<>>, <<>>)
ExtractServerScript(raw) ==
  Fact(<<"server_script", raw.name>>, raw.name \cup {"server", "script", "on", "doctype", "event"}, <<>>, <<>>, <<>>)

(* similarity/comparator.py: the Jaccard similarity, as a fraction.        *)

Jaccard(s, t) ==
  IF s \cup t = {} THEN <<0, 1>> ELSE <<Cardinality(s \cap t), Cardinality(s \cup t)>>

Above(p, q) == p[1] * q[2] > q[1] * p[2]

\* Every subject with every candidate.
ComparePairs(subjects, candidates) ==
  FlattenSeq([i \in 1..Len(subjects) |->
    [j \in 1..Len(candidates) |->
      [subject |-> subjects[i].id, candidate |-> candidates[j].id,
       score |-> Jaccard(subjects[i].text, candidates[j].text)]]])

Better(best, r) == Above(r.score, IF r.subject \in DOMAIN best THEN best[r.subject] ELSE <<0, 1>>)

ScoreSeen(best, r) ==
  IF Better(best, r)
  THEN [s \in DOMAIN best \cup {r.subject} |-> IF s = r.subject THEN r.score ELSE best[s]]
  ELSE best

\* The best score seen of each subject, kept by id; no entry is a zero.
BestScores(results) ==
  LET best[n \in 0..Len(results)] == IF n = 0 THEN <<>> ELSE ScoreSeen(best[n - 1], results[n])
  IN best[Len(results)]

GapsFor(subjects, results) ==
  LET best == BestScores(results)
  IN FlattenSeq([i \in 1..Len(subjects) |-> IF subjects[i].id \in DOMAIN best THEN <<>> ELSE <<subjects[i].id>>])

CompareKind_Actors(analysis, candidates, kind) == \* mutant: compared with the actors' candidates
  ComparePairs(analysis.facts[kind], candidates["actor"])

CompareKind(analysis, candidates, kind) == ComparePairs(analysis.facts[kind], candidates[kind])

\* compare_analysis_result: each kind with its own kind of candidates.
CompareAnalysisResult(analysis, candidates) ==
  [analysis EXCEPT
     !.similarity = FlattenSeq([i \in 1..5 |-> CompareKind(analysis, candidates, Kinds[i])]),
     !.gaps = FlattenSeq([i \in 1..5 |-> GapsFor(analysis.facts[Kinds[i]], CompareKind(analysis, candidates, Kinds[i]))])]
==============================================================================
