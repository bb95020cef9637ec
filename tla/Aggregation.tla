------------------------------ MODULE Aggregation ------------------------------
(***************************************************************************)
(* aggregation/: the patterns of one repository's evidence.  The classes   *)
(* that descend from Document are found through the evidence of other      *)
(* repositories too, those that its admission requires at least; a pattern *)
(* tells how many symbols have a subject, of a population.  Aggregate is   *)
(* a function of its input: what it raises, or the pattern set.            *)
(***************************************************************************)
EXTENDS Evidence

CONSTANT RequiredSupporting \* REPOSITORY_ADMISSIONS: repository -> the repositories its closure needs

\* What is raised is told from nothing raised.
ASSUME RaisedAssumption == None \notin {"ValidationError", "AggregationError"}

DocumentName == "Document"

StructuralCategories == {"class_definition", "class_base_declaration"}

\* POPULATION_BASES, POPULATION_RESOLVERS: the categories there is a population for.
MeasuredCategories == {"controller_lifecycle_hook", "whitelisted_api_decoration"}

WhitelistFamily == {<<"frappe", "whitelist">>, <<"whitelist">>}

Records(corpus, category) == {r \in ToSet(corpus.evidence) : r.category = category}

(* AggregationRequest and admission: what is refused.                      *)

AmbiguousCorpora(measured, supporting) ==
  \/ \E i \in DOMAIN supporting : supporting[i].repository = measured.repository
  \/ \E i, j \in DOMAIN supporting : i # j /\ supporting[i].repository = supporting[j].repository

Supplied(supporting) == {supporting[i].repository : i \in DOMAIN supporting}

\* mutant: nothing is required of whoever asks
MissingRequiredSupport_None(repository, supplied) == {}

MissingRequiredSupport(repository, supplied) == RequiredSupporting[repository] \ supplied

(* resolve_descent: breadth first from the root, by the last part of names *)

FinalSegment(name) == Last(name)

Definitions(corpora) == UNION {Records(c, "class_definition") : c \in corpora}
Declarations(corpora) == UNION {Records(c, "class_base_declaration") : c \in corpora}

\* declared_by: the classes with a base of that name.
DeclaredBy(corpora, name) == {d.symbol : d \in {e \in Declarations(corpora) : FinalSegment(e.subject) = name}}

\* One level down from the frontier: the classes that have one of its classes as a base.
NewlyReached(corpora, frontier) ==
  UNION {DeclaredBy(corpora, d.subject[1]) : d \in {e \in Definitions(corpora) : e.symbol \in frontier}}

OneLevel(corpora, walked) ==
  [reached |-> walked.reached \cup walked.frontier,
   frontier |-> NewlyReached(corpora, walked.frontier) \ (walked.reached \cup walked.frontier)]

\* The frontiers, as many as there are declarations: from one on they are empty.
DescendantSymbols(corpora) ==
  LET depths == Cardinality(Declarations(corpora))
      walked[depth \in 0..depths] ==
        IF depth = 0 THEN [reached |-> {}, frontier |-> DeclaredBy(corpora, DocumentName)]
        ELSE OneLevel(corpora, walked[depth - 1])
  IN walked[depths].reached

ResolveDescent(measured, supporting) ==
  LET corpora == {measured} \cup ToSet(supporting)
      named == {d.subject[1] : d \in Definitions(corpora)} \cup {DocumentName}
  IN [descendants |-> DescendantSymbols(corpora) \cap {d.symbol : d \in Definitions({measured})},
      unresolved |-> {d.subject : d \in {e \in Declarations({measured}) : FinalSegment(e.subject) \notin named}}]

(* _aggregate_category                                                     *)

Population(category, records, descent) ==
  IF category = "controller_lifecycle_hook" THEN descent.descendants
  ELSE {r.symbol : r \in {q \in records : q.subject \in WhitelistFamily}}

OwningClass(symbol) == Front(symbol)

\* OCCURRENCE_FILTERS: only hooks of the population count.
CountableRecords(category, records, descent) ==
  IF category = "controller_lifecycle_hook"
  THEN {r \in records : OwningClass(r.symbol) \in descent.descendants}
  ELSE records

\* A pattern keeps the symbols its support was counted from, as their evidence ids do.
AggregateCategory(category, records, descent, minOccurrences) ==
  LET population == Population(category, records, descent)
      countable == CountableRecords(category, records, descent)
      symbols(subject) == {r.symbol : r \in {q \in countable : q.subject = subject}}
      subjects == {r.subject : r \in countable}
      frequent == {s \in subjects : Cardinality(symbols(s)) >= minOccurrences}
  IN IF category \notin MeasuredCategories \/ population = {}
     THEN [skipped |-> TRUE, patterns |-> {}, below |-> {}]
     ELSE [skipped |-> FALSE,
           patterns |-> {[category |-> category, subject |-> s, symbols |-> symbols(s),
                          population |-> Cardinality(population)] : s \in frequent},
           below |-> {[category |-> category, subject |-> s] : s \in subjects \ frequent}]

\* Pattern: its support is at most 1.
ValidPattern(pattern) == Cardinality(pattern.symbols) <= pattern.population

(* aggregate_patterns                                                      *)

Provenance(measured, supporting, descent, aggregated) ==
  IF "controller_lifecycle_hook" \notin aggregated THEN None
  ELSE [measured |-> measured.repository, supporting |-> Supplied(supporting),
        strategy |-> IF supporting = <<>> THEN "single_corpus" ELSE "multi_corpus",
        unresolved |-> Cardinality(descent.unresolved)]

PatternSetOf(measured, supporting, minOccurrences) ==
  LET descent == ResolveDescent(measured, supporting)
      present == {r.category : r \in ToSet(measured.evidence)} \ StructuralCategories
      result == [c \in present |-> AggregateCategory(c, Records(measured, c), descent, minOccurrences)]
      skipped == {c \in present : result[c].skipped}
  IN [repository |-> measured.repository,
      patterns |-> UNION {result[c].patterns : c \in present},
      below |-> UNION {result[c].below : c \in present},
      skipped |-> skipped,
      provenance |-> Provenance(measured, supporting, descent, present \ skipped)]

Aggregate(measured, supporting, minOccurrences) ==
  IF AmbiguousCorpora(measured, supporting) THEN Raise("ValidationError")
  ELSE IF MissingRequiredSupport(measured.repository, Supplied(supporting)) # {} THEN Raise("AggregationError")
  ELSE LET made == PatternSetOf(measured, supporting, minOccurrences)
       IN IF \A p \in made.patterns : ValidPattern(p) THEN Ok(made) ELSE Raise("ValidationError")
==============================================================================
