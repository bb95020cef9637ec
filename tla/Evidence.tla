-------------------------------- MODULE Evidence -------------------------------
(***************************************************************************)
(* evidence/: the classes, their bases, the lifecycle hooks and the        *)
(* decorators of whitelisted functions that the Python files of one        *)
(* repository state, read file by file after a walk without exclusions.    *)
(* Of a text, Parsed tells also its classes [name, bases, methods, line]   *)
(* and of its functions [name, owner, decorators, line] the class they are *)
(* in and their decorators.  A record is [category, symbol, subject,       *)
(* path, line]; a symbol is the sequence of its parts.                     *)
(***************************************************************************)
EXTENDS RepositoryWalk

\* The classes and functions of a text are listed, what is said of each is finite,
\* and a class has a name.
ASSUME CodeAssumption ==
  \A text \in DOMAIN Parsed :
    LET code == Parsed[text] IN
    /\ code.classes \in Seq(ToSet(code.classes)) /\ code.functions \in Seq(ToSet(code.functions))
    /\ \A c \in ToSet(code.classes) : c.name # None /\ IsFiniteSet(c.bases)
    /\ \A f \in ToSet(code.functions) : IsFiniteSet(f.decorators)

VARIABLES
  extraction, \* [at, repository, todo, evidence, errors, skipped]
  evidenceSet

extracting == <<extraction, evidenceSet>>

ExtractionInit ==
  /\ extraction = [at |-> "none", repository |-> None, todo |-> <<>>, evidence |-> {}, errors |-> {}, skipped |-> 0]
  /\ evidenceSet = None

LifecycleHookNames ==
  {"validate", "before_insert", "before_save", "after_insert", "on_update", "before_submit", "on_submit",
   "on_cancel", "on_trash", "after_delete", "on_update_after_submit"}

EvidenceOf(category, symbol, subject, path, line) ==
  [category |-> category, symbol |-> symbol, subject |-> subject, path |-> path, line |-> line]

\* _module_dotted_name; the suffix of a name is left on.
ModuleName(path) == IF Last(path) = "__init__.py" THEN Front(path) ELSE path

QualifiedSymbol(path, class, function) ==
  IF class = None THEN Append(ModuleName(path), function) ELSE ModuleName(path) \o <<class, function>>

QualifiedClassSymbol(path, class) == Append(ModuleName(path), class)

IsWhitelist(decorator) == Last(decorator) = "whitelist"

ControllerLifecycleHooks(path, code) ==
  UNION {{EvidenceOf("controller_lifecycle_hook", QualifiedSymbol(path, c.name, method), <<method>>, path, c.line) :
            method \in c.methods \cap LifecycleHookNames} : c \in ToSet(code.classes)}

\* Every decorator of a function of which one is a whitelist.
WhitelistedApiDecorations(path, code) ==
  UNION {{EvidenceOf("whitelisted_api_decoration", QualifiedSymbol(path, f.owner, f.name), d, path, f.line) :
            d \in f.decorators} :
           f \in {g \in ToSet(code.functions) : \E d \in g.decorators : IsWhitelist(d)}}

ClassDefinitions(path, code) ==
  {EvidenceOf("class_definition", QualifiedClassSymbol(path, c.name), <<c.name>>, path, c.line) : c \in ToSet(code.classes)}
  \cup UNION {{EvidenceOf("class_base_declaration", QualifiedClassSymbol(path, c.name), base, path, c.line) :
                 base \in c.bases} : c \in ToSet(code.classes)}

CollectFromText(path, text) ==
  LET code == Parsed[text]
  IN ControllerLifecycleHooks(path, code) \cup WhitelistedApiDecorations(path, code) \cup ClassDefinitions(path, code)

BeginExtraction(repository) ==
  /\ extraction.at = "none" /\ walk.at = "walked" /\ ~ForDiscovery
  /\ extraction' = [extraction EXCEPT !.at = "collect", !.repository = repository, !.todo = walk.files]
  /\ UNCHANGED evidenceSet

NextFile == Head(extraction.todo)

SkipFile ==
  /\ extraction.at = "collect" /\ extraction.todo # <<>> /\ TypeOf[Last(NextFile)].suffix # "py"
  /\ extraction' = [extraction EXCEPT !.todo = Tail(@), !.skipped = @ + 1]
  /\ UNCHANGED evidenceSet

\* _collect_from_file.  What is not UTF-8 is no OSError, and ends the extraction.
CollectFromFile ==
  /\ extraction.at = "collect" /\ extraction.todo # <<>> /\ TypeOf[Last(NextFile)].suffix = "py"
  /\ LET answer == Read(TRUE, "filesystem.read_text", NextFile)
         rest == [extraction EXCEPT !.todo = Tail(@)]
     IN extraction' =
          IF answer.error = None /\ Parsed[answer.value].parses
          THEN [rest EXCEPT !.evidence = @ \cup CollectFromText(NextFile, answer.value)]
          ELSE IF answer.error \in OSErrors \cup {None} THEN [rest EXCEPT !.errors = @ \cup {NextFile}]
          ELSE [rest EXCEPT !.at = "failed"]
  /\ UNCHANGED evidenceSet

OneMore(list, S) == Append(list, CHOOSE x \in S : x \notin ToSet(list))

\* The EvidenceSet of a repository: its records in an order, which no reader of
\* them depends on.
EvidenceSetOf(repository, evidence, errors, truncated) ==
  LET list[n \in 0..Cardinality(evidence)] == IF n = 0 THEN <<>> ELSE OneMore(list[n - 1], evidence)
  IN [repository |-> repository, evidence |-> list[Cardinality(evidence)], errors |-> errors, truncated |-> truncated]

AssembleEvidence ==
  /\ extraction.at = "collect" /\ extraction.todo = <<>>
  /\ evidenceSet' = EvidenceSetOf(extraction.repository, extraction.evidence, extraction.errors, walk.truncated)
  /\ extraction' = [extraction EXCEPT !.at = "done"]

ExtractionNext == SkipFile \/ CollectFromFile \/ AssembleEvidence
==============================================================================
