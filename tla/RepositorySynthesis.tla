-------------------------- MODULE RepositorySynthesis -------------------------
(***************************************************************************)
(* synthesis/: what the files of an inventory state, read one by one under *)
(* one budget for its four extraction stages.  The files may have changed  *)
(* since the inventory was made.  What a text states is                    *)
(*   Parsed[text] = [parses, assigns, functions, name, requirements, ...]: *)
(* whether it is well-formed for its kind of file, its assignments [key,   *)
(* dict, keys, strings], its functions with their decorators, the name a   *)
(* DocType has, the requirements [name, constraint].  A dotted name is the *)
(* sequence of its parts.  A fact is [kind, sort, name, path, detail].     *)
(***************************************************************************)
EXTENDS RepositoryWalk

VARIABLES
  synthesis, \* [at, request, todo, remaining, truncated, expired, facts, unresolved]
  facts,     \* the RepositoryFacts
  examined   \* history: [path, type, text] of each file read, the error when it could not be

synthesizing == <<synthesis, facts, examined>>

\* The stages, each for the files of one type.
StageOf == [hook |-> 1, doctype |-> 2, python_source |-> 3, config |-> 4]

RelevantTypes == DOMAIN StageOf

\* What a text states is listed.
ASSUME ParsedAssumption ==
  \A text \in DOMAIN Parsed :
    /\ Len(Parsed[text].requirements) \in Nat
    /\ Parsed[text].functions \in Seq(ToSet(Parsed[text].functions))
    /\ Len(Parsed[text].assigns) \in Nat
    /\ \A i \in 1..Len(Parsed[text].assigns) :
         Len(Parsed[text].assigns[i].keys) \in Nat /\ Len(Parsed[text].assigns[i].strings) \in Nat

\* todo holds the places in the inventory of the files still to examine.
NotSynthesizing == [at |-> "none", request |-> None, todo |-> {}, remaining |-> 0, truncated |-> FALSE,
                    expired |-> FALSE, facts |-> <<>>, unresolved |-> <<>>]

SynthesisInit == synthesis = NotSynthesizing /\ facts = None /\ examined = <<>>

Fact(kind, sort, name, path, detail) ==
  [kind |-> kind, sort |-> sort, name |-> name, path |-> path, detail |-> detail]

Each(s, op(_)) == [i \in 1..Len(s) |-> op(s[i])]

\* partition_inventory, for the types some stage asks for.
TypeAt(place) == Classify(inventory.files[place])
Partition(type) == {place \in DOMAIN inventory.files : TypeAt(place) = type}

\* identify_modules: the packages below the root, and the top-level
\* directories with a hooks.py of their own.
IdentifyModules ==
  LET files(name) == {f \in ToSet(inventory.files) : TypeOf[Last(f)].file = name}
      packages == {Front(f) : f \in files("__init__.py")} \ {Root}
      apps == {Front(f) : f \in {g \in files("hooks.py") : Len(g) = 2 /\ g[1] \in inventory.metadata.top}}
  IN SetToSeq({Fact("module", "python_package", p, p, None) : p \in packages})
     \o SetToSeq({Fact("module", "frappe_app", p, p, None) : p \in apps})

(* The stages: what one file adds to the facts.                            *)

ConfigKeys == {"app_name", "app_title", "app_publisher", "app_description", "app_email", "app_license",
               "app_include_js", "app_include_css", "web_include_js", "web_include_css"}

HookFacts(path, assign) ==
  CASE assign.key = "scheduler_events" /\ assign.dict ->
         Each(assign.strings, LAMBDA s : Fact("service", "scheduled_task", s, path, assign.key))
    [] assign.key = "doc_events" /\ assign.dict ->
         Each(assign.strings, LAMBDA s : Fact("extension_point", "doc_event", s, path, None))
    [] assign.key = "override_whitelisted_methods" /\ assign.dict ->
         Each(assign.keys, LAMBDA k : Fact("extension_point", "override_whitelisted_method", k, path, None))
    [] assign.key \in ConfigKeys -> <<Fact("configuration", None, <<assign.key>>, path, None)>>
    [] OTHER -> <<>>

ExtractHooks(path, text) ==
  (IF TypeOf[Last(path)].file = "hooks.py" THEN <<Fact("entry_point", "frappe_app_entry", <<"hooks.py">>, path, None)>>
   ELSE <<>>)
  \o FlattenSeq(Each(Parsed[text].assigns, LAMBDA a : HookFacts(path, a)))

\* A DocType without a name is called after its file.
ExtractComponents(path, text) ==
  <<Fact("component", "doctype", IF Parsed[text].name = None THEN <<Last(path)>> ELSE <<Parsed[text].name>>, path, None)>>

IsWhitelistDecorator(decorator) == Last(decorator) = "whitelist"

ExtractApis(path, text) ==
  LET apis == SelectSeq(Parsed[text].functions, LAMBDA f : \E d \in f.decorators : IsWhitelistDecorator(d))
  IN Each(apis, LAMBDA f : Fact("api", "whitelisted_method", <<f.name>>, path, None))

ReadsDependencies(path) == TypeOf[Last(path)].file \in {"pyproject.toml", "package.json", "requirements.txt"}

\* Any other configuration file is read, and yields nothing.
ExtractDependencies(path, text) ==
  IF ReadsDependencies(path)
  THEN Each(Parsed[text].requirements, LAMBDA r : Fact("dependency", None, <<r.name>>, path, r.constraint))
  ELSE <<>>

Extract(type, path, text) ==
  CASE type = "hook" -> ExtractHooks(path, text)
    [] type = "doctype" -> ExtractComponents(path, text)
    [] type = "python_source" -> ExtractApis(path, text)
    [] type = "config" -> ExtractDependencies(path, text)

\* Only what is parsed can fail to: of the configuration files, two kinds.
Parses(type, path, text) ==
  Parsed[text].parses \/ (type = "config" /\ TypeOf[Last(path)].file \notin {"pyproject.toml", "package.json"})

(* synthesize_requirements                                                 *)

BeginSynthesis(request) ==
  /\ synthesis.at = "none" /\ inventory # None
  /\ synthesis' =
       [NotSynthesizing EXCEPT
          !.at = IF ConnectError = None THEN "extract" ELSE "failed",
          !.request = request,
          !.todo = UNION {Partition(type) : type \in RelevantTypes},
          !.remaining = request.maxFiles,
          !.facts = IdentifyModules]
  /\ UNCHANGED <<facts, examined>>

ExpireSynthesis ==
  /\ synthesis.at = "extract" /\ ~synthesis.expired
  /\ synthesis' = [synthesis EXCEPT !.expired = TRUE]
  /\ UNCHANGED <<facts, examined>>

\* Budget.consume fails.
Exhausted == synthesis.remaining = 0 \/ synthesis.expired

\* The next file: stage by stage, in the order of the inventory.
Todo ==
  CHOOSE place \in synthesis.todo : \A other \in synthesis.todo :
    \/ StageOf[TypeAt(place)] < StageOf[TypeAt(other)]
    \/ TypeAt(place) = TypeAt(other) /\ place <= other

OfThisStage == Partition(TypeAt(Todo))

\* mutant: a stage that finds nothing left to spend has done all it could
LeaveStage_Silent ==
  /\ synthesis.at = "extract" /\ synthesis.todo # {} /\ Exhausted
  /\ synthesis' = [synthesis EXCEPT !.todo = @ \ OfThisStage]
  /\ UNCHANGED <<facts, examined>>

\* The stage ends with its first file beyond the budget; so do the later ones.
LeaveStage ==
  /\ synthesis.at = "extract" /\ synthesis.todo # {} /\ Exhausted
  /\ synthesis' = [synthesis EXCEPT !.truncated = TRUE,
                                    !.todo = @ \ OfThisStage]
  /\ UNCHANGED <<facts, examined>>

\* A file that cannot be read or parsed is unresolved; one that is not UTF-8, or
\* a link that leaves the root, ends the run.
ExamineFile ==
  /\ synthesis.at = "extract" /\ synthesis.todo # {} /\ ~Exhausted
  /\ LET path == inventory.files[Todo]
         answer == Read(TRUE, "filesystem.read_text", path)
         rest == [synthesis EXCEPT !.remaining = @ - 1, !.todo = @ \ {Todo}]
         unresolved == Append(synthesis.unresolved, Fact("unresolved", None, None, path, None))
     IN /\ synthesis' =
             IF answer.error = None /\ Parses(TypeAt(Todo), path, answer.value)
             THEN [rest EXCEPT !.facts = @ \o Extract(TypeAt(Todo), path, answer.value)]
             ELSE IF answer.error \in OSErrors \cup {None} THEN [rest EXCEPT !.unresolved = unresolved]
             ELSE [rest EXCEPT !.at = "failed"]
        /\ examined' = Append(examined, [path |-> path, type |-> TypeAt(Todo),
                                         text |-> IF answer.error = None THEN answer.value ELSE answer.error])
  /\ UNCHANGED facts

Relevant == {f \in ToSet(inventory.files) : Classify(f) \in RelevantTypes}

AssembleFacts ==
  /\ synthesis.at = "extract" /\ synthesis.todo = {}
  /\ facts' = [all |-> synthesis.facts, unresolved |-> synthesis.unresolved, truncated |-> synthesis.truncated,
               statistics |-> [filesExamined |-> synthesis.request.maxFiles - synthesis.remaining,
                               filesSkipped |-> Len(inventory.files) - Cardinality(Relevant),
                               filesFailed |-> Len(synthesis.unresolved),
                               factsExtracted |-> Len(synthesis.facts)]]
  /\ synthesis' = [synthesis EXCEPT !.at = "done"]
  /\ UNCHANGED examined

SynthesisNext == ExpireSynthesis \/ LeaveStage \/ ExamineFile \/ AssembleFacts

------------------------------------------------------------------------------
(* Properties.                                                             *)

FactsOf(path) == {f \in ToSet(facts.all) : f.path = path /\ f.kind # "module"}

\* synthesis/engine.py:193-576: facts that are not truncated account for every
\* file of the inventory, which is examined exactly once or skipped for its
\* type; whatever changed since the inventory was made, what is said of a file
\* that stayed as it was is what that file states, or that it is unresolved,
\* and nothing is said of a file that was not examined.
FactsComeFromExaminedFiles ==
  facts # None =>
    LET files == {e.path : e \in ToSet(examined)}
    IN /\ facts.truncated => synthesis.expired \/ facts.statistics.filesExamined = synthesis.request.maxFiles
       /\ ~facts.truncated => /\ files = Relevant
                              /\ facts.statistics.filesExamined + facts.statistics.filesSkipped = Len(inventory.files)
       /\ Cardinality(files) = Len(examined)
       /\ {f.path : f \in {g \in ToSet(facts.all) : g.kind # "module"}} \subseteq files
       /\ \A e \in {x \in ToSet(examined) : x.path \in lasting} :
            IF Parses(e.type, e.path, disk[e.path])
            THEN FactsOf(e.path) = ToSet(Extract(e.type, e.path, disk[e.path]))
            ELSE FactsOf(e.path) = {} /\ \E u \in ToSet(facts.unresolved) : u.path = e.path
==============================================================================
