-------------------------- MODULE MC_EvidencePlatform --------------------------
(* Instances of EvidencePlatform: a small application as a tree of files,   *)
(* connectors that work and that do not, findings that share modules in     *)
(* every way, and three repositories whose classes extend each other's.     *)
EXTENDS EvidencePlatform

CONSTANTS c1, c2

MC_Callers == {c1, c2}

------------------------------------------------------------------------------
(* Names and texts.                                                         *)

Sorted == <<"__init__.py", "acme", "api.py", "doctype", "hooks.py", "item.json", "new.py",
            "requirements.txt", "tests", "vault">>

MC_NameOrder == [name \in ToSet(Sorted) |-> CHOOSE i \in DOMAIN Sorted : Sorted[i] = name]

PlainName == [file |-> "other", test |-> FALSE, suffix |-> "", config |-> FALSE, readme |-> FALSE]

PythonName(file) == [PlainName EXCEPT !.file = file, !.suffix = "py"]

MC_TypeOf ==
  [name \in DOMAIN MC_NameOrder |->
     CASE name \in {"__init__.py", "hooks.py"} -> PythonName(name)
       [] name \in {"api.py", "new.py"} -> PythonName("other")
       [] name = "item.json" -> [PlainName EXCEPT !.suffix = "json"]
       [] name = "requirements.txt" -> [PlainName EXCEPT !.file = name, !.config = TRUE]
       [] OTHER -> PlainName]
  @@ ("document.py" :> PythonName("other"))

Code == [parses |-> TRUE, assigns |-> <<>>, functions |-> <<>>, classes |-> <<>>, name |-> None, requirements |-> <<>>]

Assign(key, keys, strings) == [key |-> key, dict |-> keys # <<>> \/ strings # <<>>, keys |-> keys, strings |-> strings]

Function(name, decorators) == [name |-> name, owner |-> None, decorators |-> decorators, line |-> 1]

Class(name, base, methods) == [name |-> name, bases |-> base, methods |-> methods, line |-> 1]

Frappe == <<"frappe", "whitelist">>

MC_Parsed ==
  Empty :> Code
  @@ "broken" :> [Code EXCEPT !.parses = FALSE]
  @@ "hooks" :> [Code EXCEPT !.assigns =
       <<Assign("app_title", <<>>, <<>>),
         Assign("override_whitelisted_methods", <<<<"acme", "get">>, <<"erpnext", "get">>>>, <<>>),
         Assign("scheduler_events", <<>>, <<<<"acme", "daily">>>>),
         Assign("doc_events", <<>>, <<<<"acme", "on_submit">>>>)>>]
  @@ "api" :> [Code EXCEPT !.functions = <<Function("get", {Frappe}), Function("helper", {})>>]
  @@ "doctype" :> [Code EXCEPT !.name = "Item"]
  @@ "requirements" :> [Code EXCEPT !.requirements =
       [i \in 1..31 |-> [name |-> "library", constraint |-> IF i < 25 THEN None ELSE "pinned"]]]
  \* Sources of the three repositories.
  @@ "frappe" :> [Code EXCEPT
       !.classes = <<Class("Document", {}, {"validate"}), Class("NestedSet", {<<"Document">>}, {"on_update"}),
                     Class("Cache", {}, {"validate"})>>,
       !.functions = <<Function("ping", {Frappe}), Function("get", {<<"whitelist">>})>>]
  @@ "erpnext" :> [Code EXCEPT
       !.classes = <<Class("Account", {<<"frappe", "NestedSet">>}, {"validate"}),
                     Class("StockController", {<<"Account">>}, {"validate", "on_submit"})>>]
  @@ "erpnext api" :> [Code EXCEPT
       !.functions = <<Function("one", {Frappe}), Function("two", {<<"client", "whitelist">>}),
                       Function("three", {Frappe}), Function("four", {<<"client", "whitelist">>})>>]
  @@ "hrms" :> [Code EXCEPT
       !.classes = <<Class("Shift", {<<"erpnext", "StockController">>}, {"validate"}),
                     Class("Leave", {<<"Document">>}, {"validate"}), Class("Report", {<<"object">>}, {"validate"})>>]

MC_Trees ==
  "frappe" :> <<[path |-> <<"document.py">>, text |-> "frappe"]>>
  @@ "erpnext" :> <<[path |-> <<"acme", "__init__.py">>, text |-> "erpnext"], [path |-> <<"api.py">>, text |-> "erpnext api"]>>
  @@ "hrms" :> <<[path |-> <<"hooks.py">>, text |-> "hrms"]>>

MC_RequiredSupporting == "frappe" :> {} @@ "erpnext" :> {"frappe"} @@ "hrms" :> {"frappe", "erpnext"}

MC_Artifacts == {EvidenceArtifact(r) : r \in DOMAIN MC_Trees} \cup {PatternArtifact(r) : r \in DOMAIN MC_Trees}

------------------------------------------------------------------------------
(* The jobs.                                                                *)

NoJob == [kind |-> "none", disk |-> <<>>, manifests |-> <<>>, evaluation |-> None, stored |-> <<>>,
          walks |-> {}, syntheses |-> {}, maxFindings |-> 0, repository |-> None, supporting |-> <<>>,
          minOccurrences |-> 1]

OnlyRoot == Root :> Dir

Manifest(id, dir, provides, loads) == [id |-> id, dir |-> dir, provides |-> provides, loads |-> loads]

FileOperations == {"filesystem.exists", "filesystem.read_text", "filesystem.write_text"}

Working == Manifest("files", "a", FileOperations \cup {"filesystem.copy"}, TRUE)
Broken == Manifest("crm", "b", {"crm.lookup"}, FALSE)

CallJobs ==
  {[NoJob EXCEPT !.kind = "calls", !.disk = OnlyRoot, !.manifests = m] :
     m \in {<<Working, Broken, Working>>, <<Working, [Broken EXCEPT !.id = "files"]>>,
            <<Working, [Broken EXCEPT !.provides = {"filesystem.exists"}]>>}}

Request(capability, path) == [capability |-> capability, path |-> path, text |-> "api"]

MC_Requests ==
  {Request("filesystem.exists", <<"acme">>), Request("filesystem.write_text", <<"acme", "api.py">>),
   Request("filesystem.write_text", <<"..", "acme">>),
   Request("filesystem.copy", <<"acme">>),
   Request("crm.lookup", <<>>), Request("crm.update", <<>>)}

Application ==
  OnlyRoot @@ <<"acme">> :> Dir @@ <<"acme", "__init__.py">> :> Empty @@ <<"acme", "api.py">> :> "api"
  @@ <<"acme", "doctype">> :> Dir @@ <<"acme", "doctype", "item.json">> :> "doctype"
  @@ <<"acme", "hooks.py">> :> "hooks" @@ <<"requirements.txt">> :> "requirements"
  @@ <<"tests">> :> Dir @@ <<"tests", "api.py">> :> "api" @@ <<"vault">> :> Locked

Scripts == OnlyRoot @@ <<"api.py">> :> "api" @@ <<"doctype">> :> Dir @@ <<"doctype", "item.json">> :> "broken"

Walk(purpose, exclude, maxFiles) == [purpose |-> purpose, exclude |-> exclude, maxFiles |-> maxFiles]

AnalysisJobs ==
  {[NoJob EXCEPT !.kind = "analysis", !.disk = d, !.maxFindings = 100,
                 !.walks = {Walk("discovery", {"tests"}, n) : n \in {2, 9}},
                 !.syntheses = {[maxFiles |-> n] : n \in {2, 9}}] : d \in {Application, Scripts}}

ExtractionJobs ==
  {[NoJob EXCEPT !.kind = "extraction", !.disk = Application, !.repository = "erpnext",
                 !.walks = {Walk("evidence", {}, n) : n \in {2, 9}}]}

\* Findings of one category, whose modules overlap in every way, and of another.
FindingAbout(rule, category, severity, modules) ==
  [rule |-> rule, category |-> category, severity |-> severity, confidence |-> High, evidence |-> <<>>,
   files |-> 1..12, modules |-> modules]

RecommendationJobs ==
  {[NoJob EXCEPT !.kind = "recommendation",
                 !.evaluation = [truncated |-> FALSE, rulesEvaluated |-> 12,
                   findings |-> <<FindingAbout("DEP-001", "cohesion", s[1], m[1]),
                                  FindingAbout("EXT-001", "cohesion", s[2], m[2]),
                                  FindingAbout("MOD-001", "cohesion", s[3], m[3]),
                                  FindingAbout("SVC-001", "service_organization", Low, m[1])>>]] :
     s \in [1..3 -> {Info, Medium, High}], m \in [1..3 -> SUBSET {"m", "n"}]}

Patterns(stored, repository, supporting, n) ==
  [NoJob EXCEPT !.kind = "patterns", !.stored = stored, !.repository = repository, !.supporting = supporting,
                !.minOccurrences = n]

AllStored == <<"frappe", "erpnext", "hrms">>

PatternJobs ==
  {Patterns(AllStored, "hrms", supporting, 1) :
     supporting \in {<<>>, <<"frappe">>, <<"frappe", "erpnext">>, <<"frappe", "frappe">>}}
  \cup {Patterns(<<"frappe", "erpnext">>, "hrms", <<"frappe", "erpnext">>, 1),
        Patterns(AllStored, "frappe", <<>>, 1), Patterns(AllStored, "erpnext", <<"frappe">>, 2)}

MC_Jobs == CallJobs \cup AnalysisJobs \cup ExtractionJobs \cup RecommendationJobs \cup PatternJobs

MC_WhitelistJobs == {j \in PatternJobs : j.repository = "erpnext"}

MC_Edits ==
  {[path |-> Root, becomes |-> None], [path |-> Root, becomes |-> Dir],
   [path |-> <<"acme">>, becomes |-> None], [path |-> <<"acme">>, becomes |-> Locked],
   [path |-> <<"acme">>, becomes |-> Outside],
   [path |-> <<"acme", "api.py">>, becomes |-> "broken"], [path |-> <<"acme", "api.py">>, becomes |-> NotUtf8],
   [path |-> <<"acme", "doctype">>, becomes |-> Outside], [path |-> <<"acme", "hooks.py">>, becomes |-> None],
   [path |-> <<"acme", "new.py">>, becomes |-> "api"]}
==============================================================================
