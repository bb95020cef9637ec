----------------------------- MODULE RepositoryWalk ---------------------------
(***************************************************************************)
(* discovery/engine.py, and the walk of evidence/engine.py: a depth-first  *)
(* walk under a budget of files and time, which asks of every name whether *)
(* it is a directory by listing it, and the inventory made of what it      *)
(* found.  The disk may change between any two calls.                      *)
(***************************************************************************)
EXTENDS FilesystemConnector

CONSTANTS
  NameOrder, \* NameOrder[name]: the place of a name in sorted order
  TypeOf,    \* TypeOf[name]: the properties of a name that decide the type of its file
  Parsed     \* Parsed[text]: what a text states, for the modules that read the files

Paths == Seq(DOMAIN NameOrder)

\* What a directory lists is never the way out of it.
ASSUME NameAssumption == NameOrder \in [DOMAIN NameOrder -> Nat] /\ ".." \notin DOMAIN NameOrder

\* What is there is in directories, up to the root.
IsTree(tree) ==
  \A p \in DOMAIN tree :
    /\ p \in Paths
    /\ p # Root => Front(p) \in DOMAIN tree /\ tree[Front(p)] \in {Dir, Locked}

VARIABLES
  walk,      \* [at, request, frames, files, errors, directories, top, truncated, expired]
  inventory,
  lasting,   \* history: the paths that have been what they are all the time
  ever       \* history: the paths that have existed

walking == <<walk, inventory>>

\* A frame is a visit() under way: [dir, names], the names it has still to go through.
\* request is [exclude, maxFiles, purpose]; the evidence walk excludes nothing,
\* and forgets the errors and the directories.
NotStarted == [at |-> "none", request |-> None, frames |-> <<>>, files |-> <<>>, errors |-> {},
               directories |-> 0, top |-> {}, truncated |-> FALSE, expired |-> FALSE]

WalkInit ==
  /\ walk = NotStarted /\ inventory = None
  /\ lasting = DOMAIN disk /\ ever = DOMAIN disk

\* The history, after a step that may have changed the disk.
RecordDisk ==
  /\ lasting' = {p \in lasting : p \in DOMAIN disk' /\ disk'[p] = disk[p]}
  /\ ever' = ever \cup DOMAIN disk'

ForDiscovery == walk.request.purpose = "discovery"

\* resolve_connector, then visit(".").
BeginWalk(request) ==
  /\ walk.at = "none"
  /\ walk' = IF ConnectError # None THEN [NotStarted EXCEPT !.at = "failed", !.request = request]
             ELSE [NotStarted EXCEPT !.at = "visit", !.request = request, !.frames = <<[dir |-> Root, names |-> {}]>>]
  /\ UNCHANGED inventory

\* The time is over, and stays over.
Expire ==
  /\ walk.at \in {"visit", "names"} /\ ~walk.expired
  /\ walk' = [walk EXCEPT !.expired = TRUE]
  /\ UNCHANGED inventory

Frame == Last(walk.frames)

Erred(path) == IF ForDiscovery THEN walk.errors \cup {path} ELSE walk.errors

AfterReturn(w) ==
  LET frames == Front(w.frames)
  IN [w EXCEPT !.frames = frames, !.at = IF frames = <<>> THEN "walked" ELSE "names"]

\* visit(): the directory is listed for its names.
Visit ==
  /\ walk.at = "visit"
  /\ LET answer == Read(TRUE, "filesystem.list_directory", Frame.dir) IN
     walk' = IF answer.error = None
             THEN [walk EXCEPT !.at = "names", !.frames[Len(walk.frames)].names = answer.value]
             ELSE IF answer.error \in OSErrors
             THEN AfterReturn([walk EXCEPT !.errors = Erred(Frame.dir)])
             ELSE [walk EXCEPT !.at = "failed"]
  /\ UNCHANGED inventory

LeaveDirectory ==
  /\ walk.at = "names" /\ Frame.names = {}
  /\ walk' = AfterReturn(walk)
  /\ UNCHANGED inventory

Name == CHOOSE name \in Frame.names : \A other \in Frame.names : NameOrder[name] <= NameOrder[other]
Child == Append(Frame.dir, Name)
WithoutName(w) == [w EXCEPT !.frames[Len(w.frames)].names = @ \ {Name}]

SkipExcluded ==
  /\ walk.at = "names" /\ Frame.names # {} /\ Name \in walk.request.exclude
  /\ walk' = WithoutName(walk)
  /\ UNCHANGED inventory

MayLook == walk.at = "names" /\ Frame.names # {} /\ Name \notin walk.request.exclude

BudgetSpent == walk.expired \/ Len(walk.files) >= walk.request.maxFiles

Truncate ==
  /\ MayLook /\ BudgetSpent
  /\ walk' = AfterReturn([walk EXCEPT !.truncated = TRUE])
  /\ UNCHANGED inventory

\* mutant: what cannot be listed is taken for a file
IsLeaf_AnyError(error) == error \in OSErrors

\* A missing path is not a directory either.
IsLeaf(error) == error = "NotADirectoryError"

\* The name is listed to see what it is; visit() lists a directory once more.
Look ==
  /\ MayLook /\ ~BudgetSpent
  /\ LET error == Read(TRUE, "filesystem.list_directory", Child).error
         rest == WithoutName(walk)
     IN walk' =
          IF error = None
          THEN [rest EXCEPT !.at = "visit", !.frames = Append(@, [dir |-> Child, names |-> {}]),
                            !.directories = @ + 1,
                            !.top = IF Frame.dir = Root THEN @ \cup {Name} ELSE @]
          ELSE IF IsLeaf(error) THEN [rest EXCEPT !.files = Append(@, Child)]
          ELSE IF error \in OSErrors THEN [rest EXCEPT !.errors = Erred(Child)]
          ELSE [walk EXCEPT !.at = "failed"]
  /\ UNCHANGED inventory

(* The inventory.                                                          *)

\* _classify: the first thing that applies.
Classify(path) ==
  LET name == TypeOf[Last(path)]
      parts == ToSet(path)
      ladder ==
        <<<<"hook", name.file = "hooks.py">>,
          <<"test", name.test \/ parts \cap {"tests", "test"} # {}>>,
          <<"doctype", name.suffix = "json" /\ "doctype" \in parts>>,
          <<"config", name.config>>,
          <<"readme", name.readme>>,
          <<"json", name.suffix = "json">>,
          <<"python_source", name.suffix = "py">>,
          <<"template", name.suffix = "template" \/ "templates" \in parts>>,
          <<"static", name.suffix \in {"js", "static"}>>,
          <<"unknown", TRUE>>>>
  IN Head(SelectSeq(ladder, LAMBDA step : step[2]))[1]

\* classify_entries: a file that has gone since it was listed cannot be sized.
ClassifyEntries ==
  /\ walk.at = "walked" /\ ForDiscovery
  /\ walk' = [walk EXCEPT !.at = IF ToSet(walk.files) \subseteq DOMAIN disk THEN "classified" ELSE "failed"]
  /\ UNCHANGED inventory

Statistics(files) ==
  [files |-> Len(files), directories |-> walk.directories,
   byType |-> [type \in {Classify(f) : f \in ToSet(files)} |->
                 Cardinality({f \in ToSet(files) : Classify(f) = type})]]

Names(files) == {TypeOf[Last(f)].file : f \in ToSet(files)}

EntryPoints == {"hooks.py", "__init__.py", "manage.py", "main.py", "app.py", "cli.py"}

Metadata(files) ==
  [languages |-> {TypeOf[Last(f)].suffix : f \in ToSet(files)} \cap {"py", "js", "ts"},
   frameworks |-> (IF {"hooks.py", "modules.txt"} \subseteq Names(files) THEN {"frappe"} ELSE {})
             \cup (IF "package.json" \in Names(files) THEN {"node"} ELSE {})
             \cup (IF {"pyproject.toml", "setup.py"} \cap Names(files) # {} THEN {"python-packaging"} ELSE {}),
   top |-> walk.top,
   entryPoints |-> Names(files) \cap EntryPoints]

AssembleInventory ==
  /\ walk.at = "classified"
  /\ inventory' = [files |-> walk.files, truncated |-> walk.truncated, errors |-> walk.errors,
                   excluded |-> walk.request.exclude,
                   statistics |-> Statistics(walk.files), metadata |-> Metadata(walk.files)]
  /\ walk' = [walk EXCEPT !.at = "done"]

WalkNext ==
  \/ Expire \/ Visit \/ LeaveDirectory \/ SkipExcluded \/ Truncate \/ Look
  \/ ClassifyEntries \/ AssembleInventory

------------------------------------------------------------------------------
(* Properties.                                                             *)

Hidden(path) == \E p \in Parents(path) : disk[p] = Locked

\* discovery/engine.py:214-267: a walk over a tree that changes meanwhile lists
\* no file twice, none that never was, and no more than its budget; it is
\* truncated only when a budget was spent; and one that is not truncated has
\* listed every file that was there all the time and is neither excluded nor
\* beneath a directory that cannot be listed, and tells of each such directory.
WalksAccountForEveryFile ==
  walk.at \in {"walked", "classified", "done"} =>
    LET steady == {p \in lasting : /\ Prefixes(p) \subseteq lasting /\ ~Hidden(p)
                                   /\ ToSet(p) \cap walk.request.exclude = {}}
    IN /\ IsInjective(walk.files) /\ ToSet(walk.files) \subseteq ever
       /\ Len(walk.files) <= walk.request.maxFiles
       /\ walk.truncated => BudgetSpent
       /\ ~walk.truncated => /\ {p \in steady : IsFile(p)} \subseteq ToSet(walk.files)
                             /\ ForDiscovery => {p \in steady : disk[p] = Locked} \subseteq walk.errors
==============================================================================
