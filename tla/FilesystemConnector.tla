-------------------------- MODULE FilesystemConnector -------------------------
(***************************************************************************)
(* integration/connectors/filesystem/connector.py over the disk below its  *)
(* root.  A path is the sequence of its names from the root; disk maps the *)
(* paths there are to what is there: a directory, a directory that cannot  *)
(* be listed, a symbolic link that leaves the root, or a file, which is    *)
(* its text, one of them not UTF-8.  An operation answers [value, error];  *)
(* an error is the class of the exception.                                 *)
(***************************************************************************)
EXTENDS Naturals, Sequences, SequencesExt, FiniteSets

CONSTANT None \* no root, no error, nothing found

VARIABLE disk \* what there is at each path below the root; nothing when the root is gone

Dir == "directory"
Locked == "locked directory"
Outside == "link out of the root"
NotUtf8 == "not UTF-8"
Empty == ""
Torn == "parts of two texts"

Root == <<>>

OSErrors == {"FileNotFoundError", "NotADirectoryError", "PermissionError", "IsADirectoryError", "FileExistsError"}

Errors == OSErrors \cup {"ConnectorLifecycleError", "ValueError", "UnicodeDecodeError", "unknown operation"}

ASSUME NoneAssumption == None \notin Errors

Ok(value) == [value |-> value, error |-> None]
Raise(error) == [value |-> None, error |-> error]

IsDir(path) == path \in DOMAIN disk /\ disk[path] \in {Dir, Locked}
IsFile(path) == path \in DOMAIN disk /\ disk[path] \notin {Dir, Locked, Outside}

\* connect: the root there is; before it, nothing can be used.
ConnectError == IF IsDir(Root) THEN None ELSE "ConnectorLifecycleError"

\* ".." leaves the directory it is in; above the root there is no way back.
Enter(path, name) ==
  IF name = ".." /\ path # Root /\ Last(path) # ".." THEN Front(path) ELSE Append(path, name)

Resolved(path) ==
  LET upTo[n \in 0..Len(path)] == IF n = 0 THEN Root ELSE Enter(upTo[n - 1], path[n])
  IN upTo[Len(path)]

Escapes(path) ==
  \/ ".." \in ToSet(Resolved(path))
  \/ \E i \in 0..Len(Resolved(path)) :
       LET prefix == SubSeq(Resolved(path), 1, i) IN prefix \in DOMAIN disk /\ disk[prefix] = Outside

\* _resolve, for an instance that is or is not connected.
ResolveError(connected, path) ==
  IF ~connected THEN "ConnectorLifecycleError"
  ELSE IF Escapes(path) THEN "ValueError"
  ELSE None

ReadText(path) ==
  LET target == Resolved(path)
  IN IF ~IsFile(target) THEN Raise("FileNotFoundError")
     ELSE IF disk[target] = NotUtf8 THEN Raise("UnicodeDecodeError")
     ELSE Ok(disk[target])

Exists(path) == Ok(Resolved(path) \in DOMAIN disk)

Children(path) == {p \in DOMAIN disk : Len(p) = Len(path) + 1 /\ SubSeq(p, 1, Len(path)) = path}

\* The names in a directory, which its callers go through in order.
ListDirectory(path) ==
  LET target == Resolved(path)
  IN IF ~IsDir(target) THEN Raise("NotADirectoryError")
     ELSE IF disk[target] = Locked THEN Raise("PermissionError")
     ELSE Ok({Last(p) : p \in Children(target)})

Parents(path) == {SubSeq(path, 1, i) : i \in 0..(Len(path) - 1)}

\* write_text: the missing parents first.
MkdirError(path) ==
  IF \E p \in Parents(path) : IsFile(p) THEN "NotADirectoryError"
  ELSE IF \E p \in Parents(path) \cap DOMAIN disk : disk[p] = Locked THEN "PermissionError"
  ELSE None

WithParents(path) ==
  [p \in DOMAIN disk \cup Parents(path) |-> IF p \in DOMAIN disk THEN disk[p] ELSE Dir]

\* Then the text.  A parent may have gone in between.
WriteError(path) ==
  IF IsDir(path) THEN "IsADirectoryError"
  ELSE IF ~IsDir(Front(path)) THEN "FileNotFoundError"
  ELSE None

WithText(path, text) == [p \in DOMAIN disk \cup {path} |-> IF p = path THEN text ELSE disk[p]]

Operations == {"filesystem.read_text", "filesystem.write_text", "filesystem.exists", "filesystem.list_directory"}

\* invoke: an exception of a handler is a failed answer, but for the
\* connector's own, which goes on to the caller.
Response(answer) ==
  [status |-> CASE answer.error = None -> "success"
                [] answer.error = "ConnectorLifecycleError" -> "raised"
                [] OTHER -> "failure",
   result |-> answer.value]

Read(connected, operation, path) ==
  IF ResolveError(connected, path) # None THEN Raise(ResolveError(connected, path))
  ELSE CASE operation = "filesystem.read_text" -> ReadText(path)
         [] operation = "filesystem.exists" -> Exists(path)
         [] operation = "filesystem.list_directory" -> ListDirectory(path)
==============================================================================
