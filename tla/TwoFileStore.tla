------------------------------ MODULE TwoFileStore -----------------------------
(***************************************************************************)
(* evidence/persistence.py and aggregation/persistence.py, one form: an    *)
(* artifact is a file of records and a file of metadata beside it, written *)
(* one after the other by a process that may end in between, and read the  *)
(* other way round by another process.  Writes are numbered; two processes *)
(* never write the same artifact at once.                                  *)
(***************************************************************************)
EXTENDS Naturals, Sequences, SequencesExt

CONSTANT Artifacts

VARIABLES
  files, \* files[a]: [records, meta], each [of, shape]: the write that made it and how much of it there is
  writes \* [artifact, document, at], by number

storing == <<files, writes>>

Absent == [of |-> 0, shape |-> "absent"]

Whole(w) == [of |-> w, shape |-> "whole"]

\* The artifacts that were there before, each whole.
StoreInit(documents) ==
  /\ writes = documents
  /\ files = [a \in Artifacts |->
                LET w == {i \in DOMAIN documents : documents[i].artifact = a}
                    file == IF w = {} THEN Absent ELSE Whole(CHOOSE i \in w : TRUE)
                IN [records |-> file, meta |-> file]]

Written(a, document) == [artifact |-> a, document |-> document, at |-> "written"]

Done == {"written", "crashed"}

Settled == {w \in DOMAIN writes : writes[w].at \in Done}

BeginWrite(a, document) ==
  /\ \A w \in DOMAIN writes \ Settled : writes[w].artifact # a
  /\ writes' = Append(writes, [artifact |-> a, document |-> document, at |-> "open records"])
  /\ UNCHANGED files

(* A write opens a file, which empties it, and fills it.                   *)

Opened(w, part, from, to) ==
  /\ writes[w].at = from
  /\ files' = [files EXCEPT ![writes[w].artifact][part] = [of |-> w, shape |-> "empty"]]
  /\ writes' = [writes EXCEPT ![w].at = to]

Filled(w, part, from, to) ==
  /\ writes[w].at = from
  /\ files' = [files EXCEPT ![writes[w].artifact][part] = Whole(w)]
  /\ writes' = [writes EXCEPT ![w].at = to]

\* mutant: the metadata first
WriteArtifact_MetaFirst(w) ==
  \/ Opened(w, "meta", "open records", "fill meta") \/ Filled(w, "meta", "fill meta", "open meta")
  \/ Opened(w, "records", "open meta", "fill records") \/ Filled(w, "records", "fill records", "written")

WriteArtifact(w) ==
  \/ Opened(w, "records", "open records", "fill records") \/ Filled(w, "records", "fill records", "open meta")
  \/ Opened(w, "meta", "open meta", "fill meta") \/ Filled(w, "meta", "fill meta", "written")

\* The process ends; of the file it was filling there is all, none or a part.
CrashWrite(w) ==
  /\ w \notin Settled
  /\ writes' = [writes EXCEPT ![w].at = "crashed"]
  /\ \/ UNCHANGED files
     \/ /\ writes[w].at \in {"fill records", "fill meta"}
        /\ LET part == IF writes[w].at = "fill records" THEN "records" ELSE "meta"
           IN files' = [files EXCEPT ![writes[w].artifact][part] = [of |-> w, shape |-> "part"]]

(* A read is [artifact, meta, records, settled, shape]: the two files as   *)
(* they were when each was read, what was settled when it began, and how   *)
(* much of the records it found: "whole", a "part" of their lines, or      *)
(* "error".                                                                *)

BeginRead(a) == [artifact |-> a, meta |-> files[a].meta, records |-> Absent, settled |-> Settled, shape |-> "reading"]

\* Metadata that is not whole is no JSON; records cut within a line neither, but
\* cut between lines they are fewer records.
ShapesRead(meta, records) ==
  IF meta.shape # "whole" \/ records.shape = "absent" THEN {"error"}
  ELSE CASE records.shape = "whole" -> {"whole"}
         [] records.shape = "empty" -> {"part"}
         [] records.shape = "part" -> {"part", "error"}

EndRead(read, shape) ==
  [read EXCEPT !.records = files[read.artifact].records, !.shape = shape]

Accepted(read) == read.shape \in {"whole", "part"}

Agrees(read) == read.shape = "whole" /\ read.records.of = read.meta.of

DocumentRead(read) == writes[read.meta.of].document

\* evidence/persistence.py:75-80, 98-124: what is read is one write's, all of
\* it, unless the records are those of a later write which had not finished
\* when the reading began, or never did.
Interrupted(read) ==
  /\ read.records.of > read.meta.of
  /\ writes[read.records.of].at = "crashed" \/ read.records.of \notin read.settled

AgreesUnlessInterrupted(read) == Accepted(read) => Agrees(read) \/ Interrupted(read)
==============================================================================
